--------------------------- MODULE PipelineProofs ---------------------------
(***************************************************************************)
(* What the pipeline says only when it was earned, for every value of the  *)
(* constants: that an amendment overrides a documented value, that strict  *)
(* mode has a candidate, that a benchmark case or the gate passed; that    *)
(* the bridge finds what the Core accepts of an entry's references, and    *)
(* that what the Core accepts of them is in the document; and that what    *)
(* made a contract pass can be attributed to its documents.                *)
(* A behaviour of MCSpec is about one part; each of these parts has an     *)
(* invariant here, and the theorem about it follows its lemmas.            *)
(***************************************************************************)
EXTENDS Pipeline, FiniteSetTheorems, SequenceTheorems, WellFoundedInduction, TLAPS

everything == <<part, vars, conformance, grounding, derivation, planning, benchmarks>>

-----------------------------------------------------------------------------
(* Sets.                                                                   *)

\* Two elements of a finite set that has no more than one are the same.
LEMMA OneElement ==
  ASSUME NEW S, IsFiniteSet(S), ~(Cardinality(S) > 1), NEW x \in S
  PROVE  S = {x}
<1> SUFFICES ASSUME NEW y \in S, y # x PROVE FALSE
  OBVIOUS
<1>1. /\ IsFiniteSet(S \ {x}) /\ Cardinality(S \ {x}) = Cardinality(S) - 1
  BY FS_RemoveElement
<1>2. /\ Cardinality(S) \in Nat /\ Cardinality(S \ {x}) \in Nat
  BY <1>1, FS_CardinalityType
<1>3. Cardinality(S \ {x}) = 0
  BY <1>1, <1>2
<1>4. S \ {x} = {}
  BY <1>1, <1>3, FS_EmptySet
<1> QED
  BY <1>4

\* An image of a finite set is finite.
LEMMA ImageFinite ==
  ASSUME NEW S, IsFiniteSet(S), NEW f
  PROVE  IsFiniteSet({f[x] : x \in S})
<1> DEFINE g == [x \in S |-> f[x]]
           T == {f[x] : x \in S}
<1>1. g \in Surjection(S, T)
  BY DEF Surjection
<1> QED
  BY <1>1, FS_Surjection

\* How many elements a set has, in either module.
LEMMA FeedbackSize == \A S : Feedback!Cardinality(S) = Cardinality(S)
BY DEF Feedback!Cardinality, Cardinality, Feedback!IsFiniteSet, IsFiniteSet

-----------------------------------------------------------------------------
(* Conformance.  The invariant says what is behind each contradiction of   *)
(* an assessment, each proposal and each amendment; the last composition   *)
(* is one of the amendments as they are.                                   *)

\* An observation of t that nobody reported by hand and the API answered with v only.
Stating(o, t, v) ==
  /\ o.lineage # "manual" /\ o.target = t
  /\ Feedback!Outcomes(o) = {"api_response"} /\ Feedback!Observed(o) = {v}

Contradictions(a) == {x \in a.decided : x.relationship = "contradicts"}

\* Contradictions of one target state one value; they ask for an amendment only of
\* what is documented.
SoundlyJudged(a) ==
  /\ \A x \in Contradictions(a) : a.scope \notin Foreign /\ Stating(x.observation, x.target, x.observed)
  /\ \A x, y \in Contradictions(a) : x.target = y.target => x.observed = y.observed
  /\ a.route = "amendment_proposal" => \A x \in Contradictions(a) : x.target \in Documented

\* A proposal that a human may approve.
Warranted(p) ==
  /\ p.target \in Documented \ (Fields \cup Sensitive)
  /\ p.scope \notin Foreign
  /\ p.because # {}
  /\ \A o \in p.because : Stating(o, p.target, p.proposed)

FeedbackInv ==
  /\ now \in Nat
  /\ assessment # None => SoundlyJudged(assessment)
  /\ \A p \in proposals : Warranted(p)
  /\ \E S : amendments \in Seq(S)
  /\ \A i \in DOMAIN amendments :
       /\ Warranted(amendments[i].proposal)
       /\ amendments[i].approved \in Nat /\ amendments[i].expires \in Int
  /\ effective # None =>
       /\ effective.at \in Nat
       /\ \E scope \in Scopes :
            effective = Feedback!Composition(amendments, scope, effective.base, effective.at)

\* Attempts that agree state one outcome and one value.
LEMMA SteadyStates ==
  ASSUME NEW o \in Feedback!Observations, ~Feedback!Unsteady(o)
  PROVE  /\ Feedback!Outcomes(o) = {o.attempts[1].outcome}
         /\ Feedback!Observed(o) = {o.attempts[1].observed}
<1>1. o.attempts \in AttemptLists
  BY DEF Feedback!Observations
<1>2. 1 \in DOMAIN o.attempts /\ IsFiniteSet(DOMAIN o.attempts)
  <2>1. Len(o.attempts) \in Nat \ {0} /\ DOMAIN o.attempts = 1..Len(o.attempts)
    BY <1>1, AttemptsAssumption DEF Feedback!AttemptsStated
  <2>2. IsFiniteSet(1..Len(o.attempts))
    BY <2>1, FS_Interval
  <2> QED
    BY <2>1, <2>2
<1> DEFINE f == [i \in DOMAIN o.attempts |-> o.attempts[i].outcome]
           g == [i \in DOMAIN o.attempts |-> o.attempts[i].observed]
<1>3. /\ Feedback!Outcomes(o) = {f[i] : i \in DOMAIN o.attempts}
      /\ Feedback!Observed(o) = {g[i] : i \in DOMAIN o.attempts}
  BY DEF Feedback!Outcomes, Feedback!Observed
<1>4. /\ f[1] = o.attempts[1].outcome /\ f[1] \in Feedback!Outcomes(o)
      /\ g[1] = o.attempts[1].observed /\ g[1] \in Feedback!Observed(o)
  BY <1>2, <1>3
<1> HIDE DEF f, g
<1>5. IsFiniteSet(Feedback!Outcomes(o)) /\ IsFiniteSet(Feedback!Observed(o))
  BY <1>2, <1>3, ImageFinite
<1>6. ~(Cardinality(Feedback!Outcomes(o)) > 1) /\ ~(Cardinality(Feedback!Observed(o)) > 1)
  BY FeedbackSize DEF Feedback!Unsteady
<1> QED
  BY <1>4, <1>5, <1>6, OneElement

\* A contradiction that assess reports was answered, and not by hand.
LEMMA ContradictionsState ==
  ASSUME NEW bundle \in Feedback!Bundles, NEW scope, NEW r,
         Feedback!Assessable(bundle, scope, r), NEW o \in bundle,
         Feedback!Relationship(o, scope, r).relationship = "contradicts"
  PROVE  LET x == Feedback!Relationship(o, scope, r) IN
         scope \notin Foreign /\ x.observation = o /\ Stating(o, x.target, x.observed)
<1>1. o \in Feedback!Observations
  BY DEF Feedback!Bundles
<1>2. /\ Feedback!Judge(o, scope, r) = "contradicts"
      /\ Feedback!Relationship(o, scope, r).observation = o
      /\ Feedback!Relationship(o, scope, r).target = o.target
      /\ Feedback!Relationship(o, scope, r).observed
           = IF scope \in Foreign THEN None ELSE o.attempts[1].observed
  BY DEF Feedback!Relationship
<1>3. scope \notin Foreign /\ o.lineage # "manual" /\ o.attempts[1].outcome = "api_response"
  BY <1>2 DEF Feedback!Judge
<1>4. ~Feedback!Unsteady(o)
  BY <1>3 DEF Feedback!Assessable
<1> QED
  BY <1>1, <1>2, <1>3, <1>4, SteadyStates DEF Stating

\* The assessment of a bundle is sound.
LEMMA AssessJudges == Feedback!Assess => SoundlyJudged(assessment')
<1> SUFFICES ASSUME Feedback!Assess PROVE SoundlyJudged(assessment')
  OBVIOUS
<1>1. PICK bundle \in Feedback!Bundles, scope \in Scopes :
        /\ Feedback!Assessable(bundle, scope, release)
        /\ assessment' =
             [base |-> release, scope |-> scope, at |-> now,
              decided |-> {x \in {Feedback!Relationship(o, scope, release) : o \in bundle} :
                             Feedback!Decided(x)},
              route |-> Feedback!Route({Feedback!Relationship(o, scope, release) : o \in bundle}),
              verified |-> Feedback!FullyVerified({Feedback!Relationship(o, scope, release) : o \in bundle})]
  BY DEF Feedback!Assess
<1> DEFINE rels == {Feedback!Relationship(o, scope, release) : o \in bundle}
           a == [base |-> release, scope |-> scope, at |-> now,
                 decided |-> {x \in rels : Feedback!Decided(x)}, route |-> Feedback!Route(rels),
                 verified |-> Feedback!FullyVerified(rels)]
<1>2. Contradictions(a) = {x \in rels : x.relationship = "contradicts"}
  BY DEF Contradictions, Feedback!Decided
<1>3. \A x \in Contradictions(a) : a.scope \notin Foreign /\ Stating(x.observation, x.target, x.observed)
  BY <1>1, <1>2, ContradictionsState
<1>4. \A x, y \in Contradictions(a) : x.target = y.target => x.observed = y.observed
  BY <1>1, <1>2 DEF Feedback!Assessable, Feedback!Conflicting, Feedback!Decided
<1>5. a.route = "amendment_proposal" => \A x \in Contradictions(a) : x.target \in Documented
  <2>1. a.route = Feedback!Route(rels)
    OBVIOUS
  <2> HIDE DEF rels, a
  <2>2. Feedback!Route(rels) = "amendment_proposal" =>
          \A x \in {y \in rels : y.relationship = "contradicts"} : x.target \in Documented
    BY ZenonT(60) DEF Feedback!Route
  <2> QED
    BY <1>2, <2>1, <2>2
<1> QED
  BY <1>1, <1>3, <1>4, <1>5 DEF SoundlyJudged

\* A proposal from a sound assessment is warranted.
LEMMA ProposalsAreWarranted ==
  ASSUME NEW a, SoundlyJudged(a), a.route = "amendment_proposal",
         NEW x \in a.decided, x.relationship = "contradicts", ~Feedback!HighRisk(x)
  PROVE  Warranted(Feedback!ProposalOf(a, x.target))
<1> DEFINE of == {y \in a.decided : y.relationship = "contradicts" /\ y.target = x.target}
           p == Feedback!ProposalOf(a, x.target)
<1>1. /\ p.scope = a.scope /\ p.target = x.target /\ p.because = {y.observation : y \in of}
      /\ p.proposed = (CHOOSE y \in of : TRUE).observed
  BY DEF Feedback!ProposalOf
<1>2. x \in of /\ of \subseteq Contradictions(a)
  BY DEF Contradictions
<1>3. (CHOOSE y \in of : TRUE) \in of
  BY <1>2
<1>4. \A y \in of : y.observed = p.proposed
  BY <1>1, <1>2, <1>3 DEF SoundlyJudged
<1>5. \A o \in p.because : Stating(o, x.target, p.proposed)
  BY <1>1, <1>2, <1>4 DEF SoundlyJudged
<1>6. x.target \in Documented \ (Fields \cup Sensitive) /\ a.scope \notin Foreign
  BY <1>2 DEF SoundlyJudged, Feedback!HighRisk
<1>7. p.because # {}
  BY <1>1, <1>2
<1> HIDE DEF p
<1> QED
  BY <1>1, <1>5, <1>6, <1>7 DEF Warranted, p

\* What a composition applies is made for this scope and this release, and not expired.
LEMMA AppliedAreCurrent ==
  ASSUME NEW ams, NEW scope, NEW r, NEW t \in Nat, NEW i \in Feedback!InForce(ams, scope, r, t),
         \A j \in DOMAIN ams : ams[j].approved \in Nat /\ ams[j].expires \in Int
  PROVE  /\ i \in DOMAIN ams /\ ams[i].proposal.scope = scope /\ ams[i].proposal.base = r
         /\ ams[i].approved <= t /\ t < ams[i].expires
<1>1. i \in Feedback!Active(ams, scope, r, t)
  BY DEF Feedback!InForce
<1>2. /\ i \in DOMAIN ams /\ ams[i].proposal.scope = scope
      /\ ~(ams[i].approved > t) /\ ~(ams[i].expires > t /\ ams[i].proposal.base # r)
      /\ ~(ams[i].approved <= t /\ ams[i].expires <= t)
  BY <1>1, SMTT(30) DEF Feedback!Active, Feedback!Indices, Feedback!Inapplicable, Feedback!Stale,
     Feedback!Expired, Feedback!Current
<1> QED
  BY <1>2

\* What a composition says it applies, and the values it gives.
LEMMA CompositionGives ==
  ASSUME NEW ams, NEW scope, NEW r, NEW m
  PROVE  LET c == Feedback!Composition(ams, scope, r, m)
             force == Feedback!InForce(ams, scope, r, m)
         IN  /\ c.scope = scope /\ c.applied = force
             /\ \A t \in Targets : c.values[t] # Feedback!Normative(t, r) =>
                  \E i \in force : /\ ams[i].proposal.target = t
                                  /\ ams[i].proposal.proposed = c.values[t]
<1> DEFINE c == Feedback!Composition(ams, scope, r, m)
           force == Feedback!InForce(ams, scope, r, m)
<1>1. /\ c.scope = scope /\ c.applied = force
      /\ c.values = [u \in Targets |->
           IF u \in {ams[i].proposal.target : i \in force}
           THEN ams[CHOOSE i \in force : ams[i].proposal.target = u].proposal.proposed
           ELSE Feedback!Normative(u, r)]
  BY DEF Feedback!Composition
<1> HIDE DEF c, force
<1>2. ASSUME NEW t \in Targets, c.values[t] # Feedback!Normative(t, r)
      PROVE  \E i \in force : ams[i].proposal.target = t /\ ams[i].proposal.proposed = c.values[t]
  <2> DEFINE k == CHOOSE i \in force : ams[i].proposal.target = t
  <2>1. t \in {ams[i].proposal.target : i \in force}
    BY <1>1, <1>2
  <2>2. k \in force /\ ams[k].proposal.target = t
    BY <2>1
  <2>3. c.values[t] = ams[k].proposal.proposed
    BY <1>1, <1>2, <2>1
  <2> QED
    BY <2>2, <2>3
<1> QED
  BY <1>1, <1>2 DEF c, force

\* Initially.
LEMMA FeedbackStarts == Feedback!Init => FeedbackInv
<1> SUFFICES ASSUME Feedback!Init PROVE FeedbackInv
  OBVIOUS
<1>1. amendments = <<>> /\ amendments \in Seq({})
  BY DEF Feedback!Init
<1> QED
  BY <1>1 DEF Feedback!Init, FeedbackInv

\* By each action.
LEMMA FeedbackKeeps == FeedbackInv /\ [Feedback!Next]_Feedback!vars => FeedbackInv'
<1> SUFFICES ASSUME FeedbackInv, [Feedback!Next]_Feedback!vars PROVE FeedbackInv'
  OBVIOUS
<1>1. CASE Feedback!Assess
  BY <1>1, AssessJudges DEF FeedbackInv, Feedback!Assess
<1>2. CASE Feedback!Propose
  <2>1. \A p \in proposals' : Warranted(p)
    <3> SUFFICES ASSUME NEW p \in proposals', p \notin proposals PROVE Warranted(p)
      BY DEF FeedbackInv
    <3>1. assessment.route = "amendment_proposal"
      BY <1>2 DEF Feedback!Propose
    <3>2. PICK x \in {y \in assessment.decided :
                       y.relationship = "contradicts" /\ ~Feedback!HighRisk(y)} :
            p = Feedback!ProposalOf(assessment, x.target)
      BY <1>2, <3>1 DEF Feedback!Propose
    <3> QED
      BY <1>2, <3>1, <3>2, ProposalsAreWarranted DEF FeedbackInv, Feedback!Propose
  <2> QED
    BY <1>2, <2>1 DEF FeedbackInv, Feedback!Propose
<1>3. CASE Feedback!Approve
  <2>1. PICK p \in proposals, expires \in 0..MaxTime + 1,
             supersedes \in Feedback!Indices(amendments) \cup {None} :
          amendments' = Append(amendments, [proposal |-> p, approved |-> now,
                                            expires |-> expires, supersedes |-> supersedes])
    BY <1>3 DEF Feedback!Approve
  <2> DEFINE am == [proposal |-> p, approved |-> now, expires |-> expires, supersedes |-> supersedes]
  <2>2. PICK S : amendments \in Seq(S)
    BY DEF FeedbackInv
  <2>3. amendments \in Seq(S \cup {am}) /\ amendments' \in Seq(S \cup {am})
    BY <2>1, <2>2
  <2>4. \A i \in DOMAIN amendments' : (i \in DOMAIN amendments /\ amendments'[i] = amendments[i])
                                      \/ amendments'[i] = am
    BY <2>1, <2>3
  <2>5. Warranted(am.proposal) /\ am.approved \in Nat /\ am.expires \in Int
    BY DEF FeedbackInv
  <2>6. proposals' \subseteq proposals /\ UNCHANGED <<now, assessment, effective>> /\ effective = None
    BY <1>3 DEF Feedback!Approve
  <2> HIDE DEF am
  <2> QED
    BY <2>3, <2>4, <2>5, <2>6 DEF FeedbackInv
<1>4. CASE Feedback!Compose
  <2>1. PICK scope \in Scopes :
          effective' = Feedback!Composition(amendments, scope, release, now)
    BY <1>4 DEF Feedback!Compose
  <2>2. effective'.base = release /\ effective'.at = now
    BY <2>1 DEF Feedback!Composition
  <2>3. UNCHANGED <<now, release, assessment, proposals, amendments>>
    BY <1>4 DEF Feedback!Compose
  <2> QED
    BY <2>1, <2>2, <2>3 DEF FeedbackInv
<1>5. CASE Feedback!PassTime
  BY <1>5 DEF FeedbackInv, Feedback!PassTime
<1>6. CASE Feedback!ApproveNormative
  BY <1>6 DEF FeedbackInv, Feedback!ApproveNormative
<1>7. CASE UNCHANGED Feedback!vars
  BY <1>7 DEF FeedbackInv, Feedback!vars
<1> QED
  BY <1>1, <1>2, <1>3, <1>4, <1>5, <1>6, <1>7 DEF Feedback!Next

\* What the composition applies was proposed for good reasons.
LEMMA FeedbackGives == FeedbackInv => Feedback!OverridesAreWarranted
<1> SUFFICES ASSUME FeedbackInv, effective # None, NEW t \in Targets,
                    effective.values[t] # Feedback!Normative(t, effective.base)
             PROVE  \E i \in effective.applied :
                      LET am == amendments[i] IN
                      /\ am.proposal.target = t /\ am.proposal.proposed = effective.values[t]
                      /\ am.proposal.scope = effective.scope /\ am.proposal.base = effective.base
                      /\ am.approved <= effective.at /\ effective.at < am.expires
                      /\ t \in Documented \ (Fields \cup Sensitive)
                      /\ effective.scope \notin Foreign
                      /\ am.proposal.because # {}
                      /\ \A o \in am.proposal.because :
                           /\ o.lineage # "manual" /\ o.target = t
                           /\ Feedback!Outcomes(o) = {"api_response"}
                           /\ Feedback!Observed(o) = {effective.values[t]}
  BY DEF Feedback!OverridesAreWarranted
<1>1. PICK scope \in Scopes :
        effective = Feedback!Composition(amendments, scope, effective.base, effective.at)
  BY DEF FeedbackInv
<1> DEFINE r == effective.base
           m == effective.at
           force == Feedback!InForce(amendments, scope, r, m)
<1>2. /\ effective.scope = scope /\ effective.applied = force
      /\ \A u \in Targets : effective.values[u] # Feedback!Normative(u, r) =>
           \E i \in force : /\ amendments[i].proposal.target = u
                           /\ amendments[i].proposal.proposed = effective.values[u]
  BY <1>1, CompositionGives
<1>3. PICK k \in force : /\ amendments[k].proposal.target = t
                         /\ amendments[k].proposal.proposed = effective.values[t]
  BY <1>2
<1>4. /\ k \in DOMAIN amendments /\ amendments[k].proposal.scope = scope /\ amendments[k].proposal.base = r
      /\ amendments[k].approved <= m /\ m < amendments[k].expires
  BY <1>3, AppliedAreCurrent DEF FeedbackInv
<1>5. Warranted(amendments[k].proposal)
  BY <1>4 DEF FeedbackInv
<1> QED
  BY <1>2, <1>3, <1>4, <1>5 DEF Warranted, Stating

\* An effective value differs from the documented one only where an API response was
\* seen that said so, of this release, scope and time (core/conformance.py:318).
THEOREM OverridesWarranted == MCSpec => []OverridesAreWarranted
<1>1. MCInit => FeedbackInv
  BY FeedbackStarts DEF MCInit
<1>2. FeedbackInv /\ [MCNext]_everything => FeedbackInv'
  <2> SUFFICES ASSUME [MCNext]_everything PROVE [Feedback!Next]_Feedback!vars
    BY FeedbackKeeps
  <2> QED
    BY DEF MCNext, everything, conformance, Feedback!vars
<1>3. FeedbackInv => OverridesAreWarranted
  BY FeedbackGives DEF OverridesAreWarranted
<1> QED
  BY <1>1, <1>2, <1>3, PTL DEF MCSpec, everything

-----------------------------------------------------------------------------
(* Grounding.  Proposals and claims are, until the decision, functions of  *)
(* the plan and the evidence, which no edit of a source changes any more.  *)

\* Cardinalities and finiteness are the same in either module.
LEMMA GroundingSize == \A S : /\ Strict!Cardinality(S) = Cardinality(S)
                              /\ Strict!IsFiniteSet(S) <=> IsFiniteSet(S)
BY DEF Strict!Cardinality, Cardinality, Strict!IsFiniteSet, IsFiniteSet

\* What the bridge has proposed, and the claims it was reconciled into.
Proposals == [e \in {x \in Entries : Strict!Stands(x)} |-> Strict!Proposed(e)]
Claimants(i) == {e \in DOMAIN supports : plan[e].identity = i}
Reconciled == [i \in {plan[e].identity : e \in DOMAIN supports} |-> Strict!Reconcile(Claimants(i))]

\* Entries that prove all of their paths and are not contradicted.
Full(group) ==
  {e \in group : /\ Strict!Required(e) # {} /\ Strict!Required(e) \subseteq Strict!Covered(e)
                 /\ ~Strict!Contradicted(e)}

\* Only fragments that were cut out are exact.
CutOut == \A f \in evidence : f.precision = "exact" => f.locator # Whole

\* What CandidateIsGrounded says of an entry of the plan.
ProvedEntry(e) ==
  /\ \A p \in Strict!Material(e) : Strict!ProvedBy(e, p) # {}
  /\ \A x \in Strict!Supported : plan[x].identity = plan[e].identity =>
       Strict!Material(x) = {} \/ Strict!Material(e) = {} \/ plan[x].value = plan[e].value
  /\ \A p \in Strict!Material(e) : \A r \in Strict!References(e) :
       r.path = p /\ r.locator \in Pointers \cup Cells /\ r.source \notin Supplementary =>
         \A f \in Strict!Referenced(r) : f.value = plan[e].value[p]
  /\ plan[e].value[RefPath] # None =>
       \E x \in Entries : /\ plan[x].identity = plan[e].value[RefPath]
                          /\ plan[x].status \in {"supported", "conflicting"}
                          /\ \A p \in Strict!Material(x) : Strict!ProvedBy(x, p) # {}

GroundingInv ==
  /\ plan \in Plans /\ CutOut
  /\ stage \in {"reconcile", "decide"} => supports = Proposals
  /\ stage = "decide" => claims = Reconciled
  /\ outcome = "candidate" => stage = "done"
  /\ Strict!CandidateIsGrounded

\* A support that the Core verifies proves its path from where the entry points.
LEMMA SupportsProve ==
  ASSUME CutOut, NEW e, NEW p, NEW s \in Strict!SupportsFor(e, p),
         Strict!Relationship(e, s) = "supports", s.fragment.source \notin Supplementary
  PROVE  s.path = p /\ s.fragment \in Strict!ProvedBy(e, p)
<1>1. s.fragment.precision = "exact"
  BY DEF Strict!Relationship
<1>2. CASE Strict!Direct(e, p) # {}
  <2>1. PICK r \in Strict!Direct(e, p) : \E f \in Strict!Referenced(r) : s = Strict!Support(f, p, TRUE)
    BY <1>2 DEF Strict!SupportsFor
  <2> PICK f \in Strict!Referenced(r) : s = Strict!Support(f, p, TRUE)
    BY <2>1
  <2>2. s.fragment = f /\ s.path = p /\ s.bound = TRUE
    BY <2>1 DEF Strict!Support
  <2>3. /\ f \in Strict!Exact /\ f.source = r.source /\ f.locator = r.locator /\ f.value = r.digest
        /\ r \in Strict!References(e) /\ r.path = p
    BY <2>1 DEF Strict!Referenced, Strict!Direct
  <2>4. Strict!ValueBearing(f) => f.value = plan[e].value[p]
    BY <1>1, <2>2 DEF Strict!Relationship
  <2> QED
    BY <2>2, <2>3, <2>4 DEF Strict!ProvedBy
<1>3. CASE Strict!Direct(e, p) = {}
  <2> DEFINE exact == UNION {Strict!Legacy(c, e, p) : c \in plan[e].cites}
             documentsOf == {f \in UNION {Strict!From(c.source) : c \in plan[e].cites} :
                               f.locator = Whole}
  <2>1. PICK f \in IF exact # {} THEN exact ELSE documentsOf : s = Strict!Support(f, p, FALSE)
    BY <1>3 DEF Strict!SupportsFor
  <2>2. s.fragment = f /\ s.path = p /\ s.bound = FALSE
    BY <2>1 DEF Strict!Support
  <2>3. f.value = plan[e].value[p]
    BY <1>1, <2>2 DEF Strict!Relationship
  <2>4. f \in exact
    <3> SUFFICES ASSUME f \in documentsOf PROVE FALSE
      BY <2>1
    <3> QED
      BY <1>1, <2>2 DEF CutOut, Strict!From
  <2>5. PICK c \in plan[e].cites : f \in Strict!Legacy(c, e, p)
    BY <2>4
  <2>6. f \in Strict!Exact /\ c.source = f.source /\ c.locator \in {None, f.locator}
    BY <2>5 DEF Strict!Legacy, Strict!From
  <2>7. ~(\E r \in Strict!References(e) : r.path = p)
    BY <1>3 DEF Strict!Direct
  <2> QED
    BY <2>2, <2>3, <2>6, <2>7 DEF Strict!ProvedBy
<1> QED
  BY <1>2, <1>3

\* An entry that proves its paths proves each of them where it points itself.
LEMMA CoveredIsProved ==
  ASSUME CutOut, supports = Proposals, NEW e \in DOMAIN supports, NEW p \in Strict!Covered(e)
  PROVE  /\ plan[e].status \in {"supported", "conflicting"}
         /\ Strict!ProvedBy(e, p) # {}
<1>1. PICK s \in supports[e] : s.path = p /\ Strict!Relationship(e, s) = "supports"
  BY DEF Strict!Covered
<1>2. s \in Strict!Candidate(e)
  BY DEF Proposals, Strict!Proposed
<1>3. /\ plan[e].status \in {"supported", "conflicting"}
      /\ s \in Strict!Downgrade(UNION {Strict!SupportsFor(e, q) : q \in Strict!Material(e)})
  BY <1>2 DEF Strict!Candidate
<1>4. s.fragment.source \notin Supplementary
  BY <1>3 DEF Strict!Downgrade
<1>5. PICK q \in Strict!Material(e) : s \in Strict!SupportsFor(e, q)
  BY <1>3 DEF Strict!Downgrade
<1> QED
  BY <1>1, <1>3, <1>4, <1>5, SupportsProve

\* A reference whose pointer or cell shows another value contradicts its entry.
LEMMA OtherValueContradicts ==
  ASSUME supports = Proposals, NEW e \in DOMAIN supports, plan[e].status = "supported",
         NEW p \in Strict!Material(e), NEW r \in Strict!References(e), r.path = p,
         r.locator \in Pointers \cup Cells, r.source \notin Supplementary,
         NEW f \in Strict!Referenced(r), f.value # plan[e].value[p]
  PROVE  Strict!Contradicted(e)
<1> DEFINE s == Strict!Support(f, p, TRUE)
<1>1. s.fragment = f /\ s.path = p /\ s.bound = TRUE
  BY DEF Strict!Support
<1>2. /\ f \in Strict!Exact /\ f.source = r.source /\ f.locator = r.locator
      /\ f.precision = "exact"
  BY DEF Strict!Referenced, Strict!Exact
<1>3. r \in Strict!Direct(e, p)
  BY DEF Strict!Direct
<1>4. s \in Strict!SupportsFor(e, p)
  BY <1>3 DEF Strict!SupportsFor
<1> HIDE DEF s
<1>5. s \in Strict!Candidate(e)
  BY <1>1, <1>2, <1>4 DEF Strict!Candidate, Strict!Downgrade
<1>6. supports[e] = Strict!Candidate(e)
  BY DEF Proposals, Strict!Proposed
<1>7. Strict!ValueBearing(f)
  BY <1>2 DEF Strict!ValueBearing
<1>8. Strict!Relationship(e, s) = "contradicts"
  BY <1>1, <1>2, <1>7 DEF Strict!Relationship
<1> QED
  BY <1>5, <1>6, <1>8 DEF Strict!Contradicted

\* A supported claim has an entry that proves it, none that is contradicted, and the
\* value that all of those entries state.
LEMMA SupportedIsFull ==
  ASSUME NEW group \in SUBSET Entries, Strict!Reconcile(group).status = "supported"
  PROVE  /\ Full(group) # {} /\ \A e \in group : ~Strict!Contradicted(e)
         /\ \A e \in Full(group) : Strict!Reconcile(group).value = Strict!Stated(e)
<1> DEFINE values == {Strict!Stated(e) : e \in Full(group)}
<1>1. /\ \A e \in group : ~Strict!Contradicted(e)
      /\ ~(Strict!Cardinality(values) > 1) /\ Full(group) # {}
      /\ Strict!Reconcile(group).value = CHOOSE v \in values : TRUE
  BY DEF Strict!Reconcile, Full
<1>2. IsFiniteSet(Full(group))
  <2>1. Full(group) \subseteq Entries
    BY DEF Full
  <2> QED
    BY <2>1, PlansAssumption, GroundingSize, FS_Subset DEF Strict!PlansStated
<1>3. IsFiniteSet(values)
  <2> DEFINE f == [e \in Full(group) |-> Strict!Stated(e)]
  <2>1. values = {f[e] : e \in Full(group)}
    OBVIOUS
  <2> HIDE DEF f, values
  <2> QED
    BY <1>2, <2>1, ImageFinite
<1>4. ~(Cardinality(values) > 1)
  BY <1>1, GroundingSize
<1>5. ASSUME NEW e \in Full(group)
      PROVE  Strict!Reconcile(group).value = Strict!Stated(e)
  <2>1. Strict!Stated(e) \in values
    OBVIOUS
  <2> HIDE DEF values
  <2>2. values = {Strict!Stated(e)}
    BY <1>3, <1>4, <2>1, OneElement
  <2> QED
    BY <1>1, <2>2
<1> QED
  BY <1>1, <1>5

\* The same of a claim in the contract.
LEMMA ContractIsFull ==
  ASSUME supports = Proposals, claims = Reconciled, NEW i \in Strict!Contract
  PROVE  /\ Full(Claimants(i)) # {}
         /\ \A e \in Claimants(i) : ~Strict!Contradicted(e)
         /\ \A e \in Full(Claimants(i)) : claims[i].value = Strict!Stated(e)
<1>1. claims[i] = Strict!Reconcile(Claimants(i)) /\ claims[i].status = "supported"
  BY DEF Strict!Contract, Reconciled
<1>2. Claimants(i) \in SUBSET Entries
  BY DEF Claimants, Proposals
<1> QED
  BY <1>1, <1>2, SupportedIsFull

\* What an entry with a value has to prove.
LEMMA RequiredIsMaterial ==
  ASSUME plan \in Plans, NEW e \in Entries
  PROVE  /\ plan[e].status # "missing" =>
              Strict!Stated(e) = plan[e].value /\ Strict!Required(e) = Strict!Material(e)
         /\ Strict!Required(e) \subseteq Strict!Material(e)
         /\ Strict!Stated(e) # None => plan[e].status # "missing"
BY PlansAssumption DEF Strict!PlansStated, Strict!Stated, Strict!Required

\* The decision that makes a candidate of the release.
LEMMA CandidateIsProved ==
  ASSUME plan \in Plans, CutOut, supports = Proposals, claims = Reconciled,
         \A e \in Strict!Supported : Strict!Grounded(e), Strict!RulesPass(TRUE)
  PROVE  \A e \in Strict!Supported : ProvedEntry(e)
<1>1. \A e \in Strict!Supported :
        /\ e \in Entries /\ e \in DOMAIN supports /\ plan[e].status = "supported"
        /\ Strict!Material(e) \subseteq Strict!Covered(e)
        /\ plan[e].identity \in Strict!Contract /\ e \in Claimants(plan[e].identity)
  BY DEF Strict!Supported, Strict!Grounded, Claimants
<1>2. \A e \in Strict!Supported : ~Strict!Contradicted(e)
  BY <1>1, ContractIsFull
<1>3. \A e \in Strict!Supported :
        Strict!Material(e) # {} => /\ e \in Full(Claimants(plan[e].identity))
                                   /\ claims[plan[e].identity].value = plan[e].value
  <2> SUFFICES ASSUME NEW e \in Strict!Supported, Strict!Material(e) # {}
               PROVE  /\ e \in Full(Claimants(plan[e].identity))
                      /\ claims[plan[e].identity].value = plan[e].value
    OBVIOUS
  <2>1. Strict!Stated(e) = plan[e].value /\ Strict!Required(e) = Strict!Material(e)
    BY <1>1, RequiredIsMaterial
  <2>2. e \in Full(Claimants(plan[e].identity))
    BY <1>1, <1>2, <2>1 DEF Full
  <2> QED
    BY <1>1, <2>1, <2>2, ContractIsFull
<1> SUFFICES ASSUME NEW e \in Strict!Supported PROVE ProvedEntry(e)
  OBVIOUS
<1>4. \A p \in Strict!Material(e) : Strict!ProvedBy(e, p) # {}
  BY <1>1, CoveredIsProved
<1>5. \A x \in Strict!Supported : plan[x].identity = plan[e].identity =>
        Strict!Material(x) = {} \/ Strict!Material(e) = {} \/ plan[x].value = plan[e].value
  BY <1>3
<1>6. ASSUME NEW p \in Strict!Material(e), NEW r \in Strict!References(e), r.path = p,
             r.locator \in Pointers \cup Cells, r.source \notin Supplementary,
             NEW f \in Strict!Referenced(r)
      PROVE  f.value = plan[e].value[p]
  BY <1>1, <1>2, <1>6, OtherValueContradicts
<1>7. ASSUME plan[e].value[RefPath] # None
      PROVE  \E x \in Entries : /\ plan[x].identity = plan[e].value[RefPath]
                                /\ plan[x].status \in {"supported", "conflicting"}
                                /\ \A p \in Strict!Material(x) : Strict!ProvedBy(x, p) # {}
  <2>1. RefPath \in Strict!Material(e)
    BY <1>7, PlansAssumption DEF Strict!Material, Strict!PlansStated
  <2>2. claims[plan[e].identity].value[RefPath] = plan[e].value[RefPath]
    BY <1>3, <2>1
  <2>3. plan[e].value[RefPath] \in Strict!Contract
    BY <1>1, <1>7, <2>2 DEF Strict!RulesPass
  <2>4. PICK x \in Full(Claimants(plan[e].value[RefPath])) : TRUE
    BY <2>3, ContractIsFull
  <2>5. /\ x \in Entries /\ x \in DOMAIN supports /\ plan[x].identity = plan[e].value[RefPath]
        /\ Strict!Required(x) # {} /\ Strict!Required(x) \subseteq Strict!Covered(x)
    BY <2>4 DEF Full, Claimants, Proposals
  <2>6. plan[x].status \in {"supported", "conflicting"}
    BY <2>5, CoveredIsProved
  <2>7. Strict!Required(x) = Strict!Material(x)
    BY <2>5, <2>6, RequiredIsMaterial
  <2>8. \A p \in Strict!Material(x) : Strict!ProvedBy(x, p) # {}
    BY <2>5, <2>7, CoveredIsProved
  <2> QED
    BY <2>5, <2>6, <2>8
<1> QED
  BY <1>4, <1>5, <1>6, <1>7 DEF ProvedEntry

\* Initially.
LEMMA GroundingStarts == Strict!Init => GroundingInv
BY DEF Strict!Init, GroundingInv, CutOut, Strict!CandidateIsGrounded

\* The whole document is never cut out.
LEMMA AcquireCutsOut == Strict!Acquire => CutOut'
<1> SUFFICES ASSUME Strict!Acquire, NEW f \in evidence', f.precision = "exact"
             PROVE  f.locator # Whole
  BY DEF CutOut
<1>1. Whole \notin Text \cup Pointers \cup Cells
  BY PlansAssumption DEF Strict!PlansStated
<1>2. CASE \E s \in DOMAIN documents : f \in Strict!Standing(s)
  BY <1>1, <1>2 DEF Strict!Standing
<1>3. CASE \E q \in Strict!Requests : f = Strict!Requested(q[1], q[2])
  BY <1>1, <1>3 DEF Strict!Requested
<1> QED
  BY <1>2, <1>3 DEF Strict!Acquire

\* What was proposed for a plan and a bundle of evidence, and reconciled, stays as they do.
LEMMA ProposalsStay == UNCHANGED <<plan, evidence>> => UNCHANGED Proposals
BY DEF Proposals, Strict!Stands, Strict!Rivals, Strict!Proposed, Strict!Candidate,
   Strict!Downgrade, Strict!SupportsFor, Strict!Material, Strict!Direct, Strict!References,
   Strict!Referenced, Strict!Exact, Strict!Legacy, Strict!From, Strict!Applicable, Strict!Support

\* So does what was reconciled of it.
LEMMA ReconciledStay == UNCHANGED <<plan, supports>> => UNCHANGED Reconciled
BY DEF Reconciled, Claimants, Strict!Reconcile, Strict!Required, Strict!Stated,
   Strict!Material, Strict!Covered, Strict!Contradicted, Strict!Relationship, Strict!ValueBearing

\* By each action.
LEMMA GroundingKeeps == GroundingInv /\ [Strict!Next]_Strict!vars => GroundingInv'
<1> SUFFICES ASSUME GroundingInv, [Strict!Next]_Strict!vars PROVE GroundingInv'
  OBVIOUS
<1>1. CASE Strict!Verify
  <2>1. /\ stage = "verify" /\ stage' \in {"acquire", "done"} /\ outcome # "candidate"
        /\ outcome' # "candidate" /\ UNCHANGED <<plan, evidence>>
    BY <1>1 DEF Strict!Verify, GroundingInv
  <2> QED
    BY <2>1 DEF GroundingInv, CutOut, Strict!CandidateIsGrounded
<1>2. CASE Strict!Edit
  <2>1. /\ stage \in {"verify", "acquire"} /\ outcome # "candidate"
        /\ UNCHANGED <<stage, outcome, plan, evidence>>
    BY <1>2 DEF Strict!Edit, GroundingInv
  <2> QED
    BY <2>1 DEF GroundingInv, CutOut, Strict!CandidateIsGrounded
<1>3. CASE Strict!Acquire
  <2>1. /\ stage = "acquire" /\ stage' = "propose" /\ outcome # "candidate"
        /\ UNCHANGED <<outcome, plan>>
    BY <1>3 DEF Strict!Acquire, GroundingInv
  <2> QED
    BY <1>3, <2>1, AcquireCutsOut DEF GroundingInv, Strict!CandidateIsGrounded
<1>4. CASE Strict!Propose
  <2>1. /\ stage = "propose" /\ stage' = "reconcile" /\ outcome # "candidate"
        /\ UNCHANGED <<outcome, plan, evidence>> /\ supports' = Proposals
    BY <1>4 DEF Strict!Propose, GroundingInv, Proposals
  <2>2. Proposals' = Proposals
    BY <2>1, ProposalsStay
  <2> QED
    BY <2>1, <2>2 DEF GroundingInv, CutOut, Strict!CandidateIsGrounded
<1>5. CASE Strict!Reconciliation
  <2>1. /\ stage = "reconcile" /\ stage' = "decide" /\ outcome # "candidate"
        /\ UNCHANGED <<outcome, plan, evidence, supports>> /\ supports = Proposals
        /\ claims' = Reconciled
    BY <1>5 DEF Strict!Reconciliation, GroundingInv, Reconciled, Claimants
  <2>2. Proposals' = Proposals
    BY <2>1, ProposalsStay
  <2>3. Reconciled' = Reconciled
    BY <2>1, ReconciledStay
  <2> QED
    BY <2>1, <2>2, <2>3 DEF GroundingInv, CutOut, Strict!CandidateIsGrounded
<1>6. CASE Strict!Decide
  <2>1. /\ stage = "decide" /\ stage' = "done"
        /\ UNCHANGED <<plan, documents, facts, evidence, supports, claims>>
        /\ plan \in Plans /\ CutOut /\ supports = Proposals /\ claims = Reconciled
    BY <1>6 DEF Strict!Decide, GroundingInv
  <2>2. ASSUME outcome' = "candidate"
        PROVE  (\A e \in Strict!Supported : Strict!Grounded(e)) /\ Strict!RulesPass(TRUE)
    BY <1>6, <2>2 DEF Strict!Decide, Strict!RulesPass
  <2>3. Strict!CandidateIsGrounded'
    BY <2>1, <2>2, CandidateIsProved DEF ProvedEntry, Strict!CandidateIsGrounded, Strict!Supported, Strict!Material,
       Strict!ProvedBy, Strict!Exact, Strict!References, Strict!ValueBearing, Strict!Referenced
  <2> QED
    BY <2>1, <2>3 DEF GroundingInv, CutOut
<1>7. CASE UNCHANGED Strict!vars
  <2>1. UNCHANGED <<stage, plan, documents, facts, evidence, supports, claims, outcome>>
    BY <1>7 DEF Strict!vars
  <2>2. UNCHANGED Proposals /\ UNCHANGED Reconciled
    BY <2>1, ProposalsStay, ReconciledStay
  <2>3. Strict!CandidateIsGrounded'
    BY <2>1 DEF GroundingInv, Strict!CandidateIsGrounded, Strict!Supported, Strict!Material,
       Strict!ProvedBy, Strict!Exact, Strict!References, Strict!ValueBearing, Strict!Referenced
  <2> QED
    BY <2>1, <2>2, <2>3 DEF GroundingInv, CutOut
<1> QED
  BY <1>1, <1>2, <1>3, <1>4, <1>5, <1>6, <1>7 DEF Strict!Next

\* A release that strict mode calls a candidate is proved entry by entry, from where each
\* entry points itself (agentcli/strict.py:147, shadow/bridge.py:337, :1673).
THEOREM CandidateGrounded == MCSpec => []CandidateIsGrounded
<1>1. MCInit /\ part = "strict" => GroundingInv
  BY GroundingStarts DEF MCInit
<1>2. GroundingInv /\ part = "strict" /\ [MCNext]_everything => (GroundingInv /\ part = "strict")'
  BY GroundingKeeps DEF MCNext, everything, grounding, Strict!vars
<1>3. ~(part = "strict") /\ [MCNext]_everything => (~(part = "strict"))'
  BY DEF MCNext, everything
<1>4. (GroundingInv => CandidateIsGrounded) /\ (~(part = "strict") => CandidateIsGrounded)
  BY DEF GroundingInv, CandidateIsGrounded
<1> QED
  BY <1>1, <1>2, <1>3, <1>4, PTL DEF MCSpec, everything

-----------------------------------------------------------------------------
(* BenchmarkAssurance.  The invariant says on which files a check passed,  *)
(* that the strict-local gate and the attestation have found or await      *)
(* every check of every case, and that a report repeats the outcomes.      *)

CheckNames == {"case", "contract", "parity", "other", "gate", "redaction", "derivation", "replay"}

\* What an outcome says of the files it is on.
Finding(o) ==
  /\ o.case \in Cases /\ o.check \in CheckNames /\ o.on \in Assurance!Directories
  /\ o.outcome \in {"passed", "failed", "skipped"}
  /\ o.check = "replay" => o.case \in Sanitized
  /\ o.outcome = "passed" => broken # o.check /\ Assurance!Backs(o.check, o.on)

\* A check of a case is found or it is still to be run.
Awaited(check, c) ==
  (\E o \in Assurance!Of(c) : o.check = check) \/ \E n \in DOMAIN checks : checks[n] = check

\* Every check of the list, of every case it covers.
Awaiting(list) ==
  \A i \in DOMAIN list : \A c \in Assurance!Covers(list[i]) : Awaited(list[i], c)

\* The checks of c were run.
Run(c) ==
  \A i \in DOMAIN Assurance!Checks :
    c \in Assurance!Covers(Assurance!Checks[i]) => \E o \in Assurance!Of(c) : o.check = Assurance!Checks[i]

\* What a report of c may say.
Earned(c) ==
  /\ report.cases[c].source_backed => Assurance!Passed(c, "case")
  /\ report.cases[c].parity = "source_backed_replay" => Assurance!Passed(c, "parity")
  /\ report.cases[c].parity = "sanitized_fixture_replay" => Assurance!Passed(c, "replay")
  /\ report.cases[c].conformant = "yes" => ~Assurance!Among(c, "failed")
  /\ report.cases[c].strict_local_passed =>
       Assurance!Passed(c, "case") /\ ~Assurance!Among(c, "failed") /\ ~Assurance!Among(c, "skipped")
  /\ report.exit_code = 0 => Run(c)

GatePhases == {"hygiene", "prerequisites", "lint", "suite", "harness", "smoke", "complete", "failed"}
AttestPhases == {"binding", "harness", "building", "json", "markdown", "complete", "failed"}

AssuranceInv ==
  /\ files \in [Cases -> Assurance!Directories] /\ checks \in Seq(CheckNames)
  /\ \A o \in outcomes : Finding(o)
  /\ phase \in IF command.tool = "gate" THEN GatePhases ELSE AttestPhases
  /\ command.tool # "gate" /\ phase \in {"harness", "building"} => Awaiting(Assurance!Checks)
  /\ command.tool = "gate" /\ command.mode = "strict-local" =>
       /\ phase \in {"harness", "smoke", "complete"} => Awaiting(Assurance!SourceChecks)
       /\ phase \in {"smoke", "complete"} => checks = <<>> /\ \A o \in outcomes : o.outcome = "passed"
  /\ report # None =>
       phase \in {"json", "markdown", "complete", "failed"} /\ \A c \in Cases : Earned(c)

\* The lists of checks.
LEMMA ChecksNamed ==
  /\ Assurance!SourceChecks \in Seq(CheckNames) /\ Assurance!SanitizedChecks \in Seq(CheckNames)
  /\ Assurance!Checks \in Seq(CheckNames) /\ <<>> \in Seq(CheckNames)
BY DEF Assurance!SourceChecks, Assurance!SanitizedChecks, Assurance!Checks, CheckNames

\* The checks after the first are those that remain.
LEMMA RestRemains ==
  ASSUME NEW s \in Seq(CheckNames), s # <<>>
  PROVE  /\ Head(s) \in CheckNames /\ Tail(s) \in Seq(CheckNames)
         /\ \A n \in DOMAIN s : s[n] = Head(s) \/ \E m \in DOMAIN Tail(s) : Tail(s)[m] = s[n]
<1>1. Head(s) \in CheckNames /\ Tail(s) \in Seq(CheckNames)
  OBVIOUS
<1>2. ASSUME NEW n \in DOMAIN s, n # 1
      PROVE  n - 1 \in DOMAIN Tail(s) /\ Tail(s)[n - 1] = s[n]
  BY <1>2
<1>3. Head(s) = s[1]
  OBVIOUS
<1>4. ASSUME NEW n \in DOMAIN s
      PROVE  s[n] = Head(s) \/ \E m \in DOMAIN Tail(s) : Tail(s)[m] = s[n]
  <2>1. CASE n = 1
    BY <1>3, <2>1
  <2>2. CASE n # 1
    BY <1>2, <2>2
  <2> QED
    BY <2>1, <2>2
<1> QED
  BY <1>1, <1>4

\* Checks are about required cases, a replay about one with a sanitized subset.
LEMMA CoveredCases ==
  \A check : Assurance!Covers(check) \subseteq Cases /\ (check = "replay" => Assurance!Covers(check) = Sanitized)
BY StartsAssumption DEF Assurance!Covers, Assurance!StartsStated

\* A run that was assembled once had sources its quality package is about.
LEMMA OnDirectories ==
  ASSUME AssuranceInv, NEW check, NEW c \in Cases
  PROVE  /\ Assurance!On(check, c) \in Assurance!Directories
         /\ \/ Assurance!On(check, c) = files[c]
            \/ check = "other" /\ Assurance!IsAboutSources(Assurance!On(check, c))
<1>1. files[c] \in Assurance!Directories
  BY DEF AssuranceInv
<1>2. CASE check = "other" /\ Assurance!Assembled(c) # {}
  <2> DEFINE f == CHOOSE x \in Assurance!Assembled(c) : TRUE
  <2>1. f \in Assurance!Assembled(c)
    BY <1>2
  <2>2. f \in Assurance!Directories /\ Assurance!IsAboutSources(f)
    BY <2>1 DEF Assurance!Assembled, Assurance!Of, AssuranceInv, Finding
  <2>3. Assurance!On(check, c) = [f EXCEPT !.contract = files[c].contract]
    BY <1>2 DEF Assurance!On
  <2> HIDE DEF f
  <2>4. files[c].contract \in Assurance!Values.contract
    BY <1>1 DEF Assurance!Directories
  <2>5. Assurance!On(check, c) \in Assurance!Directories
    BY <2>2, <2>3, <2>4 DEF Assurance!Directories
  <2>6. /\ Assurance!On(check, c).sources = f.sources
        /\ Assurance!On(check, c).quality = f.quality
    BY <2>2, <2>3 DEF Assurance!Directories
  <2> QED
    BY <1>2, <2>2, <2>5, <2>6 DEF Assurance!IsAboutSources, Assurance!HasFile
<1>3. CASE ~(check = "other" /\ Assurance!Assembled(c) # {})
  BY <1>1, <1>3 DEF Assurance!On
<1> QED
  BY <1>2, <1>3

\* A check that passes had what it is about, and a revision that obeys it.
LEMMA PassingIsBacked ==
  ASSUME AssuranceInv, NEW check \in CheckNames, NEW c \in Assurance!Covers(check),
         NEW outcome_of \in Assurance!Outcomes(check, c)
  PROVE  Finding([case |-> c, check |-> check, outcome |-> outcome_of, on |-> Assurance!On(check, c)])
<1> DEFINE f == Assurance!On(check, c)
<1>1. c \in Cases /\ (check = "replay" => c \in Sanitized)
  BY CoveredCases
<1>2. /\ f \in Assurance!Directories
      /\ f = files[c] \/ (check = "other" /\ Assurance!IsAboutSources(f))
  BY <1>1, OnDirectories
<1>3. outcome_of \in {"passed", "failed", "skipped"}
  BY DEF Assurance!Outcomes
<1>4. ASSUME outcome_of = "passed"
      PROVE  broken # check /\ Assurance!Backs(check, f)
  <2>1. ~Assurance!Skips(check, files[c]) /\ ~Assurance!Fails(check, f)
    BY <1>4 DEF Assurance!Outcomes
  <2>2. /\ f.sources \in {"none", "folder", "recorded", "edited"} /\ f.contract \in {"sound", "unusable"}
        /\ f.original \in {"none", "recorded", "edited"}
    BY <1>2 DEF Assurance!Directories, Assurance!Values
  <2>3. check \in {"gate", "redaction"} => f.quality # "none" /\ f.sources # "none"
    BY <1>2, <2>1 DEF Assurance!Skips, Assurance!HasSources
  <2>4. check = "derivation" => f.original # "none" \/ f.sources = "edited"
    BY <1>2, <2>1 DEF Assurance!Skips
  <2> HIDE DEF f
  <2> QED
    BY <2>1, <2>2, <2>3, <2>4 DEF Assurance!Fails, Assurance!Backs, Assurance!HasFile
<1> HIDE DEF f
<1> QED
  BY <1>1, <1>2, <1>3, <1>4 DEF Finding, f

\* Initially.
LEMMA AssuranceStarts == Assurance!Init => AssuranceInv
<1> SUFFICES ASSUME Assurance!Init PROVE AssuranceInv
  OBVIOUS
<1>1. files \in [Cases -> Assurance!Directories]
  BY StartsAssumption DEF Assurance!Init, Assurance!StartsStated
<1>2. checks \in Seq(CheckNames)
  BY ChecksNamed DEF Assurance!Init
<1> QED
  BY <1>1, <1>2 DEF Assurance!Init, AssuranceInv, GatePhases, AttestPhases

\* A check adds what it found and is not awaited any more.
LEMMA RunCheckKeeps == AssuranceInv /\ Assurance!RunCheck => AssuranceInv'
<1> SUFFICES ASSUME AssuranceInv, Assurance!RunCheck PROVE AssuranceInv'
  OBVIOUS
<1>1. /\ phase = "harness" /\ checks # <<>> /\ checks \in Seq(CheckNames) /\ checks' = Tail(checks)
      /\ UNCHANGED <<command, broken, files, edits, phase, binding, report, written>>
  BY DEF Assurance!RunCheck, Assurance!Unfinished, AssuranceInv
<1> DEFINE check_run == Head(checks)
           result(f, c) == [case |-> c, check |-> check_run, outcome |-> f[c],
                            on |-> Assurance!On(check_run, c)]
<1>2. PICK f : /\ \A c \in Assurance!Covers(check_run) : f[c] \in Assurance!Outcomes(check_run, c)
               /\ outcomes' = outcomes \cup {result(f, c) : c \in Assurance!Covers(check_run)}
  BY DEF Assurance!RunCheck, Assurance!Found
<1>3. check_run \in CheckNames /\ checks' \in Seq(CheckNames)
  BY <1>1, RestRemains
<1>4. \A o \in outcomes' : Finding(o)
  <2>1. \A c \in Assurance!Covers(check_run) : Finding(result(f, c))
    BY <1>2, <1>3, PassingIsBacked
  <2> HIDE DEF check_run, result
  <2> QED
    BY <1>2, <2>1 DEF AssuranceInv
<1>5. ASSUME NEW check, NEW c \in Assurance!Covers(check), Awaited(check, c)
      PROVE  Awaited(check, c)'
  <2>1. CASE \E o \in Assurance!Of(c) : o.check = check
    BY <1>2, <2>1 DEF Awaited, Assurance!Of
  <2>2. CASE \E n \in DOMAIN checks : checks[n] = check
    <3>1. CASE check = check_run
      <4>1. result(f, c) \in outcomes'
        BY <1>2, <3>1
      <4>2. result(f, c).case = c /\ result(f, c).check = check
        BY <3>1
      <4> HIDE DEF result
      <4> QED
        BY <4>1, <4>2 DEF Awaited, Assurance!Of
    <3>2. CASE check # check_run
      BY <1>1, <2>2, <3>2, RestRemains DEF Awaited
    <3> QED
      BY <3>1, <3>2
  <2> QED
    BY <1>5, <2>1, <2>2 DEF Awaited
<1>6. report' = None
  BY <1>1 DEF AssuranceInv
<1>7. (\A o \in outcomes : Finding(o))'
  BY <1>1, <1>4 DEF Finding
<1>8. ASSUME NEW list, Awaiting(list)
      PROVE  Awaiting(list)'
  BY <1>5, <1>8 DEF Awaiting, Assurance!Covers
<1> QED
  BY <1>1, <1>3, <1>6, <1>7, <1>8 DEF AssuranceInv, Assurance!SourceChecks, Assurance!Checks

\* The gate awaits every check before it runs the first.
LEMMA SuiteKeeps == AssuranceInv /\ Assurance!Suite => AssuranceInv'
<1> SUFFICES ASSUME AssuranceInv, Assurance!Suite PROVE AssuranceInv'
  OBVIOUS
<1>1. /\ phase = "suite" /\ phase' \in {"failed", "harness"} /\ report = None
      /\ UNCHANGED <<command, broken, files, edits, outcomes, report>>
      /\ checks' \in {checks, Assurance!SourceChecks, Assurance!SanitizedChecks, <<>>}
      /\ phase' = "harness" /\ command.mode = "strict-local" => checks' = Assurance!SourceChecks
  BY DEF Assurance!Suite, Assurance!Fail, Assurance!Unfinished, AssuranceInv
<1>2. checks' \in Seq(CheckNames) /\ command.tool = "gate"
  BY <1>1, ChecksNamed DEF AssuranceInv, AttestPhases
<1>3. phase' = "harness" /\ command.mode = "strict-local" => Awaiting(Assurance!SourceChecks)'
  BY <1>1 DEF Awaited, Awaiting
<1> QED
  BY <1>1, <1>2, <1>3 DEF AssuranceInv, GatePhases, Finding

\* The gate goes on when nothing it ran failed or, in strict-local mode, was skipped.
LEMMA JudgeKeeps == AssuranceInv /\ Assurance!Judge => AssuranceInv'
<1> SUFFICES ASSUME AssuranceInv, Assurance!Judge PROVE AssuranceInv'
  OBVIOUS
<1>1. /\ phase = "harness" /\ phase' \in {"failed", "smoke"} /\ report = None /\ checks = <<>>
      /\ command.tool = "gate"
      /\ UNCHANGED <<command, broken, files, edits, outcomes, checks, report>>
      /\ phase' = "smoke" /\ command.mode = "strict-local" =>
           \A o \in outcomes : o.outcome # "failed" /\ o.outcome # "skipped"
  BY DEF Assurance!Judge, Assurance!HasSkips, Assurance!Fail, Assurance!Unfinished, AssuranceInv
<1>2. phase' = "smoke" /\ command.mode = "strict-local" => \A o \in outcomes : o.outcome = "passed"
  BY <1>1 DEF AssuranceInv, Finding
<1> QED
  BY <1>1, <1>2 DEF AssuranceInv, GatePhases, Finding, Awaited, Awaiting, Assurance!Of

\* The report says what the outcomes say.
LEMMA BuildKeeps == AssuranceInv /\ Assurance!Build => AssuranceInv'
<1> SUFFICES ASSUME AssuranceInv, Assurance!Build PROVE AssuranceInv'
  OBVIOUS
<1>1. /\ phase = "building" /\ phase' \in {"failed", "json"} /\ report = None
      /\ UNCHANGED <<command, broken, files, edits, outcomes, checks>>
      /\ report' # None =>
           /\ phase' = "json"
           /\ report' = [exit_code |-> Assurance!ExitCode, cases |-> [c \in Cases |-> Assurance!Case(c)]]
      /\ command.tool # "gate" /\ Awaiting(Assurance!Checks)
  <2>1. command.tool # "gate"
    BY DEF Assurance!Build, AssuranceInv, GatePhases
  <2> QED
    BY <2>1 DEF Assurance!Build, Assurance!Fail, Assurance!Unfinished, AssuranceInv
<1>2. ASSUME report' # None, NEW c \in Cases
      PROVE  Earned(c)'
  <2>1. /\ report'.cases[c] = Assurance!Case(c) /\ report'.exit_code = Assurance!ExitCode
        /\ \A check : Assurance!Passed(c, check)' <=> Assurance!Passed(c, check)
        /\ \A outcome_of : Assurance!Among(c, outcome_of)' <=> Assurance!Among(c, outcome_of)
        /\ Run(c)' <=> Run(c)
    BY <1>1, <1>2 DEF Assurance!Passed, Assurance!Among, Assurance!Of, Run, Assurance!Checks,
                      Assurance!Covers
  <2>2. /\ report'.cases[c].source_backed => Assurance!Passed(c, "case")
        /\ report'.cases[c].parity = Assurance!Parity(c)
        /\ report'.cases[c].conformant = Assurance!Conformance(c)
        /\ report'.cases[c].strict_local_passed => Assurance!StrictLocalPassed(c)
    BY <2>1 DEF Assurance!Case
  <2>3. /\ Assurance!Parity(c) = "source_backed_replay" => Assurance!Passed(c, "parity")
        /\ Assurance!Parity(c) = "sanitized_fixture_replay" => Assurance!Passed(c, "replay")
        /\ Assurance!Conformance(c) = "yes" => ~Assurance!Among(c, "failed")
        /\ Assurance!StrictLocalPassed(c) =>
             Assurance!Passed(c, "case") /\ ~Assurance!Among(c, "failed") /\ ~Assurance!Among(c, "skipped")
    BY DEF Assurance!Parity, Assurance!Conformance, Assurance!StrictLocalPassed
  <2>4. Assurance!ExitCode = 0 => Run(c)
    <3> SUFFICES ASSUME checks = <<>> PROVE Run(c)
      BY DEF Assurance!ExitCode
    <3> QED
      BY <1>1 DEF Awaiting, Awaited, Run
  <2> QED
    BY <2>1, <2>2, <2>3, <2>4 DEF Earned
<1> QED
  BY <1>1, <1>2 DEF AssuranceInv, Finding, AttestPhases

\* An edit leaves a directory of the same shape.
LEMMA EditKeeps == AssuranceInv /\ Assurance!Edit => AssuranceInv'
<1> SUFFICES ASSUME AssuranceInv, Assurance!Edit PROVE AssuranceInv'
  OBVIOUS
<1>1. PICK c \in Cases : \E a \in Assurance!Kept(c) : \E v \in Assurance!Values[a] \ {files[c][a]} :
        files' = [files EXCEPT ![c][a] = v]
  BY DEF Assurance!Edit
<1> PICK a \in Assurance!Kept(c) : \E v \in Assurance!Values[a] \ {files[c][a]} :
        files' = [files EXCEPT ![c][a] = v]
  BY <1>1
<1>2. PICK v \in Assurance!Values[a] : files' = [files EXCEPT ![c][a] = v]
  OBVIOUS
<1>3. a \in {"sources", "quality", "contract", "original", "subset"}
  BY <1>2 DEF Assurance!Kept
<1>4. files[c] \in Assurance!Directories
  BY DEF AssuranceInv
<1>5. [files[c] EXCEPT ![a] = v] \in Assurance!Directories
  BY <1>2, <1>3, <1>4 DEF Assurance!Directories, Assurance!Values
<1>6. files' \in [Cases -> Assurance!Directories]
  BY <1>2, <1>5 DEF AssuranceInv
<1>7. UNCHANGED <<command, broken, phase, checks, outcomes, binding, report, written>>
  BY DEF Assurance!Edit
<1> QED
  BY <1>6, <1>7 DEF AssuranceInv, Finding, Awaited, Awaiting, Earned, Run, Assurance!Of, Assurance!Passed,
                    Assurance!Among

\* By each action.
LEMMA AssuranceKeeps == AssuranceInv /\ [Assurance!Next]_Assurance!vars => AssuranceInv'
<1> SUFFICES ASSUME AssuranceInv, [Assurance!Next]_Assurance!vars PROVE AssuranceInv'
  OBVIOUS
<1>1. ASSUME UNCHANGED <<command, broken, files, checks, outcomes, report>>,
             \/ phase' \in {phase, "failed"}
             \/ phase = "hygiene" /\ phase' \in {"prerequisites", "lint"}
             \/ phase = "prerequisites" /\ phase' = "lint"
             \/ phase = "lint" /\ phase' = "suite"
             \/ phase = "smoke" /\ phase' = "complete"
             \/ phase = "harness" /\ phase' = "building" /\ command.tool # "gate"
             \/ phase = "json" /\ phase' = "markdown"
             \/ phase = "markdown" /\ phase' = "complete"
      PROVE  AssuranceInv'
  <2>1. /\ \A list : Awaiting(list)' <=> Awaiting(list)
        /\ \A c : Earned(c)' <=> Earned(c)
        /\ \A o : Finding(o)' <=> Finding(o)
    BY <1>1 DEF Finding, Awaited, Awaiting, Earned, Run, Assurance!Of, Assurance!Passed, Assurance!Among
  <2> QED
    BY <1>1, <2>1 DEF AssuranceInv, GatePhases, AttestPhases
<1>2. CASE Assurance!Hygiene
  BY <1>1, <1>2 DEF Assurance!Hygiene, Assurance!Fail, Assurance!Unfinished
<1>3. CASE Assurance!Prerequisites
  BY <1>1, <1>3 DEF Assurance!Prerequisites, Assurance!Fail, Assurance!Unfinished
<1>4. CASE Assurance!Lint
  BY <1>1, <1>4 DEF Assurance!Lint, Assurance!Fail, Assurance!Unfinished
<1>5. CASE Assurance!Suite
  BY <1>5, SuiteKeeps
<1>6. CASE Assurance!Judge
  BY <1>6, JudgeKeeps
<1>7. CASE Assurance!Smoke
  BY <1>1, <1>7 DEF Assurance!Smoke, Assurance!Fail, Assurance!Unfinished
<1>8. CASE Assurance!Bind
  <2>1. /\ phase = "binding" /\ phase' = "harness" /\ checks' = Assurance!Checks
        /\ UNCHANGED <<command, broken, files, outcomes, report>>
    BY <1>8 DEF Assurance!Bind, Assurance!Unfinished
  <2>2. command.tool # "gate" /\ report = None
    BY <2>1 DEF AssuranceInv, GatePhases
  <2>3. Awaiting(Assurance!Checks)'
    BY <2>1 DEF Awaiting, Awaited
  <2> QED
    BY <2>1, <2>2, <2>3, ChecksNamed DEF AssuranceInv, Finding, AttestPhases
<1>9. CASE Assurance!Collect
  BY <1>1, <1>9 DEF Assurance!Collect, Assurance!Unfinished
<1>10. CASE Assurance!Build
  BY <1>10, BuildKeeps
<1>11. CASE Assurance!Write("json", "markdown")
  BY <1>1, <1>11 DEF Assurance!Write, Assurance!Fail, Assurance!Unfinished
<1>12. CASE Assurance!Write("markdown", "complete")
  BY <1>1, <1>12 DEF Assurance!Write, Assurance!Fail, Assurance!Unfinished
<1>13. CASE Assurance!RunCheck
  BY <1>13, RunCheckKeeps
<1>14. CASE Assurance!Interrupt
  BY <1>1, <1>14 DEF Assurance!Interrupt, Assurance!Unfinished
<1>15. CASE Assurance!Edit
  BY <1>15, EditKeeps
<1>16. CASE UNCHANGED Assurance!vars
  BY <1>1, <1>16 DEF Assurance!vars
<1> QED
  BY <1>2, <1>3, <1>4, <1>5, <1>6, <1>7, <1>8, <1>9, <1>10, <1>11, <1>12, <1>13, <1>14, <1>15,
     <1>16 DEF Assurance!Next

\* A check of c that passed established something of it.
LEMMA PassedEstablishes ==
  ASSUME AssuranceInv, NEW c, NEW o \in Assurance!Of(c), o.outcome = "passed"
  PROVE  Assurance!Established(c, o.check)
BY DEF AssuranceInv, Finding, Assurance!Of, Assurance!Established

\* An outcome that passed establishes what the report and the gate say.
LEMMA AssuranceGives == AssuranceInv => Assurance!AssuranceIsEarned
<1> SUFFICES ASSUME AssuranceInv PROVE Assurance!AssuranceIsEarned
  OBVIOUS
<1>1. \A c, check : Assurance!Passed(c, check) => Assurance!Established(c, check)
  BY PassedEstablishes DEF Assurance!Passed
<1>2. \A c : ~Assurance!Among(c, "failed") =>
        \A o \in Assurance!Of(c) : o.outcome # "skipped" => Assurance!Established(c, o.check)
  BY PassedEstablishes DEF Assurance!Among, Assurance!Of, AssuranceInv, Finding
<1>3. \A c : ~Assurance!Among(c, "failed") /\ ~Assurance!Among(c, "skipped") =>
        \A o \in Assurance!Of(c) : Assurance!Established(c, o.check)
  BY <1>2 DEF Assurance!Among
<1>4. \A c : Assurance!Passed(c, "replay") => c \in Sanitized
  BY DEF Assurance!Passed, Assurance!Of, AssuranceInv, Finding
<1>5. ASSUME report # None, NEW c \in Cases
      PROVE  LET stated == report.cases[c] IN
             /\ stated.source_backed => Assurance!Established(c, "case")
             /\ stated.parity = "source_backed_replay" => Assurance!Established(c, "parity")
             /\ stated.parity = "sanitized_fixture_replay" =>
                  c \in Sanitized /\ Assurance!Established(c, "replay")
             /\ stated.conformant = "yes" =>
                  \A o \in Assurance!Of(c) : o.outcome # "skipped" => Assurance!Established(c, o.check)
             /\ stated.strict_local_passed =>
                  /\ Assurance!Established(c, "case")
                  /\ \A o \in Assurance!Of(c) : Assurance!Established(c, o.check)
                  /\ report.exit_code = 0 => Assurance!FullyEstablished(c, Assurance!Checks)
  <2>1. Earned(c)
    BY <1>5 DEF AssuranceInv
  <2>2. report.cases[c].strict_local_passed /\ report.exit_code = 0 =>
          Assurance!FullyEstablished(c, Assurance!Checks)
    <3> SUFFICES ASSUME Run(c), \A o \in Assurance!Of(c) : Assurance!Established(c, o.check)
                 PROVE  Assurance!FullyEstablished(c, Assurance!Checks)
      BY <1>3, <2>1 DEF Earned
    <3> QED
      BY DEF Run, Assurance!FullyEstablished
  <2> QED
    BY <1>1, <1>2, <1>3, <1>4, <2>1, <2>2 DEF Earned
<1>6. ASSUME phase = "complete", command.tool = "gate", command.mode = "strict-local", NEW c \in Cases
      PROVE  Assurance!FullyEstablished(c, Assurance!SourceChecks)
  <2>1. /\ Awaiting(Assurance!SourceChecks) /\ checks = <<>>
        /\ \A o \in outcomes : o.outcome = "passed"
    BY <1>6 DEF AssuranceInv
  <2>2. ASSUME NEW i \in DOMAIN Assurance!SourceChecks, c \in Assurance!Covers(Assurance!SourceChecks[i])
        PROVE  Assurance!Established(c, Assurance!SourceChecks[i])
    <3>1. PICK o \in Assurance!Of(c) : o.check = Assurance!SourceChecks[i]
      BY <2>1, <2>2 DEF Awaited, Awaiting
    <3> QED
      BY <2>1, <3>1, PassedEstablishes DEF Assurance!Of
  <2> QED
    BY <2>2 DEF Assurance!FullyEstablished
<1> QED
  BY <1>5, <1>6 DEF Assurance!AssuranceIsEarned

\* Neither script states an assurance that no check earned on what it needs
\* (quality_gate.py:1074, benchmark_attestation.py:420).
THEOREM AssuranceEarned == MCSpec => []AssuranceIsEarned
<1>1. MCInit /\ part = "benchmarks" => AssuranceInv
  BY AssuranceStarts DEF MCInit
<1>2. AssuranceInv /\ part = "benchmarks" /\ [MCNext]_everything =>
        (AssuranceInv /\ part = "benchmarks")'
  BY AssuranceKeeps DEF MCNext, everything, benchmarks, Assurance!vars
<1>3. ~(part = "benchmarks") /\ [MCNext]_everything => (~(part = "benchmarks"))'
  BY DEF MCNext, everything
<1>4. (AssuranceInv => AssuranceIsEarned) /\ (~(part = "benchmarks") => AssuranceIsEarned)
  BY AssuranceGives DEF AssuranceIsEarned
<1> QED
  BY <1>1, <1>2, <1>3, <1>4, PTL DEF MCSpec, everything

-----------------------------------------------------------------------------
(* Derivation.  Whatever proposal of all the references the Core accepts:  *)
(* the first grouping that finds any has one member, and it is that one.   *)

\* The library's operators in an instance are those of the library.
LEMMA DerivationSize == \A S : Api!Cardinality(S) = Cardinality(S)
BY DEF Api!Cardinality, Cardinality, Api!IsFiniteSet, IsFiniteSet

\* What the bridge starts from and does not change.
Referenced ==
  /\ sources \in ApiDocuments /\ claim \in ApiClaims /\ cited \in ApiCitations
  /\ \A f \in cited : Api!In(f, f.at)

DerivationInv ==
  /\ Referenced
  /\ step \in {"cited", "bridged", "raised", "adapted"}
  /\ Api!BridgeFindsDerivation

\* A reference's pointer is a sequence of names.
LEMMA PointersAreNames ==
  ASSUME Referenced, NEW f \in cited
  PROVE  /\ f.at \in Seq(STRING)
         /\ \A i \in 1..Len(f.at) : f.at[i] # "[]" /\ f.at[i] # None
         /\ \A to : Api!In(f, to) => /\ to \in Seq(STRING)
                                     /\ \A i \in 1..Len(to) : to[i] # "[]"
<1>1. f.artifact \in DOMAIN sources
  BY ClaimsAssumption DEF Referenced, Api!CitationsStated
<1>2. \A to \in DOMAIN sources[f.artifact] :
         to \in Seq(STRING) /\ \A i \in DOMAIN to : to[i] # "[]" /\ to[i] # None
  BY <1>1, ClaimsAssumption DEF Referenced, Api!DocumentsStated
<1>3. f.at \in DOMAIN sources[f.artifact]
  BY DEF Referenced, Api!In
<1>4. \A to : to \in Seq(STRING) => DOMAIN to = 1..Len(to)
  OBVIOUS
<1> QED
  BY <1>2, <1>3, <1>4 DEF Api!In

\* What the groupings are made of, and what they are for.
LEMMA GroupingShapes ==
  /\ \A x \in Api!TwoHopGroups :
       /\ x[1] \in cited /\ x[2] \in cited /\ x[3] \in cited /\ x[2] # x[3]
       /\ x = <<x[1], x[2], x[3]>>
       /\ Len(x[1].at) \in {2, 4} /\ Len(x[2].at) = 6 /\ Len(x[3].at) = 6
       /\ claim.path[1] = "fields"
  /\ \A x \in Api!SchemaRefRequiredGroups :
       /\ x[1] \in cited /\ x[2] \in cited /\ x = <<x[1], x[2]>>
       /\ Len(x[1].at) = 2 /\ Len(x[2].at) \in {5, 6}
       /\ claim.path[1] = "fields" /\ claim.path[3] = "required"
  /\ \A x \in Api!SchemaRefPropertyGroups :
       /\ x[1] \in cited /\ x[2] \in cited /\ x = <<x[1], x[2]>>
       /\ Len(x[1].at) = 4 /\ Len(x[2].at) \in {5, 6}
       /\ claim.path[1] = "fields" /\ claim.path[3] \in {"name", "type"}
  /\ \A x \in Api!BodyRefPropertyGroups :
       /\ x[1] \in cited /\ x[2] \in cited /\ x = <<x[1], x[2]>>
       /\ Len(x[1].at) = 4 /\ Len(x[2].at) = 6
       /\ claim.path[1] = "parameters" /\ claim.path[3] = "name"
  /\ \A x \in Api!BodyRefRequiredGroups :
       /\ x[1] \in cited /\ x[2] \in cited /\ x = <<x[1], x[2]>>
       /\ Len(x[1].at) = 2 /\ Len(x[2].at) = 6
       /\ claim.path[1] = "parameters" /\ claim.path[3] = "required"
  /\ \A x \in Api!DocumentSecurityGroups :
       /\ x[1] \in cited /\ x[2] \in cited /\ x = <<x[1], x[2]>>
       /\ Len(x[1].at) = 2 /\ Len(x[2].at) = 3
       /\ claim.path[1] = "security"
<1> USE DEF Api!IsMember, Api!IsSchema, Api!IsProperty, Api!Hop, Api!ItemHop, Api!DirectHop, Api!IsOperation,
            Api!AsksField
<1>1. \A x \in Api!TwoHopGroups :
       /\ x[1] \in cited /\ x[2] \in cited /\ x[3] \in cited /\ x[2] # x[3]
       /\ x = <<x[1], x[2], x[3]>>
       /\ Len(x[1].at) \in {2, 4} /\ Len(x[2].at) = 6 /\ Len(x[3].at) = 6
       /\ claim.path[1] = "fields"
  BY DEF Api!TwoHopGroups
<1>2. \A x \in Api!SchemaRefRequiredGroups :
       /\ x[1] \in cited /\ x[2] \in cited /\ x = <<x[1], x[2]>>
       /\ Len(x[1].at) = 2 /\ Len(x[2].at) \in {5, 6}
       /\ claim.path[1] = "fields" /\ claim.path[3] = "required"
  BY DEF Api!SchemaRefRequiredGroups
<1>3. \A x \in Api!SchemaRefPropertyGroups :
       /\ x[1] \in cited /\ x[2] \in cited /\ x = <<x[1], x[2]>>
       /\ Len(x[1].at) = 4 /\ Len(x[2].at) \in {5, 6}
       /\ claim.path[1] = "fields" /\ claim.path[3] \in {"name", "type"}
  BY DEF Api!SchemaRefPropertyGroups
<1>4. \A x \in Api!BodyRefPropertyGroups :
       /\ x[1] \in cited /\ x[2] \in cited /\ x = <<x[1], x[2]>>
       /\ Len(x[1].at) = 4 /\ Len(x[2].at) = 6
       /\ claim.path[1] = "parameters" /\ claim.path[3] = "name"
  BY DEF Api!BodyRefPropertyGroups
<1>5. \A x \in Api!BodyRefRequiredGroups :
       /\ x[1] \in cited /\ x[2] \in cited /\ x = <<x[1], x[2]>>
       /\ Len(x[1].at) = 2 /\ Len(x[2].at) = 6
       /\ claim.path[1] = "parameters" /\ claim.path[3] = "required"
  BY DEF Api!BodyRefRequiredGroups
<1>6. \A x \in Api!DocumentSecurityGroups :
       /\ x[1] \in cited /\ x[2] \in cited /\ x = <<x[1], x[2]>>
       /\ Len(x[1].at) = 2 /\ Len(x[2].at) = 3
       /\ claim.path[1] = "security"
  BY DEF Api!DocumentSecurityGroups
<1> QED
  BY <1>1, <1>2, <1>3, <1>4, <1>5, <1>6

\* The bridge proposes what the first grouping that finds any references finds.
LEMMA FirstGrouping ==
  ASSUME NEW i \in 1..6, Api!Groupings[i].groups # {},
         \A j \in 1..6 : j < i => Api!Groupings[j].groups = {}
  PROVE  Api!Proposed = {{Api!Proposal(Api!Groupings[i].derivation, x)} : x \in Api!Groupings[i].groups}
<1> DEFINE finding == {j \in DOMAIN Api!Groupings : Api!Groupings[j].groups # {}}
<1>1. DOMAIN Api!Groupings = 1..6
  BY DEF Api!Groupings
<1>2. i \in finding /\ \A j \in finding : i =< j
  BY <1>1
<1>3. finding \subseteq Nat
  BY <1>1
<1>4. Api!Min(finding) = i
  <2>1. \A j \in finding : (\A k \in finding : j =< k) => j = i
    BY <1>2, <1>3
  <2> QED
    BY <1>2, <2>1 DEF Api!Min
<1> QED
  BY <1>2, <1>4 DEF Api!Proposed

\* Where none finds any, each reference is proposed alone.
LEMMA NoGrouping ==
  ASSUME \A j \in 1..6 : Api!Groupings[j].groups = {}
  PROVE  Api!Proposed = Api!Alone
<1>1. DOMAIN Api!Groupings = 1..6
  BY DEF Api!Groupings
<1>2. {j \in DOMAIN Api!Groupings : Api!Groupings[j].groups # {}} = {}
  BY <1>1
<1> QED
  BY <1>2 DEF Api!Proposed

\* Each grouping and the derivation it proposes.
LEMMA GroupingsListed ==
  /\ Api!Groupings[1] = [derivation |-> "two_hop", groups |-> Api!TwoHopGroups]
  /\ Api!Groupings[2] = [derivation |-> "schema_ref_required", groups |-> Api!SchemaRefRequiredGroups]
  /\ Api!Groupings[3] = [derivation |-> "schema_ref_property", groups |-> Api!SchemaRefPropertyGroups]
  /\ Api!Groupings[4] = [derivation |-> "body_ref_property", groups |-> Api!BodyRefPropertyGroups]
  /\ Api!Groupings[5] = [derivation |-> "body_ref_required", groups |-> Api!BodyRefRequiredGroups]
  /\ Api!Groupings[6] = [derivation |-> "document_security", groups |-> Api!DocumentSecurityGroups]
BY DEF Api!Groupings

\* One reference is never grouped; two are not linked twice.
LEMMA OneReference ==
  ASSUME NEW f, cited = {f}
  PROVE  Api!Proposed = Api!Alone
<1>1. /\ Api!TwoHopGroups = {} /\ Api!SchemaRefRequiredGroups = {} /\ Api!SchemaRefPropertyGroups = {}
      /\ Api!BodyRefPropertyGroups = {} /\ Api!BodyRefRequiredGroups = {}
      /\ Api!DocumentSecurityGroups = {}
  BY GroupingShapes
<1>2. \A j \in 1..6 : j = 1 \/ j = 2 \/ j = 3 \/ j = 4 \/ j = 5 \/ j = 6
  OBVIOUS
<1>3. \A j \in 1..6 : Api!Groupings[j].groups = {}
  BY <1>1, <1>2, GroupingsListed
<1> QED
  BY <1>3, NoGrouping

\* Two references are too few for two hops.
LEMMA TwoReferences ==
  ASSUME NEW f, NEW g, cited = {f, g}
  PROVE  Api!TwoHopGroups = {}
<1> SUFFICES ASSUME NEW x \in Api!TwoHopGroups PROVE FALSE
  OBVIOUS
<1>1. /\ x[1] \in cited /\ x[2] \in cited /\ x[3] \in cited /\ x[2] # x[3]
      /\ Len(x[1].at) \in {2, 4} /\ Len(x[2].at) = 6 /\ Len(x[3].at) = 6
  BY GroupingShapes
<1>2. x[1] # x[2] /\ x[1] # x[3]
  BY <1>1
<1> QED
  BY <1>1, <1>2

\* Where a reference points and what the claim asks decide the derivation: for a fact of
\* one reference there is no other.
LEMMA NameSuits ==
  ASSUME Referenced, NEW f \in cited, NEW d \in Api!Single,
         <<claim.path, claim.value>> \in Api!FactsOfOne(d, f),
         d = "scheme_name" => claim.kind = "security"
  PROVE  Api!DerivationName(f) = d
<1> USE DEF Api!DerivationName, Api!FactsOfOne
<1>k. /\ claim.path[1] = "fields" => claim.kind = "schema"
      /\ claim.path[1] \in {"parameters", "security"} => claim.kind = "operation"
      /\ claim.kind # "schema" => claim.schema = None
  BY ClaimsAssumption DEF Referenced, Api!ClaimsStated
<1>p. \A i \in 1..Len(f.at) : f.at[i] # None
  BY PointersAreNames
<1>1. CASE d = "operation"
  <2>1. claim.path \in {<<"path">>, <<"method">>}
    BY <1>1 DEF Api!OperationFacts
  <2> QED
    BY <1>1, <2>1
<1>2. CASE d = "response_status"
  <2>1. /\ Api!IsResponse(f.at) /\ claim.path = <<"responses", f.at[5], "status_code">>
    BY <1>2 DEF Api!ResponseStatus
  <2> QED
    BY <1>2, <2>1
<1>3. CASE d = "error_code"
  <2>1. /\ Api!IsResponse(f.at) /\ claim.path = <<"code">> /\ claim.kind = "error"
    BY <1>3 DEF Api!ErrorCode
  <2> QED
    BY <1>3, <2>1
<1>4. CASE d = "example_operation"
  <2>1. /\ Len(f.at) = 7 /\ f.at[4] = "body" /\ f.at[6] = "examples"
        /\ claim.kind = "integration_mechanic" 
        /\ claim.path = <<"operation_refs", <<f.at[2], f.at[3]>>>>
    BY <1>4 DEF Api!ExampleOperation
  <2> QED
    BY <1>4, <2>1
<1>5. CASE d = "response_schema_ref"
  <2>1. claim.path = <<"responses", f.at[5], "schema_ref">>
    BY <1>5 DEF Api!ResponseSchemaRef
  <2> QED
    BY <1>5, <2>1
<1>6. CASE d = "request_schema_ref"
  <2>1. claim.path = <<"request_schema_ref">>
    BY <1>6 DEF Api!RequestSchemaRef
  <2> QED
    BY <1>6, <2>1
<1>7. CASE d = "body_property"
  <2>1. /\ f.at[1] = "schemas"
        /\ \E field : claim.path = <<"parameters", field, "name">>
    <3> DEFINE first == <<f.at[4]>> \o Api!Marker(f)
               field == first \o Api!After(first)
    <3>1. f.at[1] = "schemas" /\ <<claim.path, claim.value>> \in Api!Named("parameters", field)
      <4>1. Api!IsProperty(f.at)
        BY <1>7 DEF Api!BodyProperty
      <4> QED
        BY <1>7, <4>1 DEF Api!BodyProperty, Api!IsProperty
    <3> HIDE DEF field
    <3> QED
      BY <3>1 DEF Api!Named
  <2>2. ~Api!IsBody(f.at)
    BY <2>1 DEF Api!IsBody, Api!InOperation
  <2> QED
    BY <1>7, <2>1, <2>2
<1>8. CASE d = "body_required"
  <2>1. /\ Api!IsSchema(f.at) /\ Api!AsksRequired("parameters")
    BY <1>8 DEF Api!BodyRequired
  <2>2. ~Api!IsBody(f.at) /\ ~Api!IsResponse(f.at)
    BY <2>1 DEF Api!IsBody, Api!IsSchema, Api!IsResponse
  <2> QED
    BY <1>8, <1>k, <2>1, <2>2 DEF Api!AsksRequired, Api!IsSchema
<1>9. CASE d = "inline_property"
  <2>1. /\ Api!IsBody(f.at)
        /\ \E field : claim.path = <<"parameters", field, "name">>
    BY <1>9 DEF Api!InlineProperty, Api!Named
  <2> QED
    BY <1>9, <2>1
<1>10. CASE d = "inline_required"
  <2>1. /\ Api!IsBody(f.at) /\ Api!AsksRequired("parameters")
    BY <1>10 DEF Api!InlineRequired
  <2>2. ~Api!IsSchema(f.at)
    BY <2>1 DEF Api!IsBody, Api!IsSchema
  <2> QED
    BY <1>10, <1>k, <2>1, <2>2 DEF Api!AsksRequired
<1>11. CASE d = "schema_name"
  <2>1. /\ Api!IsSchema(f.at) /\ claim.schema = f.at[2] /\ claim.path = <<"name">>
    BY <1>11 DEF Api!SchemaName
  <2>2. claim.kind = "schema"
    BY <1>k, <1>p, <2>1 DEF Api!IsSchema
  <2> QED
    BY <1>11, <2>1, <2>2
<1>12. CASE d = "schema_property"
  <2>1. /\ Api!IsProperty(f.at)
        /\ \E field : claim.path \in {<<"fields", field, "name">>, <<"fields", field, "type">>}
    BY <1>12 DEF Api!SchemaProperty, Api!Named, Api!Typed
  <2> QED
    BY <1>12, <1>k, <2>1 DEF Api!IsProperty
<1>13. CASE d = "schema_required"
  <2>1. /\ Api!IsSchema(f.at) /\ Api!AsksRequired("fields")
    BY <1>13 DEF Api!SchemaRequired
  <2> QED
    BY <1>13, <1>k, <2>1 DEF Api!AsksRequired
<1>14. CASE d = "scheme_name"
  <2>1. /\ Len(f.at) = 2 /\ f.at[1] = "securitySchemes" /\ claim.path = <<"name">>
        /\ claim.kind = "security"
    BY <1>14 DEF Api!SchemeName
  <2> QED
    BY <1>14, <2>1
<1>15. CASE d = "operation_security"
  <2>1. /\ Len(f.at) = 5 /\ f.at[4] = "security"
        /\ \E s : claim.path = <<"security", s>>
    BY <1>15 DEF Api!OperationSecurity
  <2> QED
    BY <1>15, <2>1
<1> QED
  BY Zenon, <1>1, <1>2, <1>3, <1>4, <1>5, <1>6, <1>7, <1>8, <1>9, <1>10, <1>11, <1>12, <1>13, <1>14,
     <1>15 DEF Api!Single

\* A fact of one reference, which is all that is cited: the bridge proposes it.
LEMMA OneFound ==
  ASSUME Referenced, NEW f, cited = {f}, NEW d \in Api!Single,
         Api!Verified(Api!Proposal(d, <<f>>)), d = "scheme_name" => claim.kind = "security",
         NEW P \in Api!Proposed
  PROVE  \E q \in P : Api!Verified(q)
<1>1. <<claim.path, claim.value>> \in Api!FactsOfOne(d, f)
  BY DEF Api!Verified, Api!Proposal, Api!Single, Api!Linked
<1>2. Api!DerivationName(f) = d
  BY <1>1, NameSuits
<1>3. P = {Api!Proposal(Api!DerivationName(g), <<g>>) : g \in {h \in cited : Api!DerivationName(h) \in Api!Single}}
  BY OneReference DEF Api!Alone
<1> QED
  BY <1>2, <1>3

-----------------------------------------------------------------------------
\* The sizes of small sets of positions.
LEMMA PairSize == Cardinality({1, 2}) = 2 /\ Cardinality({1, 3}) = 2 /\ Cardinality({1, 3, 5}) = 3
<1>1. IsFiniteSet({1}) /\ Cardinality({1}) = 1
  BY FS_Singleton
<1>2. IsFiniteSet({1} \cup {2}) /\ Cardinality({1} \cup {2}) = 2
  <2>1. 2 \notin {1}
    OBVIOUS
  <2> QED
    BY <1>1, <2>1, FS_AddElement
<1>3. IsFiniteSet({1} \cup {3}) /\ Cardinality({1} \cup {3}) = 2
  <2>1. 3 \notin {1}
    OBVIOUS
  <2> QED
    BY <1>1, <2>1, FS_AddElement
<1>4. Cardinality(({1} \cup {3}) \cup {5}) = 3
  <2>1. 5 \notin {1} \cup {3}
    OBVIOUS
  <2> QED
    BY <1>3, <2>1, FS_AddElement
<1>5. {1, 2} = {1} \cup {2} /\ {1, 3} = {1} \cup {3} /\ {1, 3, 5} = ({1} \cup {3}) \cup {5}
  OBVIOUS
<1> QED
  BY <1>2, <1>3, <1>4, <1>5

\* What the names of fields are made of.
Steps == STRING \cup {"[]"}

\* A field with a rest after a prefix is the prefix and the rest.
LEMMA RestAfter ==
  ASSUME NEW prefix \in Seq(Steps), claim.path[2] \in Seq(Steps), Api!After(prefix) # <<>>
  PROVE  /\ Api!After(prefix) \in Seq(Steps)
         /\ Len(claim.path[2]) = Len(prefix) + Len(Api!After(prefix))
         /\ \A i \in 1..Len(prefix) : claim.path[2][i] = prefix[i]
         /\ \A i \in 1..Len(Api!After(prefix)) :
              claim.path[2][Len(prefix) + i] = Api!After(prefix)[i]
<1> DEFINE field == claim.path[2]
<1>1. /\ Api!IsPrefix(prefix, field)
      /\ Api!After(prefix) = SubSeq(field, Len(prefix) + 1, Len(field))
  BY DEF Api!After
<1>2. Len(prefix) =< Len(field) /\ SubSeq(prefix, 1, Len(prefix)) = SubSeq(field, 1, Len(prefix))
  BY <1>1 DEF Api!IsPrefix
<1>3. \A i \in 1..Len(prefix) : field[i] = prefix[i]
  <2> SUFFICES ASSUME NEW i \in 1..Len(prefix) PROVE field[i] = prefix[i]
    OBVIOUS
  <2>1. SubSeq(prefix, 1, Len(prefix))[i] = prefix[i]
    OBVIOUS
  <2>2. SubSeq(field, 1, Len(prefix))[i] = field[i]
    BY <1>2
  <2> QED
    BY <1>2, <2>1, <2>2
<1> QED
  BY <1>1, <1>2, <1>3

\* The rest of a field whose required flag a schema gives is one name, marked or not.
LEMMA FlagNamesOne ==
  ASSUME Referenced, NEW f \in cited, NEW name \in Seq(Steps), Api!Flag(f, name) # {}
  PROVE  /\ Len(name) \in {1, 2} /\ name[1] # "[]"
         /\ Len(name) = 2 => name[2] = "[]"
<1>1. /\ Len(name) \in {1, 2} /\ Tail(name) \in {<<>>, <<"[]">>}
      /\ Api!In(f, f.at \o <<"properties", name[1]>>)
  <2> DEFINE there == f.at \o <<"properties", name[1]>>
             member == [f EXCEPT !.at = there]
  <2>1. f.artifact \in DOMAIN sources /\ f = [artifact |-> f.artifact, at |-> f.at]
    BY ClaimsAssumption DEF Referenced, Api!CitationsStated
  <2>2. member.at = there
    <3> HIDE DEF there
    <3> QED
      BY <2>1
  <2>3. Len(name) \in {1, 2} /\ Tail(name) \in {<<>>, <<"[]">>} /\ Api!In(f, member.at)
    BY DEF Api!Flag
  <2> QED
    BY <2>2, <2>3
<1>2. f.at \in Seq(STRING)
  BY PointersAreNames
<1>3. (f.at \o <<"properties", name[1]>>)[Len(f.at) + 2] = name[1]
      /\ Len(f.at \o <<"properties", name[1]>>) = Len(f.at) + 2
  BY <1>1, <1>2
<1>4. name[1] # "[]"
  <2> DEFINE there == f.at \o <<"properties", name[1]>>
  <2>1. Api!In(f, there) /\ Len(f.at) + 2 \in 1..Len(there) /\ there[Len(f.at) + 2] = name[1]
    BY <1>1, <1>2, <1>3
  <2>2. \A i \in 1..Len(there) : there[i] # "[]"
    BY <2>1, PointersAreNames
  <2> QED
    BY <2>1, <2>2
<1>5. Len(name) = 2 => name[2] = "[]"
  <2> SUFFICES ASSUME Len(name) = 2 PROVE name[2] = "[]"
    OBVIOUS
  <2>1. Len(Tail(name)) = 1 /\ Tail(name)[1] = name[2]
    <3>1. name # <<>>
      OBVIOUS
    <3>2. Len(Tail(name)) = Len(name) - 1 /\ \A i \in 1..Len(Tail(name)) : Tail(name)[i] = name[i + 1]
      BY <3>1, HeadTailProperties
    <3>3. 1 \in 1..Len(Tail(name)) /\ 1 + 1 = 2
      BY <3>2
    <3> QED
      BY <3>2, <3>3
  <2>2. Tail(name) # <<>>
    <3> SUFFICES ASSUME Tail(name) = <<>> PROVE FALSE
      OBVIOUS
    <3>1. Len(<<>>) = 0 /\ 0 # 1
      OBVIOUS
    <3>2. Len(<<>>) = 1
      BY <2>1, Zenon
    <3> QED
      BY <3>1, <3>2
  <2>3. Tail(name) = <<"[]">>
    BY <1>1, <2>2
  <2>4. <<"[]">>[1] = "[]"
    OBVIOUS
  <2> QED
    BY <2>1, <2>3, <2>4
<1> QED
  BY <1>1, <1>4, <1>5

\* What a hop puts before the names of the schema it leads to.
LEMMA HopPrefixes ==
  ASSUME Referenced, NEW g \in cited, Api!Hop(g.at)
  PROVE  /\ Api!HopPrefix(g.at) \in Seq(Steps) /\ Api!HopPrefix(g.at)[1] = g.at[4] /\ g.at[4] # "[]"
         /\ Api!ItemHop(g.at) => Api!HopPrefix(g.at) = <<g.at[4], "[]">>
         /\ ~Api!ItemHop(g.at) => Api!HopPrefix(g.at) = <<g.at[4]>>
<1>1. g.at \in Seq(STRING) /\ Len(g.at) \in {5, 6}
  BY PointersAreNames DEF Api!Hop, Api!ItemHop, Api!DirectHop
<1>2. g.at[4] \in STRING /\ g.at[4] # "[]"
  BY <1>1, PointersAreNames
<1>3. CASE Api!ItemHop(g.at)
  <2>1. Api!HopPrefix(g.at) = <<g.at[4], "[]">>
    BY <1>3 DEF Api!HopPrefix
  <2> QED
    BY <1>2, <1>3, <2>1 DEF Steps
<1>4. CASE ~Api!ItemHop(g.at)
  <2>1. Api!HopPrefix(g.at) = <<g.at[4]>>
    BY <1>4 DEF Api!HopPrefix
  <2> QED
    BY <1>2, <1>4, <2>1 DEF Steps
<1> QED
  BY <1>3, <1>4

\* A field behind one hop has two names.
LEMMA HopHasTwoNames ==
  ASSUME Referenced, NEW f \in cited, NEW g \in cited, Api!Hop(g.at), claim.path[2] \in Seq(Steps),
         Api!Flag(f, Api!After(Api!HopPrefix(g.at))) # {}
  PROVE  Api!Names(claim.path[2]) = 2 /\ Api!After(Api!HopPrefix(g.at)) # <<>>
<1> DEFINE prefix == Api!HopPrefix(g.at)
           rest == Api!After(prefix)
           field == claim.path[2]
<1>1. prefix \in Seq(Steps) /\ prefix[1] # "[]"
      /\ (prefix = <<g.at[4], "[]">> \/ prefix = <<g.at[4]>>)
  BY HopPrefixes
<1>2. rest # <<>>
  BY DEF Api!Flag
<1>3. /\ rest \in Seq(Steps) /\ Len(field) = Len(prefix) + Len(rest)
      /\ \A i \in 1..Len(prefix) : field[i] = prefix[i]
      /\ \A i \in 1..Len(rest) : field[Len(prefix) + i] = rest[i]
  <2> HIDE DEF prefix, rest, field
  <2> QED
    BY <1>1, <1>2, RestAfter DEF rest, field
<1>4. Len(rest) \in {1, 2} /\ rest[1] # "[]" /\ (Len(rest) = 2 => rest[2] = "[]")
  BY <1>3, FlagNamesOne
<1> HIDE DEF prefix, rest, field
<1>5. CASE prefix = <<g.at[4]>>
  <2>1. Len(prefix) = 1
    BY <1>5
  <2>2. field[1] # "[]" /\ field[2] # "[]" /\ Len(field) \in {2, 3} /\ (Len(field) = 3 => field[3] = "[]")
    <3>1. CASE Len(rest) = 1
      BY <1>1, <1>3, <1>4, <2>1, <3>1
    <3>2. CASE Len(rest) = 2
      BY <1>1, <1>3, <1>4, <2>1, <3>2
    <3> QED
      BY <1>4, <3>1, <3>2
  <2> DEFINE named == {i \in DOMAIN field : field[i] # "[]"}
  <2>3. named = {1, 2}
    BY <2>2, claim.path[2] \in Seq(Steps) DEF field
  <2>4. Api!Names(field) = Api!Cardinality(named)
    BY DEF Api!Names
  <2>5. Api!Names(field) = 2
    <3> HIDE DEF named
    <3>1. Api!Cardinality(named) = Cardinality(named)
      BY DerivationSize
    <3> QED
      BY <2>3, <2>4, <3>1, PairSize
  <2> QED
    BY <1>2, <2>5 DEF field, rest, prefix
<1>6. CASE prefix = <<g.at[4], "[]">>
  <2>1. Len(prefix) = 2 /\ prefix[2] = "[]"
    BY <1>6
  <2>2. /\ field[1] # "[]" /\ field[2] = "[]" /\ field[3] # "[]"
        /\ Len(field) \in {3, 4} /\ (Len(field) = 4 => field[4] = "[]")
    BY <1>1, <1>3, <1>4, <2>1
  <2> DEFINE named == {i \in DOMAIN field : field[i] # "[]"}
  <2>3. named = {1, 3}
    BY <2>2, claim.path[2] \in Seq(Steps) DEF field
  <2>4. Api!Names(field) = Api!Cardinality(named)
    BY DEF Api!Names
  <2>5. Api!Names(field) = 2
    <3> HIDE DEF named
    <3>1. Api!Cardinality(named) = Cardinality(named)
      BY DerivationSize
    <3> QED
      BY <2>3, <2>4, <3>1, PairSize
  <2> QED
    BY <1>2, <2>5 DEF field, rest, prefix
<1> QED
  BY <1>1, <1>5, <1>6

\* What grouping i finds is all the bridge proposes when no earlier grouping finds any.
LEMMA AllVerified ==
  ASSUME NEW i \in 1..6, NEW y \in Api!Groupings[i].groups,
         \A x \in Api!Groupings[i].groups : x = y,
         \A j \in 1..6 : j < i => Api!Groupings[j].groups = {},
         Api!Verified(Api!Proposal(Api!Groupings[i].derivation, y)),
         NEW P \in Api!Proposed
  PROVE  \E q \in P : Api!Verified(q)
<1>1. PICK x \in Api!Groupings[i].groups : P = {Api!Proposal(Api!Groupings[i].derivation, x)}
  BY FirstGrouping
<1> QED
  BY <1>1

\* A fact of two linked references, which are all that is cited: the bridge groups them.
LEMMA TwoFound ==
  ASSUME Referenced, NEW f, NEW g, f # g, cited = {f, g}, NEW d \in Api!Linked,
         Api!Verified(Api!Proposal(d, <<f, g>>)),
         NEW P \in Api!Proposed
  PROVE  \E q \in P : Api!Verified(q)
<1> DEFINE p == Api!Proposal(d, <<f, g>>)
<1>1. <<claim.path, claim.value>> \in Api!FactsOfTwo(d, f, g)
  BY DEF Api!Verified, Api!Proposal, Api!Single, Api!Linked
<1>2. Api!TwoHopGroups = {}
  BY TwoReferences
<1>3. <<f, g>> \in cited \X cited /\ <<f, g>>[1] = f /\ <<f, g>>[2] = g
  OBVIOUS
<1>k. /\ claim.path[1] = "fields" => claim.kind = "schema"
      /\ claim.path[1] \in {"parameters", "security"} => claim.kind = "operation"
      /\ claim.path[1] \in {"fields", "parameters"} => claim.path[2] \in Seq(Steps)
  BY ClaimsAssumption DEF Referenced, Api!ClaimsStated, Steps
<1>4. CASE d = "schema_ref_required"
  <2>1. /\ Api!IsSchema(f.at) /\ Api!Hop(g.at) /\ Api!AsksRequired("fields")
        /\ claim.schema = g.at[2] /\ Api!Node(g).to = f.at[2]
        /\ Api!Flag(f, Api!After(Api!HopPrefix(g.at))) # {}
    BY <1>1, <1>4 DEF Api!FactsOfTwo, Api!SchemaRefRequired
  <2>2. Api!Names(claim.path[2]) = 2
    BY <1>k, <2>1, HopHasTwoNames DEF Api!AsksRequired
  <2>3. <<f, g>> \in Api!SchemaRefRequiredGroups
    BY <1>3, <1>k, <2>1, <2>2 DEF Api!SchemaRefRequiredGroups, Api!AsksField, Api!AsksRequired, Api!Links
  <2>4. \A x \in Api!SchemaRefRequiredGroups : x = <<f, g>>
    <3>1. Len(f.at) = 2 /\ Len(g.at) \in {5, 6}
      BY <2>1 DEF Api!IsSchema, Api!Hop, Api!ItemHop, Api!DirectHop
    <3>2. \A x \in Api!SchemaRefRequiredGroups :
            /\ x[1] \in cited /\ x[2] \in cited /\ x = <<x[1], x[2]>>
            /\ Len(x[1].at) = 2 /\ Len(x[2].at) \in {5, 6}
      BY GroupingShapes
    <3> QED
      BY <3>1, <3>2
  <2>5. \A j \in 1..6 : j < 2 => Api!Groupings[j].groups = {}
    BY <1>2, GroupingsListed
  <2> QED
    BY <1>4, <2>3, <2>4, <2>5, AllVerified, GroupingsListed
<1>5. CASE d = "schema_ref_property"
  <2> DEFINE field == Api!HopPrefix(g.at) \o <<f.at[4]>> \o Api!Marker(f)
  <2>1. /\ Api!IsMember(f.at) /\ Api!IsObject(f) /\ Api!Hop(g.at)
        /\ claim.schema = g.at[2] /\ Api!Node(g).to = f.at[2]
        /\ <<claim.path, claim.value>> \in Api!Named("fields", field) \cup Api!Typed(field, f)
    BY <1>1, <1>5 DEF Api!FactsOfTwo, Api!SchemaRefProperty
  <2>2. \/ claim.path = <<"fields", field, "name">> /\ claim.value = field
        \/ claim.path = <<"fields", field, "type">> /\ claim.value = Api!Node(f).type
    BY <2>1 DEF Api!Named, Api!Typed
  <2>3. <<f, g>> \in Api!SchemaRefPropertyGroups
    <3>1. /\ claim.kind = "schema" /\ claim.path[1] = "fields" /\ claim.path[3] \in {"name", "type"}
          /\ claim.value = IF claim.path[3] = "type" THEN Api!Node(f).type ELSE field
      <4> HIDE DEF field
      <4> QED
        BY <1>k, <2>2
    <3> QED
      BY <1>3, <2>1, <3>1 DEF Api!SchemaRefPropertyGroups, Api!Links
  <2>4. \A x \in Api!SchemaRefPropertyGroups : x = <<f, g>>
    <3>1. Len(f.at) = 4 /\ Len(g.at) \in {5, 6}
      BY <2>1 DEF Api!IsMember, Api!Hop, Api!ItemHop, Api!DirectHop
    <3>2. \A x \in Api!SchemaRefPropertyGroups :
            /\ x[1] \in cited /\ x[2] \in cited /\ x = <<x[1], x[2]>>
            /\ Len(x[1].at) = 4 /\ Len(x[2].at) \in {5, 6}
      BY GroupingShapes
    <3> QED
      BY <3>1, <3>2
  <2>5. Api!SchemaRefRequiredGroups = {}
    BY <2>2, GroupingShapes
  <2>6. \A j \in 1..6 : j < 3 => Api!Groupings[j].groups = {}
    BY <1>2, <2>5, GroupingsListed
  <2> QED
    BY <1>5, <2>3, <2>4, <2>6, AllVerified, GroupingsListed
<1>6. CASE d = "body_ref_property"
  <2> DEFINE field == Api!HopPrefix(g.at) \o <<f.at[4]>> \o Api!Marker(f)
  <2>1. /\ Api!IsMember(f.at) /\ Api!ItemHop(g.at)
        /\ claim.of.schema = g.at[2] /\ Api!Node(g).to = f.at[2]
        /\ claim.path = <<"parameters", field, "name">> /\ claim.value = field
    BY <1>1, <1>6 DEF Api!FactsOfTwo, Api!BodyRefProperty, Api!Named
  <2>2. <<f, g>> \in Api!BodyRefPropertyGroups
    BY <1>3, <2>1 DEF Api!BodyRefPropertyGroups, Api!Links
  <2>3. \A x \in Api!BodyRefPropertyGroups : x = <<f, g>>
    <3>1. Len(f.at) = 4 /\ Len(g.at) = 6
      BY <2>1 DEF Api!IsMember, Api!ItemHop
    <3>2. \A x \in Api!BodyRefPropertyGroups :
            /\ x[1] \in cited /\ x[2] \in cited /\ x = <<x[1], x[2]>>
            /\ Len(x[1].at) = 4 /\ Len(x[2].at) = 6
      BY GroupingShapes
    <3> QED
      BY <3>1, <3>2
  <2>4. Api!SchemaRefRequiredGroups = {} /\ Api!SchemaRefPropertyGroups = {}
    BY <2>1, GroupingShapes
  <2>5. \A j \in 1..6 : j < 4 => Api!Groupings[j].groups = {}
    BY <1>2, <2>4, GroupingsListed
  <2> QED
    BY <1>6, <2>2, <2>3, <2>5, AllVerified, GroupingsListed
<1>7. CASE d = "body_ref_required"
  <2>1. /\ Api!IsSchema(f.at) /\ Api!ItemHop(g.at) /\ Api!AsksRequired("parameters")
        /\ claim.of.schema = g.at[2] /\ Api!Node(g).to = f.at[2]
        /\ Api!Flag(f, Api!After(Api!HopPrefix(g.at))) # {}
    BY <1>1, <1>7 DEF Api!FactsOfTwo, Api!BodyRefRequired
  <2>2. Api!Names(claim.path[2]) = 2 /\ Api!After(Api!HopPrefix(g.at)) # <<>>
    BY <1>k, <2>1, HopHasTwoNames DEF Api!AsksRequired, Api!Hop
  <2>3. <<f, g>> \in Api!BodyRefRequiredGroups
    BY <1>3, <2>1, <2>2 DEF Api!BodyRefRequiredGroups, Api!AsksField, Api!AsksRequired, Api!Links
  <2>4. \A x \in Api!BodyRefRequiredGroups : x = <<f, g>>
    <3>1. Len(f.at) = 2 /\ Len(g.at) = 6
      BY <2>1 DEF Api!IsSchema, Api!ItemHop
    <3>2. \A x \in Api!BodyRefRequiredGroups :
            /\ x[1] \in cited /\ x[2] \in cited /\ x = <<x[1], x[2]>>
            /\ Len(x[1].at) = 2 /\ Len(x[2].at) = 6
      BY GroupingShapes
    <3> QED
      BY <3>1, <3>2
  <2>5. Api!SchemaRefRequiredGroups = {} /\ Api!SchemaRefPropertyGroups = {} /\ Api!BodyRefPropertyGroups = {}
    BY <2>1, GroupingShapes DEF Api!AsksRequired
  <2>6. \A j \in 1..6 : j < 5 => Api!Groupings[j].groups = {}
    BY <1>2, <2>5, GroupingsListed
  <2> QED
    BY <1>7, <2>3, <2>4, <2>6, AllVerified, GroupingsListed
<1>8. CASE d = "document_security"
  <2>1. /\ Len(f.at) = 2 /\ f.at[1] = "security" /\ Api!IsOperation(g.at) /\ Api!Own(g.at)
        /\ \E s \in Api!SoleScheme(f) : claim.path = <<"security", s>> /\ claim.value = s
    BY <1>1, <1>8 DEF Api!FactsOfTwo, Api!DocumentSecurity
  <2>2. Api!SoleScheme(f) = {claim.value}
    BY <2>1 DEF Api!SoleScheme
  <2>3. <<f, g>> \in Api!DocumentSecurityGroups
    BY <1>3, <1>k, <2>1, <2>2 DEF Api!DocumentSecurityGroups
  <2>4. \A x \in Api!DocumentSecurityGroups : x = <<f, g>>
    BY <2>1, GroupingShapes DEF Api!IsOperation
  <2>5. /\ Api!SchemaRefRequiredGroups = {} /\ Api!SchemaRefPropertyGroups = {}
        /\ Api!BodyRefPropertyGroups = {} /\ Api!BodyRefRequiredGroups = {}
    BY <2>1, GroupingShapes
  <2>6. \A j \in 1..6 : j < 6 => Api!Groupings[j].groups = {}
    BY <1>2, <2>5, GroupingsListed
  <2> QED
    BY <1>8, <2>3, <2>4, <2>6, AllVerified, GroupingsListed
<1> QED
  BY <1>4, <1>5, <1>6, <1>7, <1>8 DEF Api!Linked

\* Two hops to items, in the order the claim's field names them, have one order.
LEMMA HopsInOrder ==
  ASSUME Referenced, NEW g \in cited, NEW h \in cited, g.artifact = h.artifact,
         Api!ItemHop(g.at), Api!ItemHop(h.at), g.at[2] = h.at[2], claim.path[2] \in Seq(Steps),
         Api!After(Api!HopPrefix(g.at) \o Api!HopPrefix(h.at)) # <<>>,
         Api!After(Api!HopPrefix(h.at) \o Api!HopPrefix(g.at)) # <<>>
  PROVE  g = h
<1>1. /\ g.at \in Seq(STRING) /\ h.at \in Seq(STRING)
      /\ g = [artifact |-> g.artifact, at |-> g.at] /\ h = [artifact |-> h.artifact, at |-> h.at]
  BY PointersAreNames, ClaimsAssumption DEF Referenced, Api!CitationsStated
<1>2. /\ Api!HopPrefix(g.at) = <<g.at[4], "[]">> /\ Api!HopPrefix(h.at) = <<h.at[4], "[]">>
      /\ Api!HopPrefix(g.at) \in Seq(Steps) /\ Api!HopPrefix(h.at) \in Seq(Steps)
  BY HopPrefixes DEF Api!Hop
<1>3. /\ Len(Api!HopPrefix(g.at)) = 2 /\ Len(Api!HopPrefix(h.at)) = 2
      /\ Api!HopPrefix(g.at)[1] = g.at[4] /\ Api!HopPrefix(h.at)[1] = h.at[4]
  BY <1>2
<1>4. claim.path[2][1] = g.at[4]
  <2> DEFINE prefix == Api!HopPrefix(g.at) \o Api!HopPrefix(h.at)
  <2>1. prefix \in Seq(Steps) /\ Len(prefix) = 4 /\ prefix[1] = g.at[4]
    <3> HIDE DEF Api!HopPrefix
    <3> QED
      BY <1>2, <1>3
  <2> HIDE DEF prefix
  <2>2. Api!After(prefix) # <<>>
    BY DEF prefix
  <2> QED
    BY <2>1, <2>2, RestAfter
<1>5. claim.path[2][1] = h.at[4]
  <2> DEFINE prefix == Api!HopPrefix(h.at) \o Api!HopPrefix(g.at)
  <2>1. prefix \in Seq(Steps) /\ Len(prefix) = 4 /\ prefix[1] = h.at[4]
    BY <1>2, <1>3
  <2> HIDE DEF prefix
  <2>2. Api!After(prefix) # <<>>
    BY DEF prefix
  <2> QED
    BY <2>1, <2>2, RestAfter
<1>6. Len(g.at) = 6 /\ Len(h.at) = 6
  BY DEF Api!ItemHop
<1>7. g.at = h.at
  <2>1. /\ g.at[1] = h.at[1] /\ g.at[3] = h.at[3] /\ g.at[5] = h.at[5] /\ g.at[6] = h.at[6]
    BY DEF Api!ItemHop
  <2>2. g.at[2] = h.at[2] /\ g.at[4] = h.at[4]
    BY <1>4, <1>5
  <2> DEFINE s == g.at
             t == h.at
  <2>3. s \in Seq(STRING) /\ t \in Seq(STRING) /\ Len(s) = 6 /\ Len(t) = 6
    BY <1>1, <1>6
  <2>4. s[1] = t[1] /\ s[2] = t[2] /\ s[3] = t[3] /\ s[4] = t[4] /\ s[5] = t[5] /\ s[6] = t[6]
    BY <2>1, <2>2
  <2> HIDE DEF s, t
  <2>5. ASSUME NEW i \in 1..6 PROVE s[i] = t[i]
    <3>1. i = 1 \/ i = 2 \/ i = 3 \/ i = 4 \/ i = 5 \/ i = 6
      OBVIOUS
    <3> QED
      BY <2>4, <3>1
  <2>6. s = t
    BY <2>3, <2>5, SeqEqual
  <2> QED
    BY <2>6 DEF s, t
<1> QED
  BY <1>1, <1>7

\* The field of a fact of two hops: what it leaves after the hops, and its three names.
LEMMA TwoHopsNameThree ==
  ASSUME Referenced, NEW f \in cited, NEW g \in cited, NEW h \in cited,
         Api!ItemHop(g.at), Api!ItemHop(h.at), claim.path[2] \in Seq(Steps),
         NEW rest \in Seq(Steps), rest = Api!After(Api!HopPrefix(g.at) \o Api!HopPrefix(h.at)),
         Len(rest) \in {1, 2}, rest[1] # "[]", Len(rest) = 2 => rest[2] = "[]"
  PROVE  Api!Names(claim.path[2]) = 3
<1> DEFINE prefix == Api!HopPrefix(g.at) \o Api!HopPrefix(h.at)
           field == claim.path[2]
           named == {i \in DOMAIN field : field[i] # "[]"}
<1>1. /\ Api!HopPrefix(g.at) = <<g.at[4], "[]">> /\ Api!HopPrefix(h.at) = <<h.at[4], "[]">>
      /\ Api!HopPrefix(g.at) \in Seq(Steps) /\ Api!HopPrefix(h.at) \in Seq(Steps)
      /\ g.at[4] # "[]" /\ h.at[4] # "[]"
  BY HopPrefixes DEF Api!Hop
<1>2. /\ Len(Api!HopPrefix(g.at)) = 2 /\ Len(Api!HopPrefix(h.at)) = 2
      /\ Api!HopPrefix(g.at)[1] = g.at[4] /\ Api!HopPrefix(h.at)[1] = h.at[4]
      /\ Api!HopPrefix(g.at)[2] = "[]" /\ Api!HopPrefix(h.at)[2] = "[]"
  BY <1>1
<1>3. /\ prefix \in Seq(Steps) /\ Len(prefix) = 4
      /\ prefix[1] = g.at[4] /\ prefix[2] = "[]" /\ prefix[3] = h.at[4] /\ prefix[4] = "[]"
  BY <1>1, <1>2
<1> HIDE DEF prefix
<1>4. rest = Api!After(prefix) /\ rest # <<>>
  BY DEF prefix
<1>5. /\ Len(field) = 4 + Len(rest)
      /\ \A i \in 1..4 : field[i] = prefix[i]
      /\ \A i \in 1..Len(rest) : field[4 + i] = rest[i]
  <2>1. /\ Len(field) = Len(prefix) + Len(Api!After(prefix))
        /\ \A i \in 1..Len(prefix) : field[i] = prefix[i]
        /\ \A i \in 1..Len(Api!After(prefix)) : field[Len(prefix) + i] = Api!After(prefix)[i]
    BY <1>3, <1>4, RestAfter
  <2> HIDE DEF field
  <2> QED
    BY <1>3, <1>4, <2>1
<1>6. /\ field[1] # "[]" /\ field[2] = "[]" /\ field[3] # "[]" /\ field[4] = "[]"
  BY <1>1, <1>3, <1>5
<1>7. field[5] # "[]" /\ (Len(rest) = 2 => field[6] = "[]")
  BY <1>5
<1>8. named = {1, 3, 5}
  <2>1. field \in Seq(Steps) /\ Len(field) \in {5, 6} /\ (Len(field) = 6 => field[6] = "[]")
    BY <1>5, <1>7, SMTT(30)
  <2> HIDE DEF field
  <2>2. DOMAIN field = 1..Len(field)
    BY <2>1
  <2> QED
    BY <1>6, <1>7, <2>1, <2>2, SMTT(30)
<1>9. Api!Names(field) = Api!Cardinality(named)
  BY DEF Api!Names
<1> HIDE DEF named
<1>10. Api!Cardinality(named) = Cardinality(named)
  BY DerivationSize
<1> QED
  BY <1>8, <1>9, <1>10, PairSize

\* A fact of two hops to items and what they lead to, all that is cited.
LEMMA ThreeFound ==
  ASSUME Referenced, NEW f, NEW g, NEW h, f # g, f # h, g # h, cited = {f, g, h},
         Api!Verified(Api!Proposal("two_hop", <<f, g, h>>)),
         NEW P \in Api!Proposed
  PROVE  \E q \in P : Api!Verified(q)
<1> DEFINE prefix == Api!HopPrefix(g.at) \o Api!HopPrefix(h.at)
           rest == Api!After(prefix)
           field == prefix \o <<f.at[4]>> \o Api!Marker(f)
<1>1. /\ <<claim.path, claim.value>> \in Api!TwoHop(f, g, h)
      /\ g.artifact = f.artifact /\ h.artifact = f.artifact
  <2>1. /\ Api!Proposal("two_hop", <<f, g, h>>).derivation = "two_hop"
        /\ Api!Proposal("two_hop", <<f, g, h>>).fragments = <<f, g, h>>
    BY DEF Api!Proposal
  <2>2. "two_hop" \notin Api!Single /\ "two_hop" \notin Api!Linked
    BY DEF Api!Single, Api!Linked
  <2>3. DOMAIN <<f, g, h>> = 1..3 /\ Len(<<f, g, h>>) = 3
        /\ <<f, g, h>>[1] = f /\ <<f, g, h>>[2] = g /\ <<f, g, h>>[3] = h
    OBVIOUS
  <2> QED
    BY <2>1, <2>2, <2>3 DEF Api!Verified
<1>2. /\ Api!ItemHop(g.at) /\ Api!ItemHop(h.at) /\ claim.schema = g.at[2]
      /\ Api!Node(g).to = h.at[2] /\ Api!Node(h).to = f.at[2]
      /\ \/ Api!IsMember(f.at) /\ Api!IsObject(f) /\ <<claim.path, claim.value>> \in Api!Named("fields", field) \cup Api!Typed(field, f)
         \/ /\ Api!IsSchema(f.at) /\ Api!AsksRequired("fields")
            /\ <<claim.path, claim.value>> \in Api!Flag(f, rest)
  BY <1>1 DEF Api!TwoHop
<1>3. claim.path[1] = "fields" /\ Len(claim.path) = 3
  <2>1. CASE <<claim.path, claim.value>> \in Api!Named("fields", field) \cup Api!Typed(field, f)
    <3> HIDE DEF field
    <3>1. \/ claim.path = <<"fields", field, "name">>
          \/ claim.path = <<"fields", field, "type">>
      BY <2>1 DEF Api!Named, Api!Typed
    <3> QED
      BY <3>1
  <2> QED
    BY <1>2, <2>1 DEF Api!AsksRequired
<1>4. claim.kind = "schema" /\ claim.path[2] \in Seq(Steps)
  BY <1>3, ClaimsAssumption DEF Referenced, Api!ClaimsStated, Steps
<1>5. /\ Api!HopPrefix(g.at) = <<g.at[4], "[]">> /\ Api!HopPrefix(h.at) = <<h.at[4], "[]">>
      /\ Api!HopPrefix(g.at) \in Seq(Steps) /\ Api!HopPrefix(h.at) \in Seq(Steps)
  BY <1>2, HopPrefixes DEF Api!Hop
<1>6. prefix \in Seq(Steps) /\ Len(prefix) = 4
  BY <1>5
<1>7. f.at \in Seq(STRING) /\ \A i \in 1..Len(f.at) : f.at[i] # "[]"
  BY PointersAreNames
<1>8. /\ rest \in Seq(Steps) /\ Len(rest) \in {1, 2} /\ rest[1] # "[]"
      /\ Len(rest) = 2 => rest[2] = "[]"
      /\ \/ /\ Api!IsSchema(f.at) /\ claim.path[3] = "required"
            /\ <<claim.path, claim.value>> \in Api!Flag(f, rest)
         \/ /\ Api!IsMember(f.at) /\ Api!IsObject(f) /\ (rest[Len(rest)] = "[]") = Api!IsArray(f.artifact, f.at)
            /\ \/ claim.path[3] = "name" /\ claim.value = claim.path[2]
               \/ claim.path[3] = "type" /\ claim.value = Api!Node(f).type
  <2>1. CASE /\ Api!IsSchema(f.at) /\ Api!AsksRequired("fields")
             /\ <<claim.path, claim.value>> \in Api!Flag(f, rest)
    <3> HIDE DEF prefix
    <3>1. rest # <<>>
      BY <2>1 DEF Api!Flag
    <3>2. rest \in Seq(Steps)
      BY <1>4, <1>6, <3>1, RestAfter
    <3> HIDE DEF rest
    <3>3. Len(rest) \in {1, 2} /\ rest[1] # "[]" /\ (Len(rest) = 2 => rest[2] = "[]")
      BY <2>1, <3>2, FlagNamesOne
    <3> QED
      BY <2>1, <3>2, <3>3 DEF Api!AsksRequired
  <2>2. CASE /\ Api!IsMember(f.at) /\ Api!IsObject(f)
             /\ <<claim.path, claim.value>> \in Api!Named("fields", field) \cup Api!Typed(field, f)
    <3>1. \/ claim.path = <<"fields", field, "name">> /\ claim.value = field
          \/ claim.path = <<"fields", field, "type">> /\ claim.value = Api!Node(f).type
      <4> HIDE DEF field
      <4> QED
        BY <2>2 DEF Api!Named, Api!Typed
    <3>2. f.at[4] \in Steps /\ f.at[4] # "[]"
      BY <1>7, <2>2 DEF Steps, Api!IsMember
    <3>3. claim.path[2] = field
      BY <3>1
    <3>4. rest = <<f.at[4]>> \o Api!Marker(f)
      <4> DEFINE tail == <<f.at[4]>> \o Api!Marker(f)
      <4>1. Api!Marker(f) \in Seq(Steps) /\ Len(Api!Marker(f)) \in {0, 1}
        <5>1. <<"[]">> \in Seq(Steps) /\ <<>> \in Seq(Steps) /\ Len(<<"[]">>) = 1 /\ Len(<<>>) = 0
          BY DEF Steps
        <5>2. Api!Marker(f) = <<"[]">> \/ Api!Marker(f) = <<>>
          BY DEF Api!Marker
        <5> HIDE DEF Api!Marker
        <5> QED
          BY <5>1, <5>2
      <4>2. tail \in Seq(Steps) /\ field = prefix \o tail
        <5> HIDE DEF prefix
        <5> QED
          BY <1>6, <3>2, <4>1
      <4> HIDE DEF tail, prefix, field
      <4>3. /\ Len(claim.path[2]) = Len(prefix) + Len(tail)
            /\ \A i \in 1..Len(prefix) : claim.path[2][i] = prefix[i]
            /\ \A i \in 1..Len(tail) : claim.path[2][Len(prefix) + i] = tail[i]
        <5>1. /\ Len(prefix \o tail) = Len(prefix) + Len(tail)
              /\ \A i \in 1..Len(prefix) : (prefix \o tail)[i] = prefix[i]
              /\ \A i \in 1..Len(tail) : (prefix \o tail)[Len(prefix) + i] = tail[i]
          <6>1. /\ Len(prefix \o tail) = Len(prefix) + Len(tail)
                /\ \A i \in 1..Len(prefix) + Len(tail) :
                     (prefix \o tail)[i] = IF i <= Len(prefix) THEN prefix[i] ELSE tail[i - Len(prefix)]
            BY <1>6, <4>2, ConcatProperties
          <6>2. Len(tail) \in Nat
            BY <4>2
          <6>3. ASSUME NEW i \in 1..Len(tail) PROVE (prefix \o tail)[Len(prefix) + i] = tail[i]
            <7>1. /\ Len(prefix) + i \in 1..Len(prefix) + Len(tail)
                  /\ ~(Len(prefix) + i <= Len(prefix)) /\ Len(prefix) + i - Len(prefix) = i
              BY <1>6, <6>2
            <7> QED
              BY <6>1, <7>1
          <6>4. ASSUME NEW i \in 1..Len(prefix) PROVE (prefix \o tail)[i] = prefix[i]
            <7>1. i \in 1..Len(prefix) + Len(tail) /\ i <= Len(prefix)
              BY <1>6, <6>2
            <7> QED
              BY <6>1, <7>1
          <6> QED
            BY <6>1, <6>3, <6>4
        <5> QED
          BY <3>3, <4>2, <5>1
      <4>4. Api!IsPrefix(prefix, claim.path[2])
        BY <1>4, <1>6, <4>2, <4>3 DEF Api!IsPrefix
      <4>5. rest = SubSeq(claim.path[2], Len(prefix) + 1, Len(claim.path[2]))
        BY <4>4 DEF Api!After
      <4>6. SubSeq(claim.path[2], Len(prefix) + 1, Len(claim.path[2])) = tail
        BY <1>4, <1>6, <4>2, <4>3
      <4> QED
        BY <4>5, <4>6 DEF tail
    <3> HIDE DEF rest, field
    <3>5. CASE Api!IsArray(f.artifact, f.at)
      <4>1. Api!Marker(f) = <<"[]">>
        BY <3>5 DEF Api!Marker
      <4>2. rest \in Seq(Steps) /\ Len(rest) = 2 /\ rest[1] = f.at[4] /\ rest[2] = "[]"
        <5>1. <<f.at[4]>> \in Seq(Steps) /\ <<"[]">> \in Seq(Steps)
          BY <3>2 DEF Steps
        <5> QED
          BY <3>4, <4>1, <5>1
      <4> QED
        <5>1. rest[Len(rest)] = "[]" /\ (rest[Len(rest)] = "[]") = Api!IsArray(f.artifact, f.at)
          BY <3>5, <4>2 DEF Api!IsArray
        <5> QED
          BY <2>2, <3>1, <3>2, <3>3, <4>2, <5>1
    <3>6. CASE ~Api!IsArray(f.artifact, f.at)
      <4>1. Api!Marker(f) = <<>>
        BY <3>6 DEF Api!Marker
      <4>2. rest \in Seq(Steps) /\ Len(rest) = 1 /\ rest[1] = f.at[4]
        <5>1. <<f.at[4]>> \in Seq(Steps) /\ <<>> \in Seq(Steps)
          BY <3>2 DEF Steps
        <5> QED
          BY <3>4, <4>1, <5>1
      <4> QED
        <5>1. rest[Len(rest)] # "[]" /\ (rest[Len(rest)] = "[]") = Api!IsArray(f.artifact, f.at)
          BY <3>2, <3>6, <4>2 DEF Api!IsArray
        <5> QED
          BY <2>2, <3>1, <3>2, <3>3, <4>2, <5>1
    <3> QED
      BY <3>5, <3>6
  <2> QED
    BY <1>2, <2>1, <2>2
<1>9. Api!Names(claim.path[2]) = 3
  BY <1>2, <1>4, <1>8, TwoHopsNameThree
<1>10. <<f, g, h>> \in Api!TwoHopGroups
  <2>1. /\ <<f, g, h>> \in cited \X cited \X cited
        /\ <<f, g, h>>[1] = f /\ <<f, g, h>>[2] = g /\ <<f, g, h>>[3] = h
    OBVIOUS
  <2>2. Api!AsksField("fields", 3)
    BY <1>3, <1>9 DEF Api!AsksField
  <2>3. Len(f.at) >= 2 /\ f.at[1] = "schemas"
    BY <1>7, <1>8 DEF Api!IsSchema, Api!IsMember, Api!IsProperty
  <2>4. Api!Links(claim.schema, h, g)
    BY <1>2 DEF Api!Links
  <2>5. rest # <<>>
    <3> HIDE DEF rest
    <3> QED
      BY <1>8
  <2>6. IF claim.path[3] = "required"
        THEN Api!IsSchema(f.at) /\ <<claim.path, claim.value>> \in Api!Flag(f, rest)
        ELSE /\ Api!IsMember(f.at) /\ Api!IsObject(f) /\ (Api!Last(rest) = "[]") = Api!IsArray(f.artifact, f.at)
             /\ claim.value = IF claim.path[3] = "name" THEN claim.path[2] ELSE Api!Node(f).type
    <3> HIDE DEF rest
    <3> QED
      BY <1>8 DEF Api!Last
  <2> QED
    BY <1>2, <1>4, <2>1, <2>2, <2>3, <2>4, <2>5, <2>6 DEF Api!TwoHopGroups
<1>11. \A x \in Api!TwoHopGroups : x = <<f, g, h>>
  <2> SUFFICES ASSUME NEW x \in Api!TwoHopGroups PROVE x = <<f, g, h>>
    OBVIOUS
  <2>1. /\ x[1] \in cited /\ x[2] \in cited /\ x[3] \in cited /\ x[2] # x[3]
        /\ x = <<x[1], x[2], x[3]>>
        /\ Len(x[1].at) \in {2, 4} /\ Len(x[2].at) = 6 /\ Len(x[3].at) = 6
    BY GroupingShapes
  <2>2. Len(f.at) \in {2, 4} /\ Len(g.at) = 6 /\ Len(h.at) = 6
    BY <1>2 DEF Api!ItemHop, Api!IsMember, Api!IsSchema
  <2>3. x[1] = f /\ x[2] \in {g, h} /\ x[3] \in {g, h}
    BY <2>1, <2>2
  <2>4. CASE x[2] = h /\ x[3] = g
    <3>1. /\ claim.schema = h.at[2]
          /\ Api!After(Api!HopPrefix(h.at) \o Api!HopPrefix(g.at)) # <<>>
      BY <2>4 DEF Api!TwoHopGroups, Api!Links
    <3>2. rest # <<>>
      <4> HIDE DEF rest
      <4> QED
        BY <1>8
    <3>3. g = h
      BY <1>1, <1>2, <1>4, <3>1, <3>2, HopsInOrder
    <3> QED
      BY <3>3
  <2> QED
    BY <2>1, <2>3, <2>4
<1>12. \A j \in 1..6 : ~(j < 1)
  OBVIOUS
<1> QED
  BY <1>10, <1>11, <1>12, AllVerified, GroupingsListed

\* Whatever the Core would accept of all that is cited, what the bridge proposes has a
\* fact that it accepts.
LEMMA BridgeFinds ==
  ASSUME Referenced, NEW p \in Api!AdapterProposals,
         {p.fragments[i] : i \in DOMAIN p.fragments} = cited,
         ~Api!SchemeOfAnother(p), Api!Verified(p), NEW P \in Api!Proposed
  PROVE  \E q \in P : Api!Verified(q)
<1>1. ASSUME NEW d \in Api!Single, NEW f \in cited, p = Api!Proposal(d, <<f>>)
      PROVE  \E q \in P : Api!Verified(q)
  <2>1. p.fragments = <<f>> /\ p.derivation = d
    BY <1>1 DEF Api!Proposal
  <2>2. {<<f>>[i] : i \in DOMAIN <<f>>} = {f}
    <3>1. DOMAIN <<f>> = {1} /\ <<f>>[1] = f
      OBVIOUS
    <3> QED
      BY <3>1
  <2>3. cited = {f}
    BY <2>1, <2>2
  <2>4. d = "scheme_name" => claim.kind = "security"
    BY <2>1 DEF Api!SchemeOfAnother
  <2> QED
    BY <1>1, <2>3, <2>4, OneFound
<1>2. ASSUME NEW d \in Api!Linked, NEW x \in {y \in cited \X cited : y[1] # y[2]},
             p = Api!Proposal(d, x)
      PROVE  \E q \in P : Api!Verified(q)
  <2>1. PICK f \in cited, g \in cited : x = <<f, g>> /\ f # g
    OBVIOUS
  <2>2. p.fragments = <<f, g>>
    BY <1>2, <2>1 DEF Api!Proposal
  <2>3. {<<f, g>>[i] : i \in DOMAIN <<f, g>>} = {f, g}
    <3>1. DOMAIN <<f, g>> = {1, 2} /\ <<f, g>>[1] = f /\ <<f, g>>[2] = g
      OBVIOUS
    <3> QED
      BY <3>1
  <2>4. cited = {f, g}
    BY <2>2, <2>3
  <2> QED
    BY <1>2, <2>1, <2>4, TwoFound
<1>3. ASSUME NEW x \in {y \in cited \X cited \X cited : y[1] # y[2] /\ y[1] # y[3] /\ y[2] # y[3]},
             p = Api!Proposal("two_hop", x)
      PROVE  \E q \in P : Api!Verified(q)
  <2>1. PICK f \in cited, g \in cited, h \in cited : x = <<f, g, h>> /\ f # g /\ f # h /\ g # h
    OBVIOUS
  <2>2. p.fragments = <<f, g, h>>
    BY <1>3, <2>1 DEF Api!Proposal
  <2>3. {<<f, g, h>>[i] : i \in DOMAIN <<f, g, h>>} = {f, g, h}
    <3>1. DOMAIN <<f, g, h>> = {1, 2, 3}
          /\ <<f, g, h>>[1] = f /\ <<f, g, h>>[2] = g /\ <<f, g, h>>[3] = h
      OBVIOUS
    <3> QED
      BY <3>1
  <2>4. cited = {f, g, h}
    BY <2>2, <2>3
  <2> QED
    BY <1>3, <2>1, <2>4, ThreeFound
<1>4. \/ \E d \in Api!Single, f \in cited : p = Api!Proposal(d, <<f>>)
      \/ \E d \in Api!Linked, x \in {y \in cited \X cited : y[1] # y[2]} : p = Api!Proposal(d, x)
      \/ \E x \in {y \in cited \X cited \X cited : y[1] # y[2] /\ y[1] # y[3] /\ y[2] # y[3]} :
           p = Api!Proposal("two_hop", x)
  <2> HIDE DEF Api!Proposal, Api!Single, Api!Linked
  <2> QED
    BY DEF Api!AdapterProposals
<1> QED
  BY <1>1, <1>2, <1>3, <1>4

\* What the facts are read from does not change while the documents and the claim do not.
LEMMA PointersStay ==
  ASSUME UNCHANGED <<sources, claim>>
  PROVE  /\ \A f : Api!Node(f)' = Api!Node(f)
         /\ \A f, to : Api!In(f, to)' = Api!In(f, to)
         /\ \A f : Api!IsObject(f)' = Api!IsObject(f)
         /\ \A to : Api!Own(to)' = Api!Own(to)
         /\ \A group : Api!AsksRequired(group)' = Api!AsksRequired(group)
         /\ \A a, to : Api!IsArray(a, to)' = Api!IsArray(a, to)
         /\ \A f : Api!Marker(f)' = Api!Marker(f)
         /\ \A f : Api!SoleScheme(f)' = Api!SoleScheme(f)
         /\ \A prefix : Api!After(prefix)' = Api!After(prefix)
         /\ \A field, f : Api!Typed(field, f)' = Api!Typed(field, f)
         /\ \A f, name : Api!Flag(f, name)' = Api!Flag(f, name)
<1>1. \A f : Api!Node(f)' = Api!Node(f)
  BY DEF Api!Node
<1>2. \A f, to : Api!In(f, to)' = Api!In(f, to)
  BY DEF Api!In
<1>3. \A to : Api!Own(to)' = Api!Own(to)
  BY DEF Api!Own
<1>4. \A group : Api!AsksRequired(group)' = Api!AsksRequired(group)
  BY DEF Api!AsksRequired
<1>10. \A a, to : Api!IsArray(a, to)' = Api!IsArray(a, to)
  BY DEF Api!IsArray
<1>11. \A f : Api!IsObject(f)' = Api!IsObject(f)
  BY <1>1 DEF Api!IsObject
<1>5. \A f : Api!Marker(f)' = Api!Marker(f)
  BY <1>10 DEF Api!Marker
<1>6. \A f : Api!SoleScheme(f)' = Api!SoleScheme(f)
  BY <1>1 DEF Api!SoleScheme
<1>7. \A prefix : Api!After(prefix)' = Api!After(prefix)
  BY DEF Api!After
<1>8. \A field, f : Api!Typed(field, f)' = Api!Typed(field, f)
  BY <1>1 DEF Api!Typed
<1>9. \A f, name : Api!Flag(f, name)' = Api!Flag(f, name)
  BY <1>1, <1>2, <1>5, <1>11 DEF Api!Flag
<1> QED
  BY <1>1, <1>2, <1>3, <1>4, <1>5, <1>6, <1>7, <1>8, <1>9, <1>10, <1>11

\* A derivation of one reference yields the same facts then.
LEMMA FactsOfOneStay ==
  ASSUME UNCHANGED <<sources, claim>>, NEW d \in Api!Single, NEW f
  PROVE  Api!FactsOfOne(d, f)' = Api!FactsOfOne(d, f)
<1>0. /\ Api!Node(f)' = Api!Node(f) /\ Api!IsObject(f)' = Api!IsObject(f)
      /\ \A to : Api!In(f, to)' = Api!In(f, to)
      /\ Api!Own(f.at)' = Api!Own(f.at)
      /\ \A group : Api!AsksRequired(group)' = Api!AsksRequired(group)
      /\ \A a, to : Api!IsArray(a, to)' = Api!IsArray(a, to)
      /\ Api!Marker(f)' = Api!Marker(f)
      /\ Api!SoleScheme(f)' = Api!SoleScheme(f)
      /\ \A prefix : Api!After(prefix)' = Api!After(prefix)
      /\ \A field : Api!Typed(field, f)' = Api!Typed(field, f)
      /\ \A name : Api!Flag(f, name)' = Api!Flag(f, name)
  BY PointersStay
<1>1. CASE d = "operation"
  <2>1. Api!FactsOfOne(d, f) = Api!OperationFacts(f) /\ Api!FactsOfOne(d, f)' = Api!OperationFacts(f)'
    BY <1>1 DEF Api!FactsOfOne
  <2>2. Api!OperationFacts(f)' = Api!OperationFacts(f)
    BY <1>0 DEF Api!OperationFacts
  <2> QED
    BY <2>1, <2>2
<1>2. CASE d = "response_status"
  <2>1. Api!FactsOfOne(d, f) = Api!ResponseStatus(f) /\ Api!FactsOfOne(d, f)' = Api!ResponseStatus(f)'
    BY <1>2 DEF Api!FactsOfOne
  <2>2. Api!ResponseStatus(f)' = Api!ResponseStatus(f)
    BY <1>0 DEF Api!ResponseStatus
  <2> QED
    BY <2>1, <2>2
<1>3. CASE d = "error_code"
  <2>1. Api!FactsOfOne(d, f) = Api!ErrorCode(f) /\ Api!FactsOfOne(d, f)' = Api!ErrorCode(f)'
    BY <1>3 DEF Api!FactsOfOne
  <2>2. Api!ErrorCode(f)' = Api!ErrorCode(f)
    BY <1>0 DEF Api!ErrorCode
  <2> QED
    BY <2>1, <2>2
<1>4. CASE d = "example_operation"
  <2>1. Api!FactsOfOne(d, f) = Api!ExampleOperation(f) /\ Api!FactsOfOne(d, f)' = Api!ExampleOperation(f)'
    BY <1>4 DEF Api!FactsOfOne
  <2>2. Api!ExampleOperation(f)' = Api!ExampleOperation(f)
    BY <1>0 DEF Api!ExampleOperation
  <2> QED
    BY <2>1, <2>2
<1>5. CASE d = "response_schema_ref"
  <2>1. Api!FactsOfOne(d, f) = Api!ResponseSchemaRef(f) /\ Api!FactsOfOne(d, f)' = Api!ResponseSchemaRef(f)'
    BY <1>5 DEF Api!FactsOfOne
  <2>2. Api!ResponseSchemaRef(f)' = Api!ResponseSchemaRef(f)
    BY <1>0 DEF Api!ResponseSchemaRef
  <2> QED
    BY <2>1, <2>2
<1>6. CASE d = "request_schema_ref"
  <2>1. Api!FactsOfOne(d, f) = Api!RequestSchemaRef(f) /\ Api!FactsOfOne(d, f)' = Api!RequestSchemaRef(f)'
    BY <1>6 DEF Api!FactsOfOne
  <2>2. Api!RequestSchemaRef(f)' = Api!RequestSchemaRef(f)
    BY <1>0 DEF Api!RequestSchemaRef
  <2> QED
    BY <2>1, <2>2
<1>7. CASE d = "body_property"
  <2>1. Api!FactsOfOne(d, f) = Api!BodyProperty(f) /\ Api!FactsOfOne(d, f)' = Api!BodyProperty(f)'
    BY <1>7 DEF Api!FactsOfOne
  <2>2. Api!BodyProperty(f)' = Api!BodyProperty(f)
    BY <1>0 DEF Api!BodyProperty
  <2> QED
    BY <2>1, <2>2
<1>8. CASE d = "body_required"
  <2>1. Api!FactsOfOne(d, f) = Api!BodyRequired(f) /\ Api!FactsOfOne(d, f)' = Api!BodyRequired(f)'
    BY <1>8 DEF Api!FactsOfOne
  <2>2. Api!BodyRequired(f)' = Api!BodyRequired(f)
    BY <1>0 DEF Api!BodyRequired
  <2> QED
    BY <2>1, <2>2
<1>9. CASE d = "inline_property"
  <2>1. Api!FactsOfOne(d, f) = Api!InlineProperty(f) /\ Api!FactsOfOne(d, f)' = Api!InlineProperty(f)'
    BY <1>9 DEF Api!FactsOfOne
  <2>2. Api!InlineProperty(f)' = Api!InlineProperty(f)
    BY <1>0 DEF Api!InlineProperty
  <2> QED
    BY <2>1, <2>2
<1>10. CASE d = "inline_required"
  <2>1. Api!FactsOfOne(d, f) = Api!InlineRequired(f) /\ Api!FactsOfOne(d, f)' = Api!InlineRequired(f)'
    BY <1>10 DEF Api!FactsOfOne
  <2>2. Api!InlineRequired(f)' = Api!InlineRequired(f)
    BY <1>0 DEF Api!InlineRequired
  <2> QED
    BY <2>1, <2>2
<1>11. CASE d = "schema_name"
  <2>1. Api!FactsOfOne(d, f) = Api!SchemaName(f) /\ Api!FactsOfOne(d, f)' = Api!SchemaName(f)'
    BY <1>11 DEF Api!FactsOfOne
  <2>2. Api!SchemaName(f)' = Api!SchemaName(f)
    BY <1>0 DEF Api!SchemaName
  <2> QED
    BY <2>1, <2>2
<1>12. CASE d = "schema_property"
  <2>1. Api!FactsOfOne(d, f) = Api!SchemaProperty(f) /\ Api!FactsOfOne(d, f)' = Api!SchemaProperty(f)'
    BY <1>12 DEF Api!FactsOfOne
  <2>2. Api!SchemaProperty(f)' = Api!SchemaProperty(f)
    BY <1>0 DEF Api!SchemaProperty
  <2> QED
    BY <2>1, <2>2
<1>13. CASE d = "schema_required"
  <2>1. Api!FactsOfOne(d, f) = Api!SchemaRequired(f) /\ Api!FactsOfOne(d, f)' = Api!SchemaRequired(f)'
    BY <1>13 DEF Api!FactsOfOne
  <2>2. Api!SchemaRequired(f)' = Api!SchemaRequired(f)
    BY <1>0 DEF Api!SchemaRequired
  <2> QED
    BY <2>1, <2>2
<1>14. CASE d = "scheme_name"
  <2>1. Api!FactsOfOne(d, f) = Api!SchemeName(f) /\ Api!FactsOfOne(d, f)' = Api!SchemeName(f)'
    BY <1>14 DEF Api!FactsOfOne
  <2>2. Api!SchemeName(f)' = Api!SchemeName(f)
    BY <1>0 DEF Api!SchemeName
  <2> QED
    BY <2>1, <2>2
<1>15. CASE d = "operation_security"
  <2>1. Api!FactsOfOne(d, f) = Api!OperationSecurity(f) /\ Api!FactsOfOne(d, f)' = Api!OperationSecurity(f)'
    BY <1>15 DEF Api!FactsOfOne
  <2>2. Api!OperationSecurity(f)' = Api!OperationSecurity(f)
    BY <1>0 DEF Api!OperationSecurity
  <2> QED
    BY <2>1, <2>2
<1> QED
  BY <1>1, <1>2, <1>3, <1>4, <1>5, <1>6, <1>7, <1>8, <1>9, <1>10, <1>11, <1>12, <1>13, <1>14, <1>15 DEF Api!Single

\* So does a derivation of linked references.
LEMMA FactsOfTwoStay ==
  ASSUME UNCHANGED <<sources, claim>>, NEW d \in Api!Linked, NEW f, NEW g
  PROVE  Api!FactsOfTwo(d, f, g)' = Api!FactsOfTwo(d, f, g)
<1>0. /\ \A x : Api!Node(x)' = Api!Node(x) /\ Api!IsObject(x)' = Api!IsObject(x)
      /\ \A x, to : Api!In(x, to)' = Api!In(x, to)
      /\ Api!Own(g.at)' = Api!Own(g.at)
      /\ \A group : Api!AsksRequired(group)' = Api!AsksRequired(group)
      /\ Api!Marker(f)' = Api!Marker(f)
      /\ Api!SoleScheme(f)' = Api!SoleScheme(f)
      /\ \A prefix : Api!After(prefix)' = Api!After(prefix)
      /\ \A field : Api!Typed(field, f)' = Api!Typed(field, f)
      /\ \A name : Api!Flag(f, name)' = Api!Flag(f, name)
  BY PointersStay
<1>1. CASE d = "body_ref_property"
  <2>1. Api!FactsOfTwo(d, f, g) = Api!BodyRefProperty(f, g) /\ Api!FactsOfTwo(d, f, g)' = Api!BodyRefProperty(f, g)'
    BY <1>1 DEF Api!FactsOfTwo
  <2>2. Api!BodyRefProperty(f, g)' = Api!BodyRefProperty(f, g)
    BY <1>0 DEF Api!BodyRefProperty
  <2> QED
    BY <2>1, <2>2
<1>2. CASE d = "body_ref_required"
  <2>1. Api!FactsOfTwo(d, f, g) = Api!BodyRefRequired(f, g) /\ Api!FactsOfTwo(d, f, g)' = Api!BodyRefRequired(f, g)'
    BY <1>2 DEF Api!FactsOfTwo
  <2>2. Api!BodyRefRequired(f, g)' = Api!BodyRefRequired(f, g)
    BY <1>0 DEF Api!BodyRefRequired
  <2> QED
    BY <2>1, <2>2
<1>3. CASE d = "schema_ref_property"
  <2>1. Api!FactsOfTwo(d, f, g) = Api!SchemaRefProperty(f, g) /\ Api!FactsOfTwo(d, f, g)' = Api!SchemaRefProperty(f, g)'
    BY <1>3 DEF Api!FactsOfTwo
  <2>2. Api!SchemaRefProperty(f, g)' = Api!SchemaRefProperty(f, g)
    BY <1>0 DEF Api!SchemaRefProperty
  <2> QED
    BY <2>1, <2>2
<1>4. CASE d = "schema_ref_required"
  <2>1. Api!FactsOfTwo(d, f, g) = Api!SchemaRefRequired(f, g) /\ Api!FactsOfTwo(d, f, g)' = Api!SchemaRefRequired(f, g)'
    BY <1>4 DEF Api!FactsOfTwo
  <2>2. Api!SchemaRefRequired(f, g)' = Api!SchemaRefRequired(f, g)
    BY <1>0 DEF Api!SchemaRefRequired
  <2> QED
    BY <2>1, <2>2
<1>5. CASE d = "document_security"
  <2>1. Api!FactsOfTwo(d, f, g) = Api!DocumentSecurity(f, g) /\ Api!FactsOfTwo(d, f, g)' = Api!DocumentSecurity(f, g)'
    BY <1>5 DEF Api!FactsOfTwo
  <2>2. Api!DocumentSecurity(f, g)' = Api!DocumentSecurity(f, g)
    BY <1>0 DEF Api!DocumentSecurity
  <2> QED
    BY <2>1, <2>2
<1> QED
  BY <1>1, <1>2, <1>3, <1>4, <1>5 DEF Api!Linked

\* What the Core accepts, and the proposals there are, stay too.
LEMMA VerifiedStays ==
  ASSUME UNCHANGED <<sources, claim, cited>>
  PROVE  /\ UNCHANGED Api!AdapterProposals
         /\ \A p : Api!Verified(p)' <=> Api!Verified(p)
         /\ \A p : Api!SchemeOfAnother(p)' <=> Api!SchemeOfAnother(p)
<1>1. UNCHANGED Api!AdapterProposals
  BY DEF Api!AdapterProposals
<1>2. ASSUME NEW p PROVE Api!SchemeOfAnother(p)' <=> Api!SchemeOfAnother(p)
  BY DEF Api!SchemeOfAnother
<1>3. ASSUME NEW p PROVE Api!Verified(p)' <=> Api!Verified(p)
  <2> DEFINE fact == <<claim.path, claim.value>>
             f == p.fragments
             together == \A i \in DOMAIN f : f[i].artifact = f[1].artifact
  <2>0. fact' = fact
    OBVIOUS
  <2> HIDE DEF fact
  <2>1. CASE p.derivation \in Api!Single /\ Len(f) = 1
    <3>1. Api!FactsOfOne(p.derivation, f[1])' = Api!FactsOfOne(p.derivation, f[1])
      BY <2>1, FactsOfOneStay
    <3>2. Api!Verified(p) <=> together /\ fact \in Api!FactsOfOne(p.derivation, f[1])
      BY <2>1 DEF Api!Verified, fact
    <3>3. Api!Verified(p)' <=> together /\ fact' \in Api!FactsOfOne(p.derivation, f[1])'
      BY <2>1 DEF Api!Verified, fact
    <3> QED
      BY <2>0, <3>1, <3>2, <3>3
  <2>2. CASE p.derivation \in Api!Linked /\ Len(f) = 2
    <3>1. Api!FactsOfTwo(p.derivation, f[1], f[2])' = Api!FactsOfTwo(p.derivation, f[1], f[2])
      BY <2>2, FactsOfTwoStay
    <3>2. Api!Verified(p) <=> together /\ fact \in Api!FactsOfTwo(p.derivation, f[1], f[2])
      BY <2>2 DEF Api!Verified, fact
    <3>3. Api!Verified(p)' <=> together /\ fact' \in Api!FactsOfTwo(p.derivation, f[1], f[2])'
      BY <2>2 DEF Api!Verified, fact
    <3> QED
      BY <2>0, <3>1, <3>2, <3>3
  <2>3. CASE p.derivation = "two_hop" /\ Len(f) = 3
    <3>0. p.derivation \notin Api!Single /\ p.derivation \notin Api!Linked
      BY <2>3 DEF Api!Single, Api!Linked
    <3>1. Api!TwoHop(f[1], f[2], f[3])' = Api!TwoHop(f[1], f[2], f[3])
      BY PointersStay DEF Api!TwoHop
    <3>2. Api!Verified(p) <=> together /\ fact \in Api!TwoHop(f[1], f[2], f[3])
      BY <2>3, <3>0 DEF Api!Verified, fact
    <3>3. Api!Verified(p)' <=> together /\ fact' \in Api!TwoHop(f[1], f[2], f[3])'
      BY <2>3, <3>0 DEF Api!Verified, fact
    <3> QED
      BY <2>0, <3>1, <3>2, <3>3
  <2>4. CASE /\ ~(p.derivation \in Api!Single /\ Len(f) = 1)
             /\ ~(p.derivation \in Api!Linked /\ Len(f) = 2)
             /\ ~(p.derivation = "two_hop" /\ Len(f) = 3)
    BY <2>4 DEF Api!Verified
  <2> QED
    BY <2>1, <2>2, <2>3, <2>4
<1> QED
  BY <1>1, <1>2, <1>3

\* Where it raises, one reference is too short for any derivation, and it is not the only one.
LEMMA RaisingFindsNone ==
  ASSUME Referenced, Api!TwoHopRaises, NEW p \in Api!AdapterProposals,
         {p.fragments[i] : i \in DOMAIN p.fragments} = cited
  PROVE  ~Api!Verified(p)
<1> SUFFICES ASSUME Api!Verified(p) PROVE FALSE
  OBVIOUS
<1>1. PICK f \in cited, g \in cited, h \in cited :
        Api!IsShort(f.at) /\ g # h /\ Api!ItemHop(g.at) /\ Api!ItemHop(h.at)
  BY DEF Api!TwoHopRaises
<1>2. f # g /\ f # h
  BY <1>1 DEF Api!IsShort, Api!ItemHop
<1>3. CASE \E d \in Api!Single, x \in cited : p = Api!Proposal(d, <<x>>)
  <2>1. PICK x : p.fragments = <<x>>
    BY <1>3 DEF Api!Proposal
  <2>2. cited = {x}
    BY <2>1
  <2> QED
    BY <1>1, <2>2
<1>4. CASE \E d \in Api!Linked, x \in cited \X cited : p = Api!Proposal(d, x)
  <2>1. PICK x, y : p.fragments = <<x, y>>
    BY <1>4 DEF Api!Proposal
  <2>2. cited = {x, y}
    BY <2>1
  <2> QED
    BY <1>1, <1>2, <2>2
<1>5. CASE \E x \in cited \X cited \X cited : p = Api!Proposal("two_hop", x)
  <2>1. PICK x, y, z : p.derivation = "two_hop" /\ p.fragments = <<x, y, z>>
    BY <1>5 DEF Api!Proposal
  <2>2. cited = {x, y, z}
    BY <2>1
  <2>3. Api!TwoHop(x, y, z) # {}
    BY <2>1 DEF Api!Verified, Api!Single, Api!Linked
  <2>4. Api!ItemHop(y.at) /\ Api!ItemHop(z.at) /\ (Api!IsMember(x.at) \/ Api!IsSchema(x.at))
    BY <2>3 DEF Api!TwoHop
  <2>5. \A to : Api!ItemHop(to) \/ Api!IsMember(to) \/ Api!IsSchema(to) => ~Api!IsShort(to)
    <3> SUFFICES ASSUME NEW to, NEW n \in {2, 4, 6}, Len(to) = n, to[1] = "schemas"
                 PROVE  ~Api!IsShort(to)
      BY DEF Api!ItemHop, Api!IsMember, Api!IsProperty, Api!IsSchema
    <3>1. ~(n < 2)
      OBVIOUS
    <3>2. to[1] \in {"schemas", "securitySchemes"}
      OBVIOUS
    <3> QED
      BY <3>1, <3>2 DEF Api!IsShort
  <2> QED
    BY <1>1, <2>2, <2>4, <2>5
<1> QED
  BY <1>3, <1>4, <1>5 DEF Api!AdapterProposals

\* It holds before anything was proposed.
LEMMA DerivationStarts == Api!Init => DerivationInv
BY DEF Api!Init, DerivationInv, Referenced, Api!BridgeFindsDerivation

\* The bridge's step finds what there is; the others leave it as it was.
LEMMA DerivationKeeps == DerivationInv /\ [Api!Next]_Api!vars => DerivationInv'
<1> SUFFICES ASSUME DerivationInv, [Api!Next]_Api!vars PROVE DerivationInv'
  OBVIOUS
<1>1. CASE Api!Bridge
  <2>1. UNCHANGED <<sources, claim, cited>> /\ step' = "bridged"
    BY <1>1 DEF Api!Bridge
  <2>2. PICK P \in Api!Proposed : accepted' = {p \in P : Api!Verified(p)}
    BY <1>1 DEF Api!Bridge
  <2>3. Referenced'
    BY <2>1 DEF DerivationInv, Referenced, Api!In
  <2>4. ASSUME accepted' = {}, NEW p \in Api!AdapterProposals,
               {p.fragments[i] : i \in DOMAIN p.fragments} = cited
        PROVE  Api!SchemeOfAnother(p) \/ ~Api!Verified(p)
    BY <2>2, <2>4, BridgeFinds DEF DerivationInv
  <2>5. /\ UNCHANGED Api!AdapterProposals
        /\ \A p : (Api!Verified(p)' <=> Api!Verified(p)) /\ (Api!SchemeOfAnother(p)' <=> Api!SchemeOfAnother(p))
    BY <2>1, VerifiedStays
  <2>6. Api!BridgeFindsDerivation'
    BY <2>1, <2>4, <2>5 DEF Api!BridgeFindsDerivation
  <2> QED
    BY <2>1, <2>3, <2>6 DEF DerivationInv
<1>2. CASE Api!Adapter
  BY <1>2 DEF Api!Adapter, DerivationInv, Referenced, Api!In, Api!BridgeFindsDerivation
<1>3. CASE Api!BridgeRaises
  <2>1. UNCHANGED <<sources, claim, cited>> /\ step' = "raised" /\ Api!TwoHopRaises
    BY <1>3 DEF Api!BridgeRaises
  <2>2. Referenced'
    BY <2>1 DEF DerivationInv, Referenced, Api!In
  <2>3. ASSUME NEW p \in Api!AdapterProposals, {p.fragments[i] : i \in DOMAIN p.fragments} = cited
        PROVE  ~Api!Verified(p)
    BY <2>1, <2>3, RaisingFindsNone DEF DerivationInv
  <2>4. /\ UNCHANGED Api!AdapterProposals
        /\ \A p : (Api!Verified(p)' <=> Api!Verified(p)) /\ (Api!SchemeOfAnother(p)' <=> Api!SchemeOfAnother(p))
    BY <2>1, VerifiedStays
  <2>5. Api!BridgeFindsDerivation'
    BY <2>1, <2>3, <2>4 DEF Api!BridgeFindsDerivation
  <2> QED
    BY <2>1, <2>2, <2>5 DEF DerivationInv
<1>4. CASE UNCHANGED Api!vars
  <2>1. UNCHANGED <<sources, claim, cited, step, accepted>>
    BY <1>4 DEF Api!vars
  <2>2. Referenced'
    BY <2>1 DEF DerivationInv, Referenced, Api!In
  <2>3. /\ UNCHANGED Api!AdapterProposals
        /\ \A p : (Api!Verified(p)' <=> Api!Verified(p)) /\ (Api!SchemeOfAnother(p)' <=> Api!SchemeOfAnother(p))
    BY <2>1, VerifiedStays
  <2>4. Api!BridgeFindsDerivation'
    BY <2>1, <2>3 DEF Api!BridgeFindsDerivation, DerivationInv
  <2> QED
    BY <2>1, <2>2, <2>4 DEF DerivationInv
<1> QED
  BY <1>1, <1>2, <1>3, <1>4 DEF Api!Next

\* The references of an entry that the Core accepts together are found by the bridge, for
\* any documents, claims and citations.
THEOREM DerivationFound == MCSpec => []BridgeFindsDerivation
<1>1. MCInit /\ part = "derive" => DerivationInv
  BY DerivationStarts DEF MCInit
<1>2. DerivationInv /\ part = "derive" /\ [MCNext]_everything => (DerivationInv /\ part = "derive")'
  BY DerivationKeeps DEF MCNext, everything, derivation, Api!vars
<1>3. ~(part = "derive") /\ [MCNext]_everything => (~(part = "derive"))'
  BY DEF MCNext, everything
<1>4. (DerivationInv => BridgeFindsDerivation) /\ (~(part = "derive") => BridgeFindsDerivation)
  BY DEF DerivationInv, BridgeFindsDerivation
<1> QED
  BY <1>1, <1>2, <1>3, <1>4, PTL DEF MCSpec, everything

-----------------------------------------------------------------------------
(* What is derived holds.  A pointer says where a fact is by its segments, *)
(* the document by the steps of a field, from the claim's schema and       *)
(* through what it refers to: the two agree for every length of either, so *)
(* what each derivation yields is in the document where the field is.      *)

\* A set that has 0 and with every number its successor has all of them.
LEMMA SetInduction ==
  ASSUME NEW S, 0 \in S, \A n \in Nat : n \in S => n + 1 \in S
  PROVE  Nat \subseteq S
<1> SUFFICES ASSUME Nat \ S # {} PROVE FALSE
  OBVIOUS
<1>1. IsWellFoundedOn(OpToRel(<, Nat), Nat)
  BY NatLessThanWellFounded
<1>2. PICK x \in Nat \ S : \A y \in Nat \ S : ~(<<y, x>> \in OpToRel(<, Nat))
  <2> DEFINE R == OpToRel(<, Nat)
             T == Nat \ S
  <2>1. IsWellFoundedOn(R, Nat) /\ T \subseteq Nat /\ T # {}
    BY <1>1
  <2> HIDE DEF R, T
  <2>2. \E x \in T : \A y \in T : ~(<<y, x>> \in R)
    BY <2>1, WFMin
  <2> QED
    BY <2>2 DEF R, T
<1>3. x - 1 \in Nat \ S
  BY DEF OpToRel
<1>4. <<x - 1, x>> \in OpToRel(<, Nat)
  BY DEF OpToRel
<1> QED
  BY <1>2, <1>3, <1>4

\* A recursion from x: what the steps in G, one after the other, make of it.
Follows(r, L, G) == \A i \in 1..L : r[i] = G[i][r[i - 1]]
Recursion(r, V, x, L, G) == r \in [0..L -> V] /\ r[0] = x /\ Follows(r, L, G)
Steppers(G, V, L) == G \in [1..L -> [V -> V]]
Alike(r, q, L) == \A i \in 0..L : r[i] = q[i]
Lists(t, X, L) == t \in Seq(X) /\ L = Len(t)
PointersOf(V, X) == V = Seq(X \cup {"items", "properties"})
PlacesOf(V, a) == V = SUBSET DOMAIN sources[a]
\* Nothing but a pointer and a step: the provers need not know that it is a sequence.
Under(v, s) == v \o Api!Below(s)
Segments(b, V, t, L) ==
  b \in [0..L -> V] /\ b[0] = <<>> /\ \A i \in 1..L : b[i] = Under(b[i - 1], t[i])
Walk(b, V, a, starts, t, L) ==
  b \in [0..L -> V] /\ b[0] = starts /\ \A i \in 1..L : b[i] = Api!Step(a, b[i - 1], t[i])

\* What the first steps of a recursion yield, one after the other, exists.
LEMMA RecursionExists ==
  ASSUME NEW V, NEW x \in V, NEW L \in Nat, NEW G, Steppers(G, V, L)
  PROVE  \E r : Recursion(r, V, x, L, G)
<1> DEFINE Good(r, n) == r[0] = x /\ \A i \in 1..L : i =< n => r[i] = G[i][r[i - 1]]
           S == {n \in Nat : \E r \in [0..L -> V] : Good(r, n)}
<1>1. 0 \in S
  <2> DEFINE r == [i \in 0..L |-> x]
  <2>1. r \in [0..L -> V] /\ Good(r, 0)
    OBVIOUS
  <2> QED
    BY <2>1
<1>2. ASSUME NEW n \in Nat, n \in S PROVE n + 1 \in S
  <2>1. PICK r \in [0..L -> V] : Good(r, n)
    BY <1>2
  <2>2. CASE n + 1 > L
    BY <2>1, <2>2
  <2>3. CASE n + 1 =< L
    <3> DEFINE q == [r EXCEPT ![n + 1] = G[n + 1][r[n]]]
    <3>1. G[n + 1] \in [V -> V] /\ r[n] \in V /\ G[n + 1][r[n]] \in V
      BY <2>3 DEF Steppers
    <3>2. q \in [0..L -> V] /\ q[0] = x
      BY <2>1, <2>3, <3>1
    <3>3. ASSUME NEW i \in 1..L, i =< n + 1 PROVE q[i] = G[i][q[i - 1]]
      <4>1. q[i - 1] = r[i - 1]
        BY <2>3, <3>3
      <4>2. CASE i = n + 1
        BY <2>3, <4>1, <4>2
      <4>3. CASE i =< n
        BY <2>1, <2>3, <4>1, <4>3
      <4> QED
        BY <3>3, <4>2, <4>3
    <3>4. Good(q, n + 1)
      BY <3>2, <3>3
    <3> HIDE DEF q, Good
    <3> QED
      BY <3>2, <3>4
  <2> QED
    BY <2>2, <2>3
<1>3. L \in S
  <2> HIDE DEF S
  <2> QED
    BY <1>1, <1>2, SetInduction
<1> QED
  BY <1>3 DEF Recursion, Follows

\* The segments that steps stand for: those of the steps one after the other.
LEMMA StructuralYields ==
  ASSUME NEW X, NEW t, NEW L \in Nat, Lists(t, X, L), NEW V, PointersOf(V, X)
  PROVE  \E b : Segments(b, V, t, L) /\ Api!Structural(t) = b[L]
<1> DEFINE Def(b) == b = [i \in 0..L |-> IF i = 0 THEN <<>> ELSE Under(b[i - 1], t[i])]
           below == CHOOSE b : Def(b)
           G == [i \in 1..L |-> [v \in V |-> Under(v, t[i])]]
           nothing == <<>>
<1>1. Api!Structural(t) = below[L]
  BY DEF Api!Structural, Lists, Under
<1>2. ASSUME NEW s \in X, NEW v \in V PROVE Under(v, s) \in V
  <2>1. <<"items">> \in V /\ <<"properties", s>> \in V
    BY DEF PointersOf
  <2>2. Api!Below(s) \in V
    BY <2>1 DEF Api!Below
  <2> QED
    BY <2>2 DEF PointersOf, Under
<1>3. Steppers(G, V, L) /\ nothing \in V
  <2>1. nothing \in V /\ \A i \in 1..L : t[i] \in X
    BY DEF Lists, PointersOf
  <2> QED
    BY <1>2, <2>1 DEF Steppers
<1>4. \A i \in 1..L : \A v \in V : G[i][v] = Under(v, t[i])
  OBVIOUS
<1> HIDE DEF Def, below, G, nothing
<1>5. PICK b : Recursion(b, V, nothing, L, G)
  BY <1>3, RecursionExists
<1>6. b \in [0..L -> V] /\ b[0] = nothing /\ \A i \in 1..L : b[i] = G[i][b[i - 1]]
  BY <1>5 DEF Recursion, Follows
<1>7. \A i \in 1..L : b[i] = Under(b[i - 1], t[i])
  <2> SUFFICES ASSUME NEW i \in 1..L PROVE b[i] = Under(b[i - 1], t[i])
    OBVIOUS
  <2>1. i - 1 \in 0..L
    OBVIOUS
  <2>2. b[i - 1] \in V
    BY <1>6, <2>1
  <2> QED
    BY <1>4, <1>6, <2>2
<1>8. Def(b)
  <2>1. \A i \in 0..L : b[i] = IF i = 0 THEN <<>> ELSE Under(b[i - 1], t[i])
    <3>1. b[0] = <<>>
      BY <1>6 DEF nothing
    <3>2. \A i \in 0..L : i # 0 => i \in 1..L
      OBVIOUS
    <3> QED
      BY <1>7, <3>1, <3>2
  <2> QED
    BY <1>6, <2>1 DEF Def
<1>9. Def(below)
  BY <1>8 DEF below
<1>10. below = [i \in 0..L |-> IF i = 0 THEN <<>> ELSE Under(below[i - 1], t[i])]
  BY <1>9 DEF Def
<1>11. below[0] = <<>> /\ \A i \in 1..L : below[i] = Under(below[i - 1], t[i])
  <2>1. \A i \in 0..L : below[i] = IF i = 0 THEN <<>> ELSE Under(below[i - 1], t[i])
    BY <1>10
  <2>2. 0 \in 0..L /\ \A i \in 1..L : i \in 0..L /\ i # 0
    OBVIOUS
  <2> QED
    BY <2>1, <2>2
<1>12. below[L] = b[L]
  <2> DEFINE S == {n \in Nat : n =< L => below[n] = b[n]}
  <2>1. 0 \in S
    BY <1>6, <1>11 DEF nothing
  <2>2. ASSUME NEW n \in Nat, n \in S PROVE n + 1 \in S
    <3>1. CASE n + 1 =< L
      <4>1. below[n] = b[n] /\ n + 1 \in 1..L /\ n + 1 - 1 = n
        BY <2>2, <3>1
      <4>2. below[n + 1] = Under(below[n], t[n + 1]) /\ b[n + 1] = Under(b[n], t[n + 1])
        BY <1>7, <1>11, <4>1
      <4> QED
        BY <4>1, <4>2
    <3> QED
      BY <3>1
  <2>3. Nat \subseteq S
    <3> HIDE DEF S
    <3> QED
      BY <2>1, <2>2, SetInduction
  <2> QED
    BY <2>3
<1> QED
  BY <1>1, <1>6, <1>7, <1>12 DEF Segments, nothing

\* Where a walk through a document is after each of its steps.
LEMMA ReachedYields ==
  ASSUME NEW a, NEW X, NEW t, NEW L \in Nat, Lists(t, X, L), NEW V, PlacesOf(V, a), NEW starts \in V
  PROVE  \E b : Walk(b, V, a, starts, t, L) /\ Api!Reached(a, starts, t) = b[L]
<1> DEFINE Def(b) == b = [i \in 0..L |-> IF i = 0 THEN starts ELSE Api!Step(a, b[i - 1], t[i])]
           reached == CHOOSE b : Def(b)
           G == [i \in 1..L |-> [v \in V |-> Api!Step(a, v, t[i])]]
<1>1. Api!Reached(a, starts, t) = reached[L]
  BY DEF Api!Reached, Lists
<1>2. \A v, s : Api!Step(a, v, s) \in V
  BY DEF Api!Step, PlacesOf
<1>3. Steppers(G, V, L)
  BY <1>2 DEF Steppers
<1>4. \A i \in 1..L : \A v \in V : G[i][v] = Api!Step(a, v, t[i])
  OBVIOUS
<1> HIDE DEF Def, reached, G
<1>5. PICK b : Recursion(b, V, starts, L, G)
  BY <1>3, RecursionExists
<1>6. b \in [0..L -> V] /\ b[0] = starts /\ \A i \in 1..L : b[i] = G[i][b[i - 1]]
  BY <1>5 DEF Recursion, Follows
<1>7. \A i \in 1..L : b[i] = Api!Step(a, b[i - 1], t[i])
  <2> SUFFICES ASSUME NEW i \in 1..L PROVE b[i] = Api!Step(a, b[i - 1], t[i])
    OBVIOUS
  <2>1. i - 1 \in 0..L
    OBVIOUS
  <2>2. b[i - 1] \in V
    BY <1>6, <2>1
  <2> QED
    BY <1>4, <1>6, <2>2
<1>8. Def(b)
  <2>1. \A i \in 0..L : b[i] = IF i = 0 THEN starts ELSE Api!Step(a, b[i - 1], t[i])
    <3>2. \A i \in 0..L : i # 0 => i \in 1..L
      OBVIOUS
    <3> QED
      BY <1>6, <1>7, <3>2
  <2> QED
    BY <1>6, <2>1 DEF Def
<1>9. Def(reached)
  BY <1>8 DEF reached
<1>10. reached = [i \in 0..L |-> IF i = 0 THEN starts ELSE Api!Step(a, reached[i - 1], t[i])]
  BY <1>9 DEF Def
<1>11. reached[0] = starts /\ \A i \in 1..L : reached[i] = Api!Step(a, reached[i - 1], t[i])
  <2>1. \A i \in 0..L : reached[i] = IF i = 0 THEN starts ELSE Api!Step(a, reached[i - 1], t[i])
    BY <1>10
  <2>2. 0 \in 0..L /\ \A i \in 1..L : i \in 0..L /\ i # 0
    OBVIOUS
  <2> QED
    BY <2>1, <2>2
<1>12. reached[L] = b[L]
  <2> DEFINE S == {n \in Nat : n =< L => reached[n] = b[n]}
  <2>1. 0 \in S
    BY <1>6, <1>11
  <2>2. ASSUME NEW n \in Nat, n \in S PROVE n + 1 \in S
    <3>1. CASE n + 1 =< L
      <4>1. reached[n] = b[n] /\ n + 1 \in 1..L /\ n + 1 - 1 = n
        BY <2>2, <3>1
      <4>2. reached[n + 1] = Api!Step(a, reached[n], t[n + 1]) /\ b[n + 1] = Api!Step(a, b[n], t[n + 1])
        BY <1>7, <1>11, <4>1
      <4> QED
        BY <4>1, <4>2
    <3> QED
      BY <3>1
  <2>3. Nat \subseteq S
    <3> HIDE DEF S
    <3> QED
      BY <2>1, <2>2, SetInduction
  <2> QED
    BY <2>3
<1> QED
  BY <1>1, <1>6, <1>7, <1>12 DEF Walk

\* With one more step, the segments of that step come after.
LEMMA StructuralGrows ==
  ASSUME NEW X, NEW t, NEW u, NEW L \in Nat, Lists(t, X, L), Lists(u, X, L + 1),
         \A i \in 1..L : u[i] = t[i], NEW V, PointersOf(V, X)
  PROVE  Api!Structural(t) \in V /\ Api!Structural(u) = Under(Api!Structural(t), u[L + 1])
<1>1. PICK b : Segments(b, V, t, L) /\ Api!Structural(t) = b[L]
  BY StructuralYields
<1>2. PICK c : Segments(c, V, u, L + 1) /\ Api!Structural(u) = c[L + 1]
  <2>1. L + 1 \in Nat
    OBVIOUS
  <2> QED
    BY <2>1, StructuralYields
<1>3. b[0] = c[0] /\ (\A i \in 1..L : b[i] = Under(b[i - 1], t[i]))
      /\ (\A i \in 1..L + 1 : c[i] = Under(c[i - 1], u[i])) /\ b[L] \in V
  BY <1>1, <1>2 DEF Segments
<1>4. \A i \in 1..L : c[i] = Under(c[i - 1], t[i])
  <2>1. \A i \in 1..L : i \in 1..L + 1
    OBVIOUS
  <2> QED
    BY <1>3, <2>1
<1>5. b[L] = c[L]
  <2> DEFINE S == {n \in Nat : n =< L => b[n] = c[n]}
  <2>1. 0 \in S
    BY <1>3
  <2>2. ASSUME NEW n \in Nat, n \in S PROVE n + 1 \in S
    <3>1. CASE n + 1 =< L
      <4>1. b[n] = c[n] /\ n + 1 \in 1..L /\ n + 1 - 1 = n
        BY <2>2, <3>1
      <4>2. b[n + 1] = Under(b[n], t[n + 1]) /\ c[n + 1] = Under(c[n], t[n + 1])
        BY <1>3, <1>4, <4>1
      <4> QED
        BY <4>1, <4>2
    <3> QED
      BY <3>1
  <2>3. Nat \subseteq S
    <3> HIDE DEF S
    <3> QED
      BY <2>1, <2>2, SetInduction
  <2> QED
    BY <2>3
<1>6. c[L + 1] = Under(c[L], u[L + 1])
  <2>1. L + 1 \in 1..L + 1 /\ L + 1 - 1 = L
    OBVIOUS
  <2> QED
    BY <1>3, <2>1
<1> QED
  BY <1>1, <1>2, <1>3, <1>5, <1>6

\* With one more step, a walk is one step further.
LEMMA ReachedGrows ==
  ASSUME NEW a, NEW X, NEW t, NEW u, NEW L \in Nat, Lists(t, X, L), Lists(u, X, L + 1),
         \A i \in 1..L : u[i] = t[i], NEW V, PlacesOf(V, a), NEW starts \in V
  PROVE  Api!Reached(a, starts, u) = Api!Step(a, Api!Reached(a, starts, t), u[L + 1])
<1>1. PICK b : Walk(b, V, a, starts, t, L) /\ Api!Reached(a, starts, t) = b[L]
  BY ReachedYields
<1>2. PICK c : Walk(c, V, a, starts, u, L + 1) /\ Api!Reached(a, starts, u) = c[L + 1]
  <2>1. L + 1 \in Nat
    OBVIOUS
  <2> QED
    BY <2>1, ReachedYields
<1>3. b[0] = c[0] /\ (\A i \in 1..L : b[i] = Api!Step(a, b[i - 1], t[i]))
      /\ (\A i \in 1..L + 1 : c[i] = Api!Step(a, c[i - 1], u[i])) /\ b[L] \in V
  BY <1>1, <1>2 DEF Walk
<1>4. \A i \in 1..L : c[i] = Api!Step(a, c[i - 1], t[i])
  <2>1. \A i \in 1..L : i \in 1..L + 1
    OBVIOUS
  <2> QED
    BY <1>3, <2>1
<1>5. b[L] = c[L]
  <2> DEFINE S == {n \in Nat : n =< L => b[n] = c[n]}
  <2>1. 0 \in S
    BY <1>3
  <2>2. ASSUME NEW n \in Nat, n \in S PROVE n + 1 \in S
    <3>1. CASE n + 1 =< L
      <4>1. b[n] = c[n] /\ n + 1 \in 1..L /\ n + 1 - 1 = n
        BY <2>2, <3>1
      <4>2. b[n + 1] = Api!Step(a, b[n], t[n + 1]) /\ c[n + 1] = Api!Step(a, c[n], t[n + 1])
        BY <1>3, <1>4, <4>1
      <4> QED
        BY <4>1, <4>2
    <3> QED
      BY <3>1
  <2>3. Nat \subseteq S
    <3> HIDE DEF S
    <3> QED
      BY <2>1, <2>2, SetInduction
  <2> QED
    BY <2>3
<1>6. c[L + 1] = Api!Step(a, c[L], u[L + 1])
  <2>1. L + 1 \in 1..L + 1 /\ L + 1 - 1 = L
    OBVIOUS
  <2> QED
    BY <1>3, <2>1
<1> QED
  BY <1>1, <1>2, <1>5, <1>6

\* No step stands for no segment, and leads nowhere.
LEMMA NoSteps ==
  /\ Api!Structural(<<>>) = <<>>
  /\ \A a, starts : starts \subseteq DOMAIN sources[a] => Api!Reached(a, starts, <<>>) = starts
<1> DEFINE nothing == <<>>
           V == Seq({} \cup {"items", "properties"})
<1>1. Lists(nothing, {}, 0) /\ PointersOf(V, {})
  BY DEF Lists, PointersOf
<1>2. Api!Structural(nothing) = <<>>
  <2> HIDE DEF nothing, V
  <2>1. PICK b : Segments(b, V, nothing, 0) /\ Api!Structural(nothing) = b[0]
    BY <1>1, StructuralYields
  <2> QED
    BY <2>1 DEF Segments
<1>3. ASSUME NEW a, NEW starts, starts \subseteq DOMAIN sources[a]
      PROVE  Api!Reached(a, starts, nothing) = starts
  <2> DEFINE W == SUBSET DOMAIN sources[a]
  <2>1. PlacesOf(W, a) /\ starts \in W
    BY <1>3 DEF PlacesOf
  <2> HIDE DEF nothing, W
  <2>2. PICK b : Walk(b, W, a, starts, nothing, 0) /\ Api!Reached(a, starts, nothing) = b[0]
    BY <1>1, <2>1, ReachedYields
  <2> QED
    BY <2>2 DEF Walk
<1> QED
  BY <1>2, <1>3

\* The same for a sequence and what is appended to it.
LEMMA OneMoreStep ==
  ASSUME NEW X, NEW t \in Seq(X), NEW s \in X
  PROVE  /\ Api!Structural(t) \in Seq(X \cup {"items", "properties"})
         /\ Api!Structural(Append(t, s)) = Api!Structural(t) \o Api!Below(s)
         /\ \A a, starts : starts \subseteq DOMAIN sources[a] =>
              Api!Reached(a, starts, Append(t, s)) = Api!Step(a, Api!Reached(a, starts, t), s)
<1> DEFINE L == Len(t)
           u == Append(t, s)
           V == Seq(X \cup {"items", "properties"})
<1>1. /\ L \in Nat /\ Lists(t, X, L) /\ Lists(u, X, L + 1) /\ PointersOf(V, X)
      /\ \A i \in 1..L : u[i] = t[i]
      /\ u[L + 1] = s
  BY DEF Lists, PointersOf
<1> HIDE DEF L, u, V
<1>2. Api!Structural(t) \in V /\ Api!Structural(u) = Under(Api!Structural(t), s)
  BY <1>1, StructuralGrows
<1>3. ASSUME NEW a, NEW starts, starts \subseteq DOMAIN sources[a]
      PROVE  Api!Reached(a, starts, u) = Api!Step(a, Api!Reached(a, starts, t), s)
  <2> DEFINE W == SUBSET DOMAIN sources[a]
  <2>1. PlacesOf(W, a) /\ starts \in W
    BY <1>3 DEF PlacesOf
  <2> HIDE DEF W
  <2> QED
    BY <1>1, <2>1, ReachedGrows
<1> QED
  BY <1>2, <1>3 DEF u, V, Under

\* A step from what a place means, where the document has one, is a step of the walk.
LEMMA StepInto ==
  ASSUME NEW a, NEW starts, starts \subseteq DOMAIN sources[a], NEW X, NEW pre \in Seq(X), NEW s \in X,
         NEW there \in Api!Reached(a, starts, pre), NEW to \in Api!Meant(a, there),
         to \o Api!Below(s) \in DOMAIN sources[a]
  PROVE  to \o Api!Below(s) \in Api!Reached(a, starts, Append(pre, s))
<1>1. Api!Reached(a, starts, Append(pre, s)) = Api!Step(a, Api!Reached(a, starts, pre), s)
  BY OneMoreStep
<1>2. to \in UNION {Api!Meant(a, x) : x \in Api!Reached(a, starts, pre)}
  OBVIOUS
<1> QED
  BY <1>1, <1>2 DEF Api!Step

\* What holds something in a document is in the document too.
Closed(a) ==
  \A to \in DOMAIN sources[a] :
    to \in Seq(STRING) /\ \A n \in 1..Len(to) : SubSeq(to, 1, n) \in DOMAIN sources[a]

\* The segments of a pointer are its first ones and those of what it goes on with.
LEMMA GoesOn ==
  ASSUME NEW Y, NEW p \in Seq(Y), NEW q \in Seq(Y), NEW r \in Seq(Y), p # <<>>
  PROVE  /\ p \o (q \o r) = (p \o q) \o r
         /\ p \o q = SubSeq(p \o (q \o r), 1, Len(p \o q))
         /\ Len(p \o q) \in 1..Len(p \o (q \o r))
OBVIOUS

\* What is appended comes after what was put before.
LEMMA AppendedAfter ==
  ASSUME NEW X, NEW p \in Seq(X), NEW q \in Seq(X), NEW s \in X
  PROVE  p \o q \in Seq(X) /\ p \o Append(q, s) = Append(p \o q, s)
OBVIOUS

\* Where a document has the pointer that steps stand for, its place is what they lead to.
LEMMA WalkReaches ==
  ASSUME NEW a, Closed(a), NEW starts, starts \subseteq DOMAIN sources[a], NEW X, NEW pre \in Seq(X),
         NEW there \in Api!Reached(a, starts, pre), there \in Seq(X), there # <<>>,
         NEW rest \in Seq(X), there \o Api!Structural(rest) \in DOMAIN sources[a]
  PROVE  there \o Api!Structural(rest) \in Api!Reached(a, starts, pre \o rest)
<1> DEFINE Leads(t) == there \o Api!Structural(t) \in DOMAIN sources[a] =>
                         there \o Api!Structural(t) \in Api!Reached(a, starts, pre \o t)
           S == {n \in Nat : \A t \in Seq(X) : Len(t) = n => Leads(t)}
           Y == X \cup {"items", "properties"}
<1>1. 0 \in S
  <2>1. there \o Api!Structural(<<>>) = there /\ pre \o <<>> = pre
    BY NoSteps
  <2>2. Leads(<<>>)
    BY <2>1
  <2>3. \A t \in Seq(X) : Len(t) = 0 => t = <<>>
    OBVIOUS
  <2> HIDE DEF Leads
  <2> QED
    BY <2>2, <2>3
<1>2. ASSUME NEW n \in Nat, n \in S PROVE n + 1 \in S
  <2> SUFFICES ASSUME NEW t \in Seq(X), Len(t) = n + 1 PROVE Leads(t)
    OBVIOUS
  <2> DEFINE front == SubSeq(t, 1, n)
             s == t[n + 1]
             here == there \o Api!Structural(front)
  <2>1. front \in Seq(X) /\ Len(front) = n /\ s \in X /\ t = Append(front, s)
    OBVIOUS
  <2>2. pre \o front \in Seq(X) /\ pre \o t = Append(pre \o front, s)
    <3> HIDE DEF front, s
    <3> QED
      BY <2>1, AppendedAfter
  <2> HIDE DEF front, s
  <2>3. Api!Structural(front) \in Seq(Y) /\ Api!Structural(t) = Api!Structural(front) \o Api!Below(s)
    BY <2>1, OneMoreStep
  <2>4. Api!Below(s) \in Seq(Y) /\ there \in Seq(Y)
    <3>1. <<"items">> \in Seq(Y) /\ <<"properties", s>> \in Seq(Y) /\ there \in Seq(Y)
      BY <2>1
    <3> QED
      BY <3>1 DEF Api!Below
  <2> HIDE DEF Y
  <2>5. /\ there \o Api!Structural(t) = here \o Api!Below(s)
        /\ here = SubSeq(there \o Api!Structural(t), 1, Len(here))
        /\ Len(here) \in 1..Len(there \o Api!Structural(t))
    <3> DEFINE q == Api!Structural(front)
               r == Api!Below(s)
    <3>1. q \in Seq(Y) /\ r \in Seq(Y) /\ there \in Seq(Y) /\ there # <<>>
      BY <2>3, <2>4
    <3> HIDE DEF q, r
    <3>2. /\ there \o (q \o r) = (there \o q) \o r
          /\ there \o q = SubSeq(there \o (q \o r), 1, Len(there \o q))
          /\ Len(there \o q) \in 1..Len(there \o (q \o r))
      BY <3>1, GoesOn
    <3> QED
      BY <2>3, <3>2 DEF q, r
  <2>6. SUFFICES ASSUME there \o Api!Structural(t) \in DOMAIN sources[a]
                 PROVE  there \o Api!Structural(t) \in Api!Reached(a, starts, pre \o t)
    OBVIOUS
  <2>7. here \in DOMAIN sources[a]
    BY <2>5, <2>6 DEF Closed
  <2>8. here \in Api!Reached(a, starts, pre \o front)
    BY <1>2, <2>1, <2>7
  <2> HIDE DEF here
  <2>9. here \in Api!Meant(a, here)
    BY DEF Api!Meant
  <2>10. here \o Api!Below(s) \in Api!Reached(a, starts, Append(pre \o front, s))
    BY <2>1, <2>2, <2>5, <2>6, <2>8, <2>9, StepInto
  <2> QED
    BY <2>2, <2>5, <2>10
<1>3. Nat \subseteq S
  <2> HIDE DEF S
  <2> QED
    BY <1>1, <1>2, SetInduction
<1>4. Len(rest) \in Nat
  OBVIOUS
<1> HIDE DEF Leads
<1>5. Leads(rest)
  BY <1>3, <1>4
<1> QED
  BY <1>5 DEF Leads

\* Where the steps of a field lead from the claim's schema, and what is referred to there.
Open(a, pre) == UNION {Api!Meant(a, x) : x \in Api!Reached(a, Api!Roots(a), pre)}

\* The fields of a claim start in the document.
LEMMA RootsWithin == \A a : Api!Roots(a) \subseteq DOMAIN sources[a]
BY DEF Api!Roots

\* A reference is in a document that has what it is in.
LEMMA ClosedDocument ==
  ASSUME Referenced, NEW f \in cited
  PROVE  Closed(f.artifact) /\ f.at \in DOMAIN sources[f.artifact]
<1>1. f.artifact \in DOMAIN sources /\ f.at \in DOMAIN sources[f.artifact]
  BY ClaimsAssumption DEF Referenced, Api!CitationsStated, Api!In
<1> QED
  BY <1>1, ClaimsAssumption DEF Referenced, Api!DocumentsStated, Closed

\* A root is reached by no step.
LEMMA RootOpen ==
  ASSUME NEW a, NEW root \in Api!Roots(a)
  PROVE  root \in Api!Reached(a, Api!Roots(a), <<>>) /\ root \in Open(a, <<>>)
<1>1. root \in Api!Reached(a, Api!Roots(a), <<>>)
  BY NoSteps, RootsWithin
<1> QED
  BY <1>1 DEF Open, Api!Meant

\* One step from there.
LEMMA OpenStep ==
  ASSUME NEW a, NEW pre \in Seq(Steps), NEW s \in Steps, NEW to \in Open(a, pre),
         to \o Api!Below(s) \in DOMAIN sources[a]
  PROVE  to \o Api!Below(s) \in Api!Reached(a, Api!Roots(a), Append(pre, s))
<1>1. PICK there \in Api!Reached(a, Api!Roots(a), pre) : to \in Api!Meant(a, there)
  BY DEF Open
<1> QED
  BY <1>1, RootsWithin, StepInto

\* Sequences written out.
LEMMA SequenceOfTwo ==
  ASSUME NEW S, NEW s \in Seq(S), Len(s) = 2, NEW x \in S, NEW y \in S, s[1] = x, s[2] = y
  PROVE  s = <<x, y>>
<1> DEFINE t == <<x, y>>
<1>1. t \in Seq(S) /\ Len(t) = 2 /\ t[1] = x /\ t[2] = y
  OBVIOUS
<1>2. \A j \in 1..2 : j = 1 \/ j = 2
  OBVIOUS
<1> HIDE DEF t
<1>3. \A j \in 1..Len(s) : s[j] = t[j]
  BY <1>1, <1>2
<1> QED
  BY <1>1, <1>3, SeqEqual DEF t

\* The same for four elements.
LEMMA SequenceOfFour ==
  ASSUME NEW S, NEW s \in Seq(S), Len(s) = 4, NEW x \in S, NEW y \in S, NEW z \in S, NEW w \in S,
         s[1] = x, s[2] = y, s[3] = z, s[4] = w
  PROVE  s = <<x, y>> \o <<z, w>>
<1> DEFINE t == <<x, y>> \o <<z, w>>
<1>1. t \in Seq(S) /\ Len(t) = 4 /\ t[1] = x /\ t[2] = y /\ t[3] = z /\ t[4] = w
  OBVIOUS
<1>2. \A j \in 1..4 : j = 1 \/ j = 2 \/ j = 3 \/ j = 4
  OBVIOUS
<1> HIDE DEF t
<1>3. \A j \in 1..Len(s) : s[j] = t[j]
  BY <1>1, <1>2
<1> QED
  BY <1>1, <1>3, SeqEqual DEF t

\* The segments of a property of a component schema, and of its items.
LEMMA PropertySegments ==
  ASSUME NEW to \in Seq(STRING), Len(to) >= 4, to[1] = "schemas", to[3] = "properties", to[4] # "[]"
  PROVE  /\ SubSeq(to, 1, 4) = <<"schemas", to[2]>> \o Api!Below(to[4])
         /\ SubSeq(to, 1, 2) = <<"schemas", to[2]>>
         /\ Len(to) = 4 => to = SubSeq(to, 1, 4)
         /\ Len(to) >= 5 /\ to[5] = "items" => SubSeq(to, 1, 5) = SubSeq(to, 1, 4) \o Api!Below("[]")
         /\ Len(to) = 5 /\ to[5] = "$ref" => to = Append(SubSeq(to, 1, 4), "$ref")
         /\ Len(to) = 6 /\ to[6] = "$ref" => to = Append(SubSeq(to, 1, 5), "$ref")
<1>1. Api!Below(to[4]) = <<"properties", to[4]>> /\ Api!Below("[]") = <<"items">>
  BY DEF Api!Below
<1>2. SubSeq(to, 1, 4) = <<"schemas", to[2]>> \o <<"properties", to[4]>>
  <2> DEFINE first == SubSeq(to, 1, 4)
  <2>1. /\ first \in Seq(STRING) /\ Len(first) = 4 /\ first[1] = "schemas" /\ first[2] = to[2]
        /\ first[3] = "properties" /\ first[4] = to[4]
    OBVIOUS
  <2>2. to[2] \in STRING /\ to[4] \in STRING /\ "schemas" \in STRING /\ "properties" \in STRING
    BY <2>1
  <2> HIDE DEF first
  <2> QED
    BY <2>1, <2>2, SequenceOfFour DEF first
<1>3. SubSeq(to, 1, 2) = <<"schemas", to[2]>>
  <2> DEFINE first == SubSeq(to, 1, 2)
  <2>1. first \in Seq(STRING) /\ Len(first) = 2 /\ first[1] = "schemas" /\ first[2] = to[2]
    OBVIOUS
  <2>2. to[2] \in STRING /\ "schemas" \in STRING
    BY <2>1
  <2> HIDE DEF first
  <2> QED
    BY <2>1, <2>2, SequenceOfTwo DEF first
<1>4. Len(to) = 4 => to = SubSeq(to, 1, 4)
  OBVIOUS
<1>5. Len(to) >= 5 /\ to[5] = "items" => SubSeq(to, 1, 5) = SubSeq(to, 1, 4) \o <<"items">>
  OBVIOUS
<1>6. Len(to) = 5 /\ to[5] = "$ref" => to = Append(SubSeq(to, 1, 4), "$ref")
  OBVIOUS
<1>7. Len(to) = 6 /\ to[6] = "$ref" => to = Append(SubSeq(to, 1, 5), "$ref")
  OBVIOUS
<1> QED
  BY <1>1, <1>2, <1>3, <1>4, <1>5, <1>6, <1>7

\* A property of a schema that is open is reached by its name.
LEMMA PropertyReached ==
  ASSUME Referenced, NEW a, Closed(a), NEW to \in DOMAIN sources[a], to \in Seq(STRING), Len(to) >= 4,
         to[1] = "schemas", to[3] = "properties", to[4] # "[]", NEW pre \in Seq(Steps),
         <<"schemas", to[2]>> \in Open(a, pre)
  PROVE  /\ to[4] \in Steps /\ SubSeq(to, 1, 4) \in DOMAIN sources[a]
         /\ SubSeq(to, 1, 4) \in Api!Reached(a, Api!Roots(a), Append(pre, to[4]))
<1>1. SubSeq(to, 1, 4) \in DOMAIN sources[a]
  BY DEF Closed
<1>2. to[4] \in Steps
  BY DEF Steps
<1>3. SubSeq(to, 1, 4) = <<"schemas", to[2]>> \o Api!Below(to[4])
  BY PropertySegments
<1> QED
  BY <1>1, <1>2, <1>3, OpenStep

\* The schema that a reference is to is open where the schema it is in is, after the name
\* of the property that has it.
LEMMA HopOpens ==
  ASSUME Referenced, NEW g \in cited, Api!Hop(g.at), NEW pre \in Seq(Steps),
         <<"schemas", g.at[2]>> \in Open(g.artifact, pre)
  PROVE  <<"schemas", Api!Node(g).to>> \in Open(g.artifact, pre \o Api!HopPrefix(g.at))
<1> DEFINE a == g.artifact
           to == g.at
           here == SubSeq(to, 1, 4)
           items == SubSeq(to, 1, 5)
<1>1. /\ Closed(a) /\ to \in DOMAIN sources[a] /\ to \in Seq(STRING) /\ Len(to) \in {5, 6}
      /\ to[1] = "schemas" /\ to[3] = "properties" /\ to[4] # "[]"
  BY ClosedDocument, PointersAreNames, HopPrefixes DEF Api!Hop, Api!ItemHop, Api!DirectHop
<1>2. to[4] \in Steps /\ here \in Api!Reached(a, Api!Roots(a), Append(pre, to[4]))
  BY <1>1, PropertyReached
<1>3. ASSUME NEW q, NEW there \in Api!Reached(a, Api!Roots(a), q), to = Append(there, "$ref")
      PROVE  <<"schemas", Api!Node(g).to>> \in Open(a, q)
  <2>1. Append(there, "$ref") \in {Append(there, "$ref")} \cap DOMAIN sources[a]
    BY <1>1, <1>3
  <2>2. <<"schemas", sources[a][Append(there, "$ref")].to>> \in Api!Meant(a, there)
    BY <2>1 DEF Api!Meant
  <2>3. Api!Node(g).to = sources[a][Append(there, "$ref")].to
    BY <1>3 DEF Api!Node
  <2> HIDE DEF a, to
  <2> QED
    BY <2>2, <2>3 DEF Open
<1>4. CASE ~Api!ItemHop(to)
  <2>1. Len(to) = 5 /\ to[5] = "$ref" /\ Api!HopPrefix(to) = <<to[4]>>
    BY <1>4, HopPrefixes DEF Api!Hop, Api!DirectHop
  <2>2. to = Append(here, "$ref")
    BY <1>1, <2>1, PropertySegments
  <2>3. Append(pre, to[4]) = pre \o <<to[4]>>
    BY <1>2
  <2> HIDE DEF a, to, here
  <2> QED
    BY <1>2, <1>3, <2>1, <2>2, <2>3 DEF a, to
<1>5. CASE Api!ItemHop(to)
  <2>1. Len(to) = 6 /\ to[5] = "items" /\ to[6] = "$ref" /\ Api!HopPrefix(to) = <<to[4], "[]">>
    BY <1>5, HopPrefixes DEF Api!ItemHop
  <2>2. to = Append(items, "$ref") /\ items = here \o Api!Below("[]")
    <3>1. /\ SubSeq(to, 1, 5) = SubSeq(to, 1, 4) \o Api!Below("[]")
          /\ to = Append(SubSeq(to, 1, 5), "$ref")
      <4> HIDE DEF a, to
      <4>1. Len(to) >= 4 /\ Len(to) >= 5
        BY <2>1
      <4> QED
        BY <1>1, <2>1, <4>1, PropertySegments
    <3> QED
      BY <3>1
  <2>3. items \in DOMAIN sources[a]
    BY <1>1, <2>1 DEF Closed
  <2>4. Append(pre, to[4]) \in Seq(Steps) /\ "[]" \in Steps
    BY <1>2 DEF Steps
  <2>5. here \in Api!Meant(a, here)
    BY DEF Api!Meant
  <2>6. items \in Api!Reached(a, Api!Roots(a), Append(Append(pre, to[4]), "[]"))
    <3> HIDE DEF a, to, here, items
    <3> QED
      BY <1>2, <2>2, <2>3, <2>4, <2>5, RootsWithin, StepInto
  <2>7. Append(Append(pre, to[4]), "[]") = pre \o <<to[4], "[]">>
    BY <1>2, <2>4
  <2> HIDE DEF a, to, here, items
  <2> QED
    BY <1>3, <2>1, <2>2, <2>6, <2>7 DEF a, to
<1> QED
  BY <1>4, <1>5

\* The name of a field is that of a place where its steps lead, marked where it is an array.
LEMMA PlaceFound ==
  ASSUME NEW a, NEW steps \in Seq(Steps), steps # <<>>,
         NEW there \in Api!Reached(a, Api!Roots(a), steps)
  PROVE  /\ Api!IsArray(a, there) => there \in Api!Places(a, Append(steps, "[]"))
         /\ ~Api!IsArray(a, there) => there \in Api!Places(a, steps)
<1>1. CASE Api!IsArray(a, there)
  <2> DEFINE field == Append(steps, "[]")
  <2>1. field \in Seq(Steps) /\ Len(field) = Len(steps) + 1 /\ field[Len(field)] = "[]"
        /\ SubSeq(field, 1, Len(field) - 1) = steps
    <3>1. "[]" \in Steps
      BY DEF Steps
    <3> QED
      BY <3>1
  <2>2. Api!IsArrayName(field) /\ Api!Bare(field) = steps
    BY <2>1 DEF Api!IsArrayName, Api!Bare, Api!Last, Api!Front
  <2> HIDE DEF field
  <2>3. Api!IsArray(a, there) = Api!IsArrayName(field)
    BY <1>1, <2>2 DEF Api!IsArray, Api!IsArrayName
  <2>4. there \in Api!Places(a, field)
    BY <2>2, <2>3 DEF Api!Places
  <2> QED
    BY <1>1, <2>4 DEF field
<1>2. CASE ~Api!IsArray(a, there)
  <2>1. CASE Api!IsArrayName(steps)
    BY <1>2, <2>1 DEF Api!Places
  <2>2. CASE ~Api!IsArrayName(steps)
    <3>1. Api!Bare(steps) = steps
      BY <2>2 DEF Api!Bare
    <3>2. Api!IsArray(a, there) = Api!IsArrayName(steps)
      BY <1>2, <2>2 DEF Api!IsArray, Api!IsArrayName
    <3> QED
      BY <1>2, <3>1, <3>2 DEF Api!Places
  <2> QED
    BY <2>1, <2>2
<1> QED
  BY <1>1, <1>2

\* The parts of a field whose last step but the mark is a name.
LEMMA BareField ==
  ASSUME NEW base \in Seq(Steps), NEW q \in Steps, q # "[]",
         NEW field \in {Append(base, q), Append(Append(base, q), "[]")}
  PROVE  /\ Api!Bare(field) = Append(base, q)
         /\ Api!Last(Api!Bare(field)) = q /\ Api!Front(Api!Bare(field)) = base
<1> DEFINE bare == Append(base, q)
<1>1. bare \in Seq(Steps) /\ Len(bare) = Len(base) + 1 /\ bare[Len(bare)] = q
      /\ SubSeq(bare, 1, Len(bare) - 1) = base
  OBVIOUS
<1> HIDE DEF bare
<1>2. "[]" \in Steps
  BY DEF Steps
<1>3. CASE field = bare
  <2>1. Api!Bare(field) = bare
    BY <1>1, <1>3 DEF Api!Bare, Api!IsArrayName, Api!Last
  <2> QED
    BY <1>1, <2>1 DEF bare, Api!Last, Api!Front
<1>4. CASE field = Append(bare, "[]")
  <2>1. field[Len(field)] = "[]" /\ SubSeq(field, 1, Len(field) - 1) = bare
    BY <1>1, <1>2, <1>4
  <2>2. Api!Bare(field) = bare
    BY <2>1 DEF Api!Bare, Api!IsArrayName, Api!Last, Api!Front
  <2> QED
    BY <1>1, <2>2 DEF bare, Api!Last, Api!Front
<1> QED
  BY <1>3, <1>4 DEF bare

\* What an array's mark makes of the steps before it.
LEMMA Marked ==
  ASSUME NEW f, NEW steps \in Seq(Steps)
  PROVE  /\ Api!IsArray(f.artifact, f.at) => steps \o Api!Marker(f) = Append(steps, "[]")
         /\ ~Api!IsArray(f.artifact, f.at) => steps \o Api!Marker(f) = steps
<1>1. steps \o <<"[]">> = Append(steps, "[]") /\ steps \o <<>> = steps
  <2>1. "[]" \in Steps
    BY DEF Steps
  <2> QED
    BY <2>1
<1> QED
  BY <1>1 DEF Api!Marker

\* The name or the type of a field that a reference is reached by holds where it is.
LEMMA FieldSupported ==
  ASSUME Referenced, NEW f \in cited, NEW group \in {"fields", "parameters"},
         NEW steps \in Seq(Steps), steps # <<>>,
         f.at \in Api!Reached(f.artifact, Api!Roots(f.artifact), steps),
         NEW field, field = steps \o Api!Marker(f),
         <<claim.path, claim.value>> \in Api!Named(group, field) \cup Api!Typed(field, f)
  PROVE  Api!Holds(f.artifact)
<1>1. f.at \in Api!Places(f.artifact, field)
  BY PlaceFound, Marked
<1>2. \/ claim.path = <<group, field, "name">> /\ claim.value = field
      \/ claim.path = <<"fields", field, "type">> /\ claim.value = Api!Type(f.artifact, f.at)
  BY DEF Api!Named, Api!Typed, Api!Type, Api!Node
<1>3. /\ claim.path[1] \in {"fields", "parameters"} /\ claim.path[2] = field
      /\ \/ claim.path[3] = "name" /\ claim.value = field
         \/ claim.path[3] = "type" /\ claim.value = Api!Type(f.artifact, f.at)
  BY <1>2
<1>4. Api!FieldHolds(f.artifact, field, claim.path[3])
  BY <1>1, <1>3 DEF Api!FieldHolds
<1> QED
  BY <1>3, <1>4 DEF Api!Holds

\* So does the required flag that a schema gives for what is reached by a name from it.
LEMMA FlagSupported ==
  ASSUME Referenced, NEW f \in cited, NEW group \in {"fields", "parameters"}, Api!AsksRequired(group),
         NEW base \in Seq(Steps), f.at \in Open(f.artifact, base),
         NEW name \in Seq(Steps), claim.path[2] = base \o name,
         <<claim.path, claim.value>> \in Api!Flag(f, name)
  PROVE  Api!Holds(f.artifact)
<1> DEFINE a == f.artifact
           q == name[1]
           there == f.at \o <<"properties", q>>
           member == [f EXCEPT !.at = there]
<1>1. /\ Len(name) \in {1, 2} /\ q # "[]" /\ (Len(name) = 2 => name[2] = "[]")
  BY FlagNamesOne
<1>2. q \in Steps
  BY <1>1
<1>3. member.at = there /\ member.artifact = a
  <2> HIDE DEF there
  <2>1. f.artifact \in DOMAIN sources /\ f = [artifact |-> f.artifact, at |-> f.at]
    BY ClaimsAssumption DEF Referenced, Api!CitationsStated
  <2> QED
    BY <2>1
<1>4. /\ Api!In(f, there) /\ Tail(name) = Api!Marker(member)
      /\ claim.value = (q \in Api!Node(f).required)
  <2>1. /\ Api!In(f, member.at) /\ Tail(name) = Api!Marker(member)
        /\ <<claim.path, claim.value>> = <<claim.path, q \in Api!Node(f).required>>
    BY DEF Api!Flag
  <2> HIDE DEF there, member, q
  <2> QED
    BY <1>3, <2>1
<1>5. there \in DOMAIN sources[a] /\ there = f.at \o Api!Below(q)
  BY <1>1, <1>4 DEF Api!In, Api!Below
<1>6. there \in Api!Reached(a, Api!Roots(a), Append(base, q))
  <2> HIDE DEF q, a, there
  <2> QED
    BY <1>2, <1>5, OpenStep DEF a
<1> DEFINE steps == Append(base, q)
<1>7. steps \in Seq(Steps) /\ steps # <<>>
  BY <1>2
<1>8. claim.path[2] = steps \o Api!Marker(member)
  <2>1. name = <<q>> \o Tail(name) /\ Tail(name) \in Seq(Steps)
    BY <1>1
  <2>2. base \o (<<q>> \o Tail(name)) = Append(base, q) \o Tail(name)
    <3> DEFINE rest == Tail(name)
    <3> HIDE DEF rest, q
    <3> QED
      BY <1>2, <2>1 DEF rest
  <2> HIDE DEF member, q
  <2> QED
    BY <1>4, <2>1, <2>2 DEF steps
<1>9. there \in Api!Places(a, claim.path[2])
  <2> HIDE DEF member, steps, there, a
  <2> QED
    BY Zenon, <1>3, <1>6, <1>7, <1>8, PlaceFound, Marked DEF steps
<1>10. /\ Api!Last(Api!Bare(claim.path[2])) = q
       /\ Api!Front(Api!Bare(claim.path[2])) = base
  <2>1. claim.path[2] \in {Append(base, q), Append(Append(base, q), "[]")}
    <3> HIDE DEF member, steps
    <3> QED
      BY <1>7, <1>8, Marked DEF steps
  <2> HIDE DEF q
  <2> QED
    BY <1>1, <1>2, <2>1, BareField DEF q
<1>11. f.at \in Api!Owners(a, claim.path[2]) \cap DOMAIN sources[a]
  <2>1. f.at \in DOMAIN sources[a]
    BY ClosedDocument
  <2> QED
    BY <1>10, <2>1 DEF Api!Owners, Open
<1>12. claim.path[1] \in {"fields", "parameters"} /\ claim.path[3] = "required"
  BY DEF Api!AsksRequired
<1>13. Api!FieldHolds(a, claim.path[2], claim.path[3])
  <2>1. claim.value = (Api!Last(Api!Bare(claim.path[2])) \in sources[a][f.at].required)
    BY <1>4, <1>10 DEF Api!Node
  <2> HIDE DEF a, q, there
  <2> QED
    BY <1>9, <1>11, <1>12, <2>1 DEF Api!FieldHolds
<1> QED
  BY <1>12, <1>13 DEF Api!Holds

\* A sequence is its first elements and the others.
LEMMA InTwo ==
  ASSUME NEW S, NEW s \in Seq(S), NEW n \in Nat, n =< Len(s)
  PROVE  s = SubSeq(s, 1, n) \o SubSeq(s, n + 1, Len(s))
<1> DEFINE p == SubSeq(s, 1, n)
           q == SubSeq(s, n + 1, Len(s))
<1>1. p \in Seq(S) /\ Len(p) = n /\ \A i \in 1..n : p[i] = s[i]
  OBVIOUS
<1>2. q \in Seq(S) /\ Len(q) = Len(s) - n /\ \A i \in 1..Len(s) - n : q[i] = s[n + i]
  OBVIOUS
<1> HIDE DEF p, q
<1>3. /\ p \o q \in Seq(S) /\ Len(p \o q) = Len(s)
      /\ \A i \in 1..Len(s) : (p \o q)[i] = IF i =< n THEN p[i] ELSE q[i - n]
  BY <1>1, <1>2, ConcatProperties
<1>4. \A i \in 1..Len(s) : (p \o q)[i] = s[i]
  <2> SUFFICES ASSUME NEW i \in 1..Len(s) PROVE (p \o q)[i] = s[i]
    OBVIOUS
  <2>1. CASE i =< n
    BY <1>1, <1>3, <2>1
  <2>2. CASE i > n
    <3>1. i - n \in 1..Len(s) - n /\ n + (i - n) = i /\ ~(i =< n)
      BY <2>2
    <3> QED
      BY <1>2, <1>3, <3>1
  <2>3. i =< n \/ i > n
    OBVIOUS
  <2> QED
    BY <2>1, <2>2, <2>3
<1>5. p \o q = s
  BY <1>3, <1>4, SeqEqual
<1> QED
  BY <1>5 DEF p, q

\* Steps that stand for no segment are none.
LEMMA NoSegments ==
  ASSUME NEW t \in Seq(Steps), Api!Structural(t) = <<>>
  PROVE  t = <<>>
<1> SUFFICES ASSUME t # <<>> PROVE FALSE
  OBVIOUS
<1> DEFINE n == Len(t) - 1
           front == SubSeq(t, 1, n)
           s == t[Len(t)]
           Y == Steps \cup {"items", "properties"}
<1>1. front \in Seq(Steps) /\ s \in Steps /\ t = Append(front, s)
  OBVIOUS
<1> HIDE DEF front, s
<1>2. Api!Structural(front) \in Seq(Y) /\ Api!Structural(t) = Api!Structural(front) \o Api!Below(s)
  BY <1>1, OneMoreStep
<1>3. Api!Below(s) \in Seq(Y) /\ Api!Below(s) # <<>>
  <2>1. <<"items">> \in Seq(Y) /\ <<"properties", s>> \in Seq(Y)
    BY <1>1
  <2> QED
    BY <2>1 DEF Api!Below
<1> DEFINE q == Api!Structural(front)
           r == Api!Below(s)
<1> HIDE DEF Y, q, r
<1>4. q \o r # <<>>
  BY <1>2, <1>3, ConcatEqualIffEmpty DEF q, r
<1> QED
  BY <1>2, <1>4 DEF q, r

\* The schema of a claim, or of its operation's request, is where its fields start.
LEMMA RootOf ==
  ASSUME Referenced, NEW f \in cited, Len(f.at) >= 2, f.at[1] = "schemas",
         \/ claim.kind = "schema" /\ claim.schema = f.at[2]
         \/ claim.kind = "operation" /\ claim.of.schema = f.at[2]
  PROVE  <<"schemas", f.at[2]>> \in Api!Roots(f.artifact)
<1> DEFINE root == SubSeq(f.at, 1, 2)
<1>1. f.at \in Seq(STRING) /\ f.at[2] # None /\ root \in DOMAIN sources[f.artifact]
  <2>1. f.at \in Seq(STRING) /\ 2 \in 1..Len(f.at)
    BY PointersAreNames
  <2> QED
    BY <2>1, PointersAreNames, ClosedDocument DEF Closed
<1>2. root = <<"schemas", f.at[2]>>
  <2>1. root \in Seq(STRING) /\ Len(root) = 2 /\ root[1] = "schemas" /\ root[2] = f.at[2]
    BY <1>1
  <2>2. "schemas" \in STRING /\ f.at[2] \in STRING
    BY <1>1
  <2> HIDE DEF root
  <2> QED
    BY <2>1, <2>2, SequenceOfTwo
<1> QED
  <2>1. root \in DOMAIN sources[f.artifact] /\ root = <<"schemas", f.at[2]>> /\ f.at[2] # None
    BY <1>1, <1>2
  <2> HIDE DEF root
  <2>2. (IF claim.kind = "schema" THEN claim.schema ELSE claim.of.schema) = f.at[2]
    OBVIOUS
  <2> QED
    BY <2>1, <2>2 DEF Api!Roots

\* What kind of claim asks for a field, and how.
LEMMA FieldsAsked ==
  ASSUME Referenced
  PROVE  /\ claim.path[1] = "fields" => claim.kind = "schema"
         /\ claim.path[1] \in {"parameters", "security"} => claim.kind = "operation"
         /\ claim.path[1] \in {"fields", "parameters"} => claim.path[2] \in Seq(Steps)
<1>1. claim.path[1] \in {"fields", "parameters"} => claim.path[2] \in Seq(STRING)
  BY ClaimsAssumption DEF Referenced, Api!ClaimsStated
<1> QED
  BY <1>1, ClaimsAssumption DEF Referenced, Api!ClaimsStated, Steps

\* What a fact about the name or the type of a field is a claim of.
LEMMA NamedOrTyped ==
  ASSUME NEW group, NEW field, NEW f, <<claim.path, claim.value>> \in Api!Named(group, field) \cup Api!Typed(field, f)
  PROVE  claim.path[1] \in {group, "fields"} /\ claim.path[2] = field
<1>1. claim.path = <<group, field, "name">> \/ claim.path = <<"fields", field, "type">>
  BY DEF Api!Named, Api!Typed
<1> QED
  BY <1>1

\* The rest of a field after a prefix, where there is one, is what follows it.
LEMMA FieldInTwo ==
  ASSUME NEW prefix \in Seq(Steps), claim.path[2] \in Seq(Steps), Api!After(prefix) # <<>>
  PROVE  Api!After(prefix) \in Seq(Steps) /\ claim.path[2] = prefix \o Api!After(prefix)
<1> DEFINE field == claim.path[2]
           rest == Api!After(prefix)
<1>1. /\ rest \in Seq(Steps) /\ Len(field) = Len(prefix) + Len(rest)
      /\ \A i \in 1..Len(prefix) : field[i] = prefix[i]
      /\ \A i \in 1..Len(rest) : field[Len(prefix) + i] = rest[i]
  BY RestAfter
<1>2. field \in Seq(Steps)
  OBVIOUS
<1> HIDE DEF field, rest
<1>3. /\ prefix \o rest \in Seq(Steps) /\ Len(prefix \o rest) = Len(prefix) + Len(rest)
      /\ \A i \in 1..Len(prefix) + Len(rest) :
           (prefix \o rest)[i] = IF i =< Len(prefix) THEN prefix[i] ELSE rest[i - Len(prefix)]
  BY <1>1, ConcatProperties
<1>4. \A i \in 1..Len(field) : field[i] = (prefix \o rest)[i]
  <2> SUFFICES ASSUME NEW i \in 1..Len(field) PROVE field[i] = (prefix \o rest)[i]
    OBVIOUS
  <2>0. Len(prefix) \in Nat /\ Len(rest) \in Nat
    BY <1>1
  <2>1. CASE i =< Len(prefix)
    <3>1. i \in 1..Len(prefix)
      BY <2>0, <2>1
    <3> QED
      BY <1>1, <1>3, <2>1, <3>1
  <2>2. CASE i > Len(prefix)
    <3>1. i - Len(prefix) \in 1..Len(rest) /\ Len(prefix) + (i - Len(prefix)) = i /\ ~(i =< Len(prefix))
      BY <1>1, <2>0, <2>2
    <3> QED
      BY <1>1, <1>3, <3>1
  <2>3. i =< Len(prefix) \/ i > Len(prefix)
    <3>1. Len(field) \in Nat
      BY <1>2
    <3> QED
      BY <2>0, <3>1
  <2> QED
    BY <2>1, <2>2, <2>3
<1>5. field = prefix \o rest
  BY <1>1, <1>2, <1>3, <1>4, SeqEqual
<1> QED
  BY <1>1, <1>5 DEF field, rest

\* Facts of a reference that the lemmas on single derivations share.
LEMMA PropertyOf ==
  ASSUME Referenced, NEW f \in cited, Api!IsProperty(f.at)
  PROVE  /\ Closed(f.artifact) /\ f.at \in DOMAIN sources[f.artifact] /\ f.at \in Seq(STRING)
         /\ f.at \in Seq(Steps) /\ Len(f.at) >= 4 /\ f.at[1] = "schemas" /\ f.at[3] = "properties"
         /\ f.at[4] # "[]" /\ f.at[4] \in Steps /\ f.at[2] \in STRING
<1>1. f.at \in Seq(STRING) /\ Len(f.at) >= 4 /\ 4 \in 1..Len(f.at)
      /\ f.at[1] = "schemas" /\ f.at[3] = "properties"
  BY PointersAreNames DEF Api!IsProperty
<1>2. f.at[4] # "[]"
  BY <1>1, PointersAreNames
<1>3. f.at \in Seq(Steps) /\ f.at[4] \in Steps /\ f.at[2] \in STRING
  BY <1>1 DEF Steps
<1> QED
  BY <1>1, <1>2, <1>3, ClosedDocument

\* What a pointer that goes on as steps do is reached by.
LEMMA DownReached ==
  ASSUME Referenced, NEW f \in cited, NEW n \in 1..Len(f.at), NEW pre \in Seq(Steps),
         SubSeq(f.at, 1, n) \in Api!Reached(f.artifact, Api!Roots(f.artifact), pre),
         NEW rest \in Seq(Steps), SubSeq(f.at, n + 1, Len(f.at)) = Api!Structural(rest)
  PROVE  f.at \in Api!Reached(f.artifact, Api!Roots(f.artifact), pre \o rest)
<1> DEFINE a == f.artifact
           to == f.at
           there == SubSeq(to, 1, n)
<1>1. Closed(a) /\ to \in DOMAIN sources[a] /\ to \in Seq(STRING)
  BY ClosedDocument, PointersAreNames
<1>2. to \in Seq(Steps)
  BY <1>1 DEF Steps
<1>3. there \in Seq(Steps) /\ Len(there) = n /\ there # <<>>
  <2>1. n \in Nat /\ n >= 1 /\ n =< Len(to)
    BY <1>2
  <2> HIDE DEF to
  <2>2. there \in Seq(Steps) /\ Len(there) = n
    BY <1>2, <2>1
  <2> HIDE DEF there
  <2> QED
    BY <2>1, <2>2
<1>4. to = there \o Api!Structural(rest)
  <2>1. n \in Nat /\ n =< Len(to)
    BY <1>2
  <2> HIDE DEF to
  <2> QED
    BY <1>2, <2>1, InTwo DEF to
<1> HIDE DEF a, to, there
<1> QED
  BY <1>1, <1>3, <1>4, RootsWithin, WalkReaches DEF a, to, there

\* A property of the claim's schema, as deep as its pointer goes: its name and its type.
LEMMA SchemaPropertyHolds ==
  ASSUME Referenced, NEW f \in cited, <<claim.path, claim.value>> \in Api!SchemaProperty(f)
  PROVE  Api!Holds(f.artifact)
<1> DEFINE steps == IF Api!IsArray(f.artifact, f.at) THEN Api!Front(claim.path[2]) ELSE claim.path[2]
           field == steps \o Api!Marker(f)
           fact == <<claim.path, claim.value>>
<1>1. /\ Api!IsProperty(f.at) /\ claim.schema = f.at[2] /\ claim.path[1] = "fields"
      /\ SubSeq(f.at, 3, Len(f.at)) = Api!Structural(steps)
      /\ fact \in Api!Named("fields", field) \cup Api!Typed(field, f)
  <2> HIDE DEF fact
  <2> QED
    BY DEF Api!SchemaProperty, fact
<1>2. claim.kind = "schema" /\ claim.path[2] \in Seq(Steps)
  BY <1>1, FieldsAsked
<1>3. steps \in Seq(Steps)
  <2>1. Api!Front(claim.path[2]) \in Seq(Steps)
    BY <1>2 DEF Api!Front
  <2> QED
    BY <1>2, <2>1
<1> HIDE DEF steps
<1>4. Len(f.at) >= 4 /\ f.at \in Seq(Steps) /\ f.at \in Seq(STRING) /\ f.at[1] = "schemas"
      /\ f.at[3] = "properties" /\ f.at[4] # "[]"
  BY <1>1, PropertyOf
<1>5. steps # <<>>
  <2> DEFINE rest == SubSeq(f.at, 3, Len(f.at))
  <2>1. rest \in Seq(Steps) /\ Len(rest) >= 2
    BY <1>4
  <2>2. rest = Api!Structural(steps)
    BY <1>1
  <2> HIDE DEF rest
  <2>3. rest # <<>>
    BY <2>1
  <2> QED
    BY <2>2, <2>3, NoSteps
<1>6. SubSeq(f.at, 1, 2) \in Api!Reached(f.artifact, Api!Roots(f.artifact), <<>>)
  <2>1. <<"schemas", f.at[2]>> \in Api!Roots(f.artifact)
    BY <1>1, <1>2, <1>4, RootOf
  <2>2. SubSeq(f.at, 1, 2) = <<"schemas", f.at[2]>>
    BY <1>4, PropertySegments
  <2> QED
    BY <2>1, <2>2, RootOpen
<1>7. f.at \in Api!Reached(f.artifact, Api!Roots(f.artifact), <<>> \o steps)
  <2>1. 2 \in 1..Len(f.at) /\ 2 + 1 = 3 /\ <<>> \in Seq(Steps)
    BY <1>4
  <2> DEFINE pre == <<>>
  <2> HIDE DEF pre, field, fact
  <2>2. SubSeq(f.at, 2 + 1, Len(f.at)) = Api!Structural(steps)
    BY <1>1, <2>1
  <2> QED
    BY <1>3, <1>6, <2>1, <2>2, DownReached DEF pre
<1>8. <<>> \o steps = steps
  BY <1>3
<1> HIDE DEF field, fact
<1> QED
  BY <1>1, <1>3, <1>5, <1>7, <1>8, FieldSupported DEF fact, field

\* A property of the schema that the claim's request is of, unless it is an array that is
\* deeper: its mark follows the first step of the name then, and not the last.
LEMMA BodyPropertyHolds ==
  ASSUME Referenced, NEW f \in cited, <<claim.path, claim.value>> \in Api!BodyProperty(f),
         ~(Len(f.at) > 4 /\ Api!IsArray(f.artifact, f.at))
  PROVE  Api!Holds(f.artifact)
<1> DEFINE first == <<f.at[4]>> \o Api!Marker(f)
           rest == Api!After(first)
           field == first \o rest
           fact == <<claim.path, claim.value>>
           one == <<f.at[4]>>
<1>1. /\ Api!IsProperty(f.at) /\ claim.of.schema = f.at[2] /\ claim.path[1] = "parameters"
      /\ SubSeq(f.at, 5, Len(f.at)) = Api!Structural(rest)
      /\ fact \in Api!Named("parameters", field)
  <2> HIDE DEF fact
  <2> QED
    BY DEF Api!BodyProperty, fact
<1>2. claim.kind = "operation" /\ claim.path[2] \in Seq(Steps)
  BY <1>1, FieldsAsked
<1>3. rest \in Seq(Steps)
  <2>1. Api!After(first) = <<>> \/ Api!After(first) = SubSeq(claim.path[2], Len(first) + 1, Len(claim.path[2]))
    BY DEF Api!After
  <2>2. Len(first) \in Nat
    <3>1. one \in Seq(Steps) /\ Append(one, "[]") \in Seq(Steps)
      BY <1>1, PropertyOf DEF Steps
    <3>2. first = one \/ first = Append(one, "[]")
      <4> HIDE DEF one
      <4> QED
        BY <3>1, Marked DEF one
    <3> HIDE DEF one, first
    <3> QED
      BY <3>1, <3>2
  <2> HIDE DEF first, field
  <2>3. SubSeq(claim.path[2], Len(first) + 1, Len(claim.path[2])) \in Seq(Steps) /\ <<>> \in Seq(Steps)
    BY <1>2, <2>2
  <2> QED
    BY <2>1, <2>3
<1> HIDE DEF rest
<1>4. /\ Len(f.at) >= 4 /\ f.at \in Seq(Steps) /\ f.at \in Seq(STRING) /\ f.at[1] = "schemas"
      /\ f.at[3] = "properties" /\ f.at[4] # "[]" /\ f.at[4] \in Steps
      /\ Closed(f.artifact) /\ f.at \in DOMAIN sources[f.artifact]
  BY <1>1, PropertyOf
<1>5. SubSeq(f.at, 1, 4) \in Api!Reached(f.artifact, Api!Roots(f.artifact), one)
  <2> DEFINE pre == <<>>
  <2>1. <<"schemas", f.at[2]>> \in Open(f.artifact, pre)
    BY <1>1, <1>2, <1>4, RootOf, RootOpen
  <2>2. pre \in Seq(Steps) /\ Append(pre, f.at[4]) = one
    BY <1>4
  <2> HIDE DEF pre, one
  <2> QED
    BY <1>4, <2>1, <2>2, PropertyReached
<1>6. one \in Seq(Steps) /\ one # <<>>
  BY <1>4
<1> DEFINE steps == one \o rest
<1>7. f.at \in Api!Reached(f.artifact, Api!Roots(f.artifact), steps)
  <2>1. 4 \in 1..Len(f.at) /\ 4 + 1 = 5
    BY <1>4
  <2>2. SubSeq(f.at, 4 + 1, Len(f.at)) = Api!Structural(rest)
    BY <1>1, <2>1
  <2> HIDE DEF one, field, fact
  <2> QED
    BY <1>3, <1>5, <1>6, <2>1, <2>2, DownReached
<1>8. steps \in Seq(Steps) /\ steps # <<>>
  <2> HIDE DEF one
  <2> QED
    BY <1>3, <1>6, ConcatProperties, ConcatEqualIffEmpty
<1>9. field = steps \o Api!Marker(f)
  <2>1. CASE ~Api!IsArray(f.artifact, f.at)
    <3>1. first = one /\ steps \o Api!Marker(f) = steps
      <4> HIDE DEF one, steps
      <4> QED
        BY <1>6, <1>8, <2>1, Marked DEF one
    <3> QED
      BY <3>1
  <2>2. CASE Api!IsArray(f.artifact, f.at)
    <3>1. Len(f.at) = 4
      <4> DEFINE n == Len(f.at)
      <4>1. n \in Nat /\ ~(n > 4) /\ n >= 4
        BY <1>4, <2>2
      <4> HIDE DEF n
      <4>2. n = 4
        BY <4>1
      <4> QED
        BY <4>2 DEF n
    <3>2. SubSeq(f.at, 5, Len(f.at)) = <<>>
      BY <1>4, <3>1
    <3>3. rest = <<>>
      BY <1>1, <1>3, <3>2, NoSegments
    <3>4. one \o <<>> = one /\ first \o <<>> = first
      <4>1. first = Append(one, "[]") /\ "[]" \in Steps
        <5>1. "[]" \in Steps
          BY DEF Steps
        <5> HIDE DEF one
        <5> QED
          BY <1>6, <2>2, <5>1, Marked DEF one
      <4>2. first \in Seq(Steps)
        <5> HIDE DEF one, first
        <5> QED
          BY <1>6, <4>1
      <4> HIDE DEF one, first
      <4> QED
        BY <1>6, <4>2
    <3> QED
      BY <3>3, <3>4
  <2> QED
    BY <2>1, <2>2
<1> HIDE DEF field, fact, steps, one
<1> QED
  BY <1>1, <1>7, <1>8, <1>9, FieldSupported DEF fact

\* The schema of an operation's own request body is where its fields start.
LEMMA BodyRoot ==
  ASSUME Referenced, NEW f \in cited, Api!IsBody(f.at), Api!Own(f.at),
         claim.kind = "operation", claim.of.schema = None
  PROVE  /\ SubSeq(f.at, 1, 6) \in Api!Roots(f.artifact)
         /\ f.at \in Seq(STRING) /\ Len(f.at) \in Nat /\ Len(f.at) >= 6
<1> DEFINE root == SubSeq(f.at, 1, 6)
<1>1. f.at \in Seq(STRING) /\ Len(f.at) \in Nat /\ Len(f.at) >= 6
  BY PointersAreNames DEF Api!IsBody
<1>2. root \in DOMAIN sources[f.artifact]
  <2>1. 6 \in 1..Len(f.at)
    BY <1>1
  <2> QED
    BY <2>1, ClosedDocument DEF Closed
<1>3. /\ Len(root) = 6 /\ root[1] = f.at[1] /\ root[2] = f.at[2] /\ root[3] = f.at[3]
      /\ root[4] = f.at[4] /\ root[6] = f.at[6]
  BY <1>1
<1> HIDE DEF root
<1>4. Api!IsBody(root) /\ Api!Own(root)
  BY <1>3 DEF Api!IsBody, Api!InOperation, Api!Own
<1>5. (IF claim.kind = "schema" THEN claim.schema ELSE claim.of.schema) = None
  OBVIOUS
<1>6. root \in Api!Roots(f.artifact)
  BY <1>2, <1>3, <1>4, <1>5 DEF Api!Roots
<1> QED
  BY <1>1, <1>6 DEF root

\* A property of an operation's own request body.
LEMMA InlinePropertyHolds ==
  ASSUME Referenced, NEW f \in cited, <<claim.path, claim.value>> \in Api!InlineProperty(f)
  PROVE  Api!Holds(f.artifact)
<1> DEFINE one == <<f.at[8]>>
           field == one \o Api!Marker(f)
           root == SubSeq(f.at, 1, 6)
           fact == <<claim.path, claim.value>>
<1>1. /\ Api!IsBody(f.at) /\ Len(f.at) = 8 /\ f.at[7] = "properties" /\ Api!Own(f.at)
      /\ claim.of.schema = None /\ fact \in Api!Named("parameters", field)
  <2> HIDE DEF fact
  <2> QED
    BY DEF Api!InlineProperty, fact
<1>2. claim.path[1] = "parameters" /\ claim.kind = "operation"
  <2>1. claim.path = <<"parameters", field, "name">>
    BY <1>1 DEF Api!Named
  <2>2. claim.path[1] = "parameters"
    BY <2>1
  <2> QED
    BY <2>2, FieldsAsked
<1>3. root \in Api!Roots(f.artifact) /\ f.at \in Seq(STRING)
  BY <1>1, <1>2, BodyRoot
<1>4. f.at[8] # "[]" /\ f.at[8] \in Steps
  <2>1. 8 \in 1..Len(f.at)
    BY <1>1
  <2> QED
    BY <1>3, <2>1, PointersAreNames DEF Steps
<1>5. f.at = root \o Api!Below(f.at[8])
  <2>1. Api!Below(f.at[8]) = <<"properties", f.at[8]>>
    BY <1>4 DEF Api!Below
  <2> DEFINE last == SubSeq(f.at, 7, 8)
  <2>2. f.at = root \o last
    <3>1. 6 \in Nat /\ 6 =< Len(f.at) /\ 6 + 1 = 7
      BY <1>1
    <3> QED
      BY <1>1, <1>3, <3>1, InTwo
  <2>3. last = <<"properties", f.at[8]>>
    <3>1. last \in Seq(STRING) /\ Len(last) = 2 /\ last[1] = "properties" /\ last[2] = f.at[8]
      BY <1>1, <1>3
    <3>2. "properties" \in STRING /\ f.at[8] \in STRING
      BY <1>1, <1>3
    <3> HIDE DEF last
    <3> QED
      BY <3>1, <3>2, SequenceOfTwo
  <2> QED
    BY <2>1, <2>2, <2>3
<1>6. f.at \in Api!Reached(f.artifact, Api!Roots(f.artifact), one)
  <2> DEFINE pre == <<>>
  <2>1. pre \in Seq(Steps) /\ Append(pre, f.at[8]) = one
    BY <1>4
  <2>2. root \in Open(f.artifact, pre)
    BY <1>3, RootOpen
  <2>3. f.at \in DOMAIN sources[f.artifact]
    BY ClosedDocument
  <2> HIDE DEF pre, one, root
  <2> QED
    BY <1>4, <1>5, <2>1, <2>2, <2>3, OpenStep
<1>7. one \in Seq(Steps) /\ one # <<>>
  BY <1>4
<1> HIDE DEF one, field, fact
<1> QED
  BY <1>1, <1>6, <1>7, FieldSupported DEF fact, field

\* A property of the schema that the hops from an open schema lead to.
LEMMA MemberHolds ==
  ASSUME Referenced, NEW f \in cited, Api!IsMember(f.at), NEW group \in {"fields", "parameters"},
         NEW prefix \in Seq(Steps), <<"schemas", f.at[2]>> \in Open(f.artifact, prefix),
         NEW field, field = prefix \o <<f.at[4]>> \o Api!Marker(f),
         <<claim.path, claim.value>> \in Api!Named(group, field) \cup Api!Typed(field, f)
  PROVE  Api!Holds(f.artifact)
<1> DEFINE one == <<f.at[4]>>
           steps == prefix \o one
<1>1. /\ Api!IsProperty(f.at) /\ Len(f.at) = 4
  BY DEF Api!IsMember
<1>2. /\ Closed(f.artifact) /\ f.at \in DOMAIN sources[f.artifact] /\ f.at \in Seq(STRING)
      /\ Len(f.at) >= 4 /\ f.at[1] = "schemas" /\ f.at[3] = "properties"
      /\ f.at[4] # "[]" /\ f.at[4] \in Steps
  BY <1>1, PropertyOf
<1>3. steps = Append(prefix, f.at[4]) /\ steps \in Seq(Steps) /\ steps # <<>>
  BY <1>2
<1>4. f.at = SubSeq(f.at, 1, 4)
  BY <1>1, <1>2
<1>5. f.at \in Api!Reached(f.artifact, Api!Roots(f.artifact), steps)
  <2> HIDE DEF steps
  <2> QED
    BY <1>2, <1>3, <1>4, PropertyReached
<1>6. field = steps \o Api!Marker(f)
  OBVIOUS
<1> HIDE DEF steps, one
<1> QED
  BY <1>3, <1>5, <1>6, FieldSupported

\* A required flag of that schema.
LEMMA FlagHolds ==
  ASSUME Referenced, NEW f \in cited, NEW group \in {"fields", "parameters"}, Api!AsksRequired(group),
         NEW prefix \in Seq(Steps), f.at \in Open(f.artifact, prefix),
         <<claim.path, claim.value>> \in Api!Flag(f, Api!After(prefix))
  PROVE  Api!Holds(f.artifact)
<1> DEFINE name == Api!After(prefix)
<1>1. Api!After(prefix) # <<>>
  <2>1. Len(name) \in {1, 2}
    BY DEF Api!Flag
  <2> HIDE DEF name
  <2>2. name # <<>>
    <3> SUFFICES ASSUME name = <<>> PROVE FALSE
      OBVIOUS
    <3>1. Len(<<>>) = 0
      OBVIOUS
    <3> QED
      BY <2>1, <3>1
  <2> QED
    BY <2>2 DEF name
<1>2. claim.path[2] \in Seq(Steps)
  BY FieldsAsked DEF Api!AsksRequired
<1>3. name \in Seq(Steps) /\ claim.path[2] = prefix \o name
  BY <1>1, <1>2, FieldInTwo
<1> HIDE DEF name
<1> QED
  BY <1>3, FlagSupported DEF name

\* The same where the field is a property of the place itself.
LEMMA DirectFlagHolds ==
  ASSUME Referenced, NEW f \in cited, NEW group \in {"fields", "parameters"}, Api!AsksRequired(group),
         f.at \in Open(f.artifact, <<>>),
         <<claim.path, claim.value>> \in Api!Flag(f, claim.path[2])
  PROVE  Api!Holds(f.artifact)
<1> DEFINE base == <<>>
           name == claim.path[2]
<1>1. name \in Seq(Steps)
  BY FieldsAsked DEF Api!AsksRequired
<1>2. base \in Seq(Steps) /\ f.at \in Open(f.artifact, base) /\ base \o name = name
  BY <1>1
<1> HIDE DEF base, name
<1> QED
  BY <1>1, <1>2, FlagSupported DEF name

\* A schema of the claim's is open before any step, and so is what a hop from it leads to.
LEMMA SchemaOpen ==
  ASSUME Referenced, NEW f \in cited, Len(f.at) >= 2, f.at[1] = "schemas",
         \/ claim.kind = "schema" /\ claim.schema = f.at[2]
         \/ claim.kind = "operation" /\ claim.of.schema = f.at[2]
  PROVE  <<"schemas", f.at[2]>> \in Open(f.artifact, <<>>)
BY RootOf, RootOpen

\* A hop from the claim's schema opens the one it refers to.
LEMMA HopFromRoot ==
  ASSUME Referenced, NEW g \in cited, Api!Hop(g.at),
         \/ claim.kind = "schema" /\ claim.schema = g.at[2]
         \/ claim.kind = "operation" /\ claim.of.schema = g.at[2]
  PROVE  /\ Api!HopPrefix(g.at) \in Seq(Steps)
         /\ <<"schemas", Api!Node(g).to>> \in Open(g.artifact, Api!HopPrefix(g.at))
<1> DEFINE pre == <<>>
           prefix == Api!HopPrefix(g.at)
<1>1. Len(g.at) >= 2 /\ g.at[1] = "schemas"
  BY DEF Api!Hop, Api!ItemHop, Api!DirectHop
<1>2. <<"schemas", g.at[2]>> \in Open(g.artifact, pre)
  BY <1>1, SchemaOpen
<1>3. prefix \in Seq(Steps)
  BY HopPrefixes
<1>4. pre \in Seq(Steps) /\ pre \o prefix = prefix
  BY <1>3
<1> HIDE DEF pre, prefix
<1>5. <<"schemas", Api!Node(g).to>> \in Open(g.artifact, pre \o Api!HopPrefix(g.at))
  BY <1>2, <1>4, HopOpens
<1> QED
  BY <1>3, <1>4, <1>5 DEF prefix

\* The pointer of a component schema.
LEMMA SchemaPointer ==
  ASSUME Referenced, NEW f \in cited, Api!IsSchema(f.at)
  PROVE  f.at = <<"schemas", f.at[2]>>
<1>1. f.at \in Seq(STRING) /\ Len(f.at) = 2 /\ f.at[1] = "schemas"
  BY PointersAreNames DEF Api!IsSchema
<1>2. f.at[2] \in STRING /\ "schemas" \in STRING
  BY <1>1
<1> QED
  BY <1>1, <1>2, SequenceOfTwo

\* The required flag of a property of an operation's own request body.
LEMMA InlineRequiredHolds ==
  ASSUME Referenced, NEW f \in cited, <<claim.path, claim.value>> \in Api!InlineRequired(f)
  PROVE  Api!Holds(f.artifact)
<1>1. /\ Api!IsBody(f.at) /\ Len(f.at) = 6 /\ Api!Own(f.at) /\ claim.of.schema = None
      /\ Api!AsksRequired("parameters")
      /\ <<claim.path, claim.value>> \in Api!Flag(f, claim.path[2])
  BY DEF Api!InlineRequired
<1>2. claim.kind = "operation"
  BY <1>1, FieldsAsked DEF Api!AsksRequired
<1>3. f.at = SubSeq(f.at, 1, 6) /\ SubSeq(f.at, 1, 6) \in Api!Roots(f.artifact)
  <2>1. SubSeq(f.at, 1, 6) \in Api!Roots(f.artifact) /\ f.at \in Seq(STRING)
    BY <1>1, <1>2, BodyRoot
  <2> QED
    BY <1>1, <2>1
<1>4. f.at \in Open(f.artifact, <<>>)
  BY <1>3, RootOpen
<1> QED
  BY <1>1, <1>4, DirectFlagHolds

\* The required flag of a direct property of the claim's schema, or of its request's.
LEMMA SchemaRequiredHolds ==
  ASSUME Referenced, NEW f \in cited,
         <<claim.path, claim.value>> \in Api!SchemaRequired(f) \cup Api!BodyRequired(f)
  PROVE  Api!Holds(f.artifact)
<1>1. /\ Api!IsSchema(f.at) /\ <<claim.path, claim.value>> \in Api!Flag(f, claim.path[2])
      /\ \/ Api!AsksRequired("fields") /\ claim.schema = f.at[2]
         \/ Api!AsksRequired("parameters") /\ claim.of.schema = f.at[2]
  BY DEF Api!SchemaRequired, Api!BodyRequired
<1>2. \/ claim.kind = "schema" /\ claim.schema = f.at[2]
      \/ claim.kind = "operation" /\ claim.of.schema = f.at[2]
  BY <1>1, FieldsAsked DEF Api!AsksRequired
<1>3. f.at \in Open(f.artifact, <<>>)
  BY <1>1, <1>2, SchemaPointer, SchemaOpen DEF Api!IsSchema
<1> QED
  BY <1>1, <1>3, DirectFlagHolds

\* The name or type of a property of the schema that one hop leads to.
LEMMA RefPropertyHolds ==
  ASSUME Referenced, NEW f \in cited, NEW g \in cited, f.artifact = g.artifact,
         <<claim.path, claim.value>> \in Api!SchemaRefProperty(f, g) \cup Api!BodyRefProperty(f, g)
  PROVE  Api!Holds(f.artifact)
<1> DEFINE prefix == Api!HopPrefix(g.at)
           field == prefix \o <<f.at[4]>> \o Api!Marker(f)
           fact == <<claim.path, claim.value>>
<1>1. /\ Api!IsMember(f.at) /\ Api!Hop(g.at) /\ Api!Node(g).to = f.at[2]
      /\ \/ claim.schema = g.at[2] /\ fact \in Api!Named("fields", field) \cup Api!Typed(field, f)
         \/ claim.of.schema = g.at[2] /\ fact \in Api!Named("parameters", field)
  <2>1. CASE fact \in Api!SchemaRefProperty(f, g)
    BY <2>1 DEF Api!SchemaRefProperty
  <2>2. CASE fact \in Api!BodyRefProperty(f, g)
    BY <2>2 DEF Api!BodyRefProperty, Api!Hop
  <2> QED
    BY <2>1, <2>2
<1> HIDE DEF field, prefix
<1>2. \/ /\ claim.kind = "schema" /\ claim.schema = g.at[2]
         /\ fact \in Api!Named("fields", field) \cup Api!Typed(field, f)
      \/ /\ claim.kind = "operation" /\ claim.of.schema = g.at[2]
         /\ fact \in Api!Named("parameters", field) \cup Api!Typed(field, f)
  <2>1. CASE claim.schema = g.at[2] /\ fact \in Api!Named("fields", field) \cup Api!Typed(field, f)
    <3>1. claim.path[1] = "fields"
      BY <2>1, NamedOrTyped
    <3> QED
      BY <2>1, <3>1, FieldsAsked
  <2>2. CASE claim.of.schema = g.at[2] /\ fact \in Api!Named("parameters", field)
    <3>1. claim.path[1] = "parameters"
      <4>1. claim.path = <<"parameters", field, "name">>
        BY <2>2 DEF Api!Named
      <4> QED
        BY <4>1
    <3> QED
      BY <2>2, <3>1, FieldsAsked
  <2> QED
    BY <1>1, <2>1, <2>2
<1>3. prefix \in Seq(Steps) /\ <<"schemas", f.at[2]>> \in Open(f.artifact, prefix)
  BY <1>1, <1>2, HopFromRoot DEF prefix
<1>4. field = prefix \o <<f.at[4]>> \o Api!Marker(f)
  BY DEF field, prefix
<1> QED
  BY <1>1, <1>2, <1>3, <1>4, MemberHolds

\* Its required flag.
LEMMA RefRequiredHolds ==
  ASSUME Referenced, NEW f \in cited, NEW g \in cited, f.artifact = g.artifact,
         <<claim.path, claim.value>> \in Api!SchemaRefRequired(f, g) \cup Api!BodyRefRequired(f, g)
  PROVE  Api!Holds(f.artifact)
<1>1. /\ Api!IsSchema(f.at) /\ Api!Hop(g.at) /\ Api!Node(g).to = f.at[2]
      /\ <<claim.path, claim.value>> \in Api!Flag(f, Api!After(Api!HopPrefix(g.at)))
      /\ \/ Api!AsksRequired("fields") /\ claim.schema = g.at[2]
         \/ Api!AsksRequired("parameters") /\ claim.of.schema = g.at[2]
  BY DEF Api!SchemaRefRequired, Api!BodyRefRequired, Api!Hop
<1>2. \/ claim.kind = "schema" /\ claim.schema = g.at[2]
      \/ claim.kind = "operation" /\ claim.of.schema = g.at[2]
  BY <1>1, FieldsAsked DEF Api!AsksRequired
<1>3. Api!HopPrefix(g.at) \in Seq(Steps) /\ f.at \in Open(f.artifact, Api!HopPrefix(g.at))
  BY <1>1, <1>2, HopFromRoot, SchemaPointer
<1> QED
  BY <1>1, <1>3, FlagHolds

\* The same for two hops, one after the other.
LEMMA TwoHopHolds ==
  ASSUME Referenced, NEW f \in cited, NEW g \in cited, NEW h \in cited,
         f.artifact = g.artifact, f.artifact = h.artifact,
         <<claim.path, claim.value>> \in Api!TwoHop(f, g, h)
  PROVE  Api!Holds(f.artifact)
<1> DEFINE prefix == Api!HopPrefix(g.at) \o Api!HopPrefix(h.at)
           field == prefix \o <<f.at[4]>> \o Api!Marker(f)
           fact == <<claim.path, claim.value>>
<1>1. /\ Api!ItemHop(g.at) /\ Api!ItemHop(h.at) /\ claim.schema = g.at[2]
      /\ Api!Node(g).to = h.at[2] /\ Api!Node(h).to = f.at[2]
      /\ \/ Api!IsMember(f.at) /\ fact \in Api!Named("fields", field) \cup Api!Typed(field, f)
         \/ Api!IsSchema(f.at) /\ Api!AsksRequired("fields") /\ fact \in Api!Flag(f, Api!After(prefix))
  <2> HIDE DEF fact
  <2> QED
    BY DEF Api!TwoHop, fact
<1> HIDE DEF field, prefix
<1>2. claim.kind = "schema"
  <2>1. CASE fact \in Api!Named("fields", field) \cup Api!Typed(field, f)
    <3>1. claim.path[1] = "fields"
      BY <2>1, NamedOrTyped
    <3> QED
      BY <3>1, FieldsAsked
  <2>2. CASE Api!AsksRequired("fields")
    BY <2>2, FieldsAsked DEF Api!AsksRequired
  <2> QED
    BY <1>1, <2>1, <2>2
<1>3. Api!Hop(g.at) /\ Api!Hop(h.at)
  BY <1>1 DEF Api!Hop
<1>4. Api!HopPrefix(g.at) \in Seq(Steps) /\ <<"schemas", h.at[2]>> \in Open(h.artifact, Api!HopPrefix(g.at))
  BY <1>1, <1>2, <1>3, HopFromRoot
<1>5. <<"schemas", f.at[2]>> \in Open(f.artifact, prefix)
  BY <1>1, <1>3, <1>4, HopOpens DEF prefix
<1>6. prefix \in Seq(Steps)
  <2>1. Api!HopPrefix(h.at) \in Seq(Steps)
    BY <1>3, HopPrefixes
  <2> DEFINE p == Api!HopPrefix(g.at)
             q == Api!HopPrefix(h.at)
  <2>2. p \in Seq(Steps) /\ q \in Seq(Steps)
    BY <1>4, <2>1
  <2> HIDE DEF p, q
  <2>3. p \o q \in Seq(Steps)
    BY <2>2
  <2> QED
    BY <2>3 DEF p, q, prefix
<1>7. CASE Api!IsMember(f.at) /\ fact \in Api!Named("fields", field) \cup Api!Typed(field, f)
  <2>1. field = prefix \o <<f.at[4]>> \o Api!Marker(f)
    BY DEF field
  <2> QED
    BY <1>5, <1>6, <1>7, <2>1, MemberHolds
<1>8. CASE Api!IsSchema(f.at) /\ Api!AsksRequired("fields") /\ fact \in Api!Flag(f, Api!After(prefix))
  <2>1. f.at \in Open(f.artifact, prefix)
    BY <1>5, <1>8, SchemaPointer
  <2> QED
    BY <1>6, <1>8, <2>1, FlagHolds
<1> QED
  BY <1>1, <1>7, <1>8

\* The scheme of a requirement that is in force for the claim's operation.
LEMMA OperationSecurityHolds ==
  ASSUME Referenced, NEW f \in cited, <<claim.path, claim.value>> \in Api!OperationSecurity(f)
  PROVE  Api!Holds(f.artifact)
<1> DEFINE a == f.artifact
           four == SubSeq(f.at, 1, 4)
<1>1. /\ Len(f.at) = 5 /\ f.at[4] = "security" /\ Api!Own(f.at)
      /\ \E s \in Api!SoleScheme(f) : claim.path = <<"security", s>> /\ claim.value = s
  BY DEF Api!OperationSecurity
<1>2. claim.path[1] = "security" /\ Api!SoleScheme(f) = {claim.value}
  BY <1>1 DEF Api!SoleScheme
<1>3. f.at \in DOMAIN sources[a] /\ f.at \in Seq(STRING) /\ four \in DOMAIN sources[a]
  <2>1. 4 \in 1..Len(f.at)
    BY <1>1
  <2> QED
    BY <2>1, ClosedDocument, PointersAreNames DEF Closed
<1>4. Len(four) = 4 /\ four[4] = "security" /\ Api!Own(four)
  <2>1. /\ Len(four) = 4 /\ four[1] = f.at[1] /\ four[2] = f.at[2]
        /\ four[3] = f.at[3] /\ four[4] = f.at[4]
    BY <1>1, <1>3
  <2> HIDE DEF four
  <2> QED
    BY <1>1, <2>1 DEF Api!Own, Api!InOperation
<1>5. Api!SoleScheme([artifact |-> a, at |-> f.at]) = {claim.value}
  BY <1>2, ClaimsAssumption DEF Referenced, Api!CitationsStated
<1> HIDE DEF a, four
<1>6. Api!SecurityHolds(a)
  BY <1>1, <1>3, <1>4, <1>5 DEF Api!SecurityHolds
<1> QED
  BY <1>2, <1>6 DEF Api!Holds, a

\* The same for one element.
LEMMA SequenceOfOne ==
  ASSUME NEW S, NEW s \in Seq(S), Len(s) = 1, NEW x \in S, s[1] = x
  PROVE  s = <<x>>
<1> DEFINE t == <<x>>
<1>1. t \in Seq(S) /\ Len(t) = 1 /\ t[1] = x
  OBVIOUS
<1> HIDE DEF t
<1>2. \A j \in 1..Len(s) : s[j] = t[j]
  <2>1. \A j \in 1..1 : j = 1
    OBVIOUS
  <2> QED
    BY <1>1, <2>1
<1> QED
  BY <1>1, <1>2, SeqEqual DEF t

\* A sequence of four that goes on from one of three.
LEMMA SequenceOnward ==
  ASSUME NEW S, NEW t \in Seq(S), Len(t) = 4, NEW s \in Seq(S), Len(s) = 3,
         t[1] = s[1], t[2] = s[2], t[3] = s[3]
  PROVE  t = s \o <<t[4]>>
<1>1. t = SubSeq(t, 1, 3) \o SubSeq(t, 4, 4)
  <2>1. 3 \in Nat /\ 3 =< Len(t) /\ 3 + 1 = 4
    OBVIOUS
  <2> QED
    BY <2>1, InTwo
<1>2. SubSeq(t, 4, 4) = <<t[4]>>
  <2> DEFINE last == SubSeq(t, 4, 4)
  <2>0. 4 \in 1..Len(t)
    OBVIOUS
  <2>1. last \in Seq(S) /\ Len(last) = 1
    OBVIOUS
  <2>3. last[1] = t[4]
    OBVIOUS
  <2>4. t[4] \in S
    BY <2>0, ElementOfSeq
  <2> HIDE DEF last
  <2>2. last = <<t[4]>>
    BY <2>1, <2>3, <2>4, SequenceOfOne
  <2> QED
    BY <2>2 DEF last
<1>3. SubSeq(t, 1, 3) = s
  OBVIOUS
<1> QED
  BY <1>1, <1>2, <1>3

\* Where the operation states none, those of the document are.
LEMMA DocumentSecurityHolds ==
  ASSUME Referenced, NEW f \in cited, NEW g \in cited, f.artifact = g.artifact,
         <<claim.path, claim.value>> \in Api!DocumentSecurity(f, g)
  PROVE  Api!Holds(f.artifact)
<1> DEFINE a == f.artifact
<1>1. /\ Len(f.at) = 2 /\ f.at[1] = "security"
      /\ Api!IsOperation(g.at) /\ Api!Own(g.at) /\ ~Api!In(g, g.at \o <<"security">>)
      /\ \E s \in Api!SoleScheme(f) : claim.path = <<"security", s>> /\ claim.value = s
  BY DEF Api!DocumentSecurity
<1>2. claim.path[1] = "security" /\ Api!SoleScheme(f) = {claim.value}
  BY <1>1 DEF Api!SoleScheme
<1>3. f.at \in DOMAIN sources[a]
  BY ClosedDocument
<1>4. ~(\E to \in DOMAIN sources[a] : Len(to) = 4 /\ to[4] = "security" /\ Api!Own(to))
  <2> SUFFICES ASSUME NEW to \in DOMAIN sources[a], Len(to) = 4, to[4] = "security", Api!Own(to)
               PROVE  FALSE
    OBVIOUS
  <2>1. to \in Seq(STRING) /\ g.at \in Seq(STRING) /\ Len(g.at) = 3
    BY <1>1, ClosedDocument, PointersAreNames DEF Closed, Api!IsOperation
  <2>2. to[1] = g.at[1] /\ to[2] = g.at[2] /\ to[3] = g.at[3] /\ to[4] = "security"
    BY <1>1 DEF Api!Own, Api!InOperation
  <2>3. to = g.at \o <<"security">>
    <3>1. to = g.at \o <<to[4]>>
      BY <2>1, <2>2, SequenceOnward
    <3> QED
      BY <2>2, <3>1
  <2> QED
    BY <1>1, <2>3 DEF Api!In
<1>5. Api!SoleScheme([artifact |-> a, at |-> f.at]) = {claim.value}
  BY <1>2, ClaimsAssumption DEF Referenced, Api!CitationsStated
<1> HIDE DEF a
<1>6. Api!SecurityHolds(a)
  BY <1>1, <1>3, <1>4, <1>5 DEF Api!SecurityHolds
<1> QED
  BY <1>2, <1>6 DEF Api!Holds, a

\* What a derivation of one reference yields for the claim holds in the reference's document.
LEMMA OneHolds ==
  ASSUME Referenced, NEW f \in cited, NEW d \in Api!Single,
         <<claim.path, claim.value>> \in Api!FactsOfOne(d, f),
         ~(d = "body_property" /\ Len(f.at) > 4 /\ Api!IsArray(f.artifact, f.at))
  PROVE  Api!Holds(f.artifact)
<1>1. ASSUME claim.path[1] \notin {"fields", "parameters", "security"}
      PROVE  Api!Holds(f.artifact)
  BY <1>1 DEF Api!Holds
<1>2. CASE d \in {"operation", "response_status", "error_code", "example_operation",
                  "response_schema_ref", "request_schema_ref", "schema_name", "scheme_name"}
  <2>1. claim.path[1] \in {"path", "method", "responses", "code", "operation_refs",
                           "request_schema_ref", "name"}
    <3> DEFINE fact == <<claim.path, claim.value>>
    <3>1. /\ \A x \in Api!OperationFacts(f) : x[1][1] \in {"path", "method"}
          /\ \A x \in Api!ResponseStatus(f) : x[1][1] = "responses"
          /\ \A x \in Api!ErrorCode(f) : x[1][1] = "code"
          /\ \A x \in Api!ExampleOperation(f) : x[1][1] = "operation_refs"
          /\ \A x \in Api!ResponseSchemaRef(f) : x[1][1] = "responses"
          /\ \A x \in Api!RequestSchemaRef(f) : x[1][1] = "request_schema_ref"
          /\ \A x \in Api!SchemaName(f) : x[1][1] = "name"
          /\ \A x \in Api!SchemeName(f) : x[1][1] = "name"
      BY DEF Api!OperationFacts, Api!ResponseStatus, Api!ErrorCode, Api!ExampleOperation,
             Api!ResponseSchemaRef, Api!RequestSchemaRef, Api!SchemaName, Api!SchemeName
    <3>2. fact \in Api!OperationFacts(f) \cup Api!ResponseStatus(f) \cup Api!ErrorCode(f)
                   \cup Api!ExampleOperation(f) \cup Api!ResponseSchemaRef(f)
                   \cup Api!RequestSchemaRef(f) \cup Api!SchemaName(f) \cup Api!SchemeName(f)
      BY <1>2 DEF Api!FactsOfOne
    <3>3. fact[1][1] = claim.path[1]
      OBVIOUS
    <3> HIDE DEF fact
    <3> QED
      BY <3>1, <3>2, <3>3
  <2> QED
    BY <1>1, <2>1
<1>3. CASE d = "body_property"
  BY <1>3, BodyPropertyHolds DEF Api!FactsOfOne
<1>4. CASE d \in {"body_required", "schema_required"}
  BY <1>4, SchemaRequiredHolds DEF Api!FactsOfOne
<1>5. CASE d = "inline_property"
  BY <1>5, InlinePropertyHolds DEF Api!FactsOfOne
<1>6. CASE d = "inline_required"
  BY <1>6, InlineRequiredHolds DEF Api!FactsOfOne
<1>7. CASE d = "schema_property"
  BY <1>7, SchemaPropertyHolds DEF Api!FactsOfOne
<1>8. CASE d = "operation_security"
  BY <1>8, OperationSecurityHolds DEF Api!FactsOfOne
<1> QED
  BY <1>2, <1>3, <1>4, <1>5, <1>6, <1>7, <1>8 DEF Api!Single

\* So does what a derivation of two linked references of one document yields.
LEMMA TwoHold ==
  ASSUME Referenced, NEW f \in cited, NEW g \in cited, f.artifact = g.artifact, NEW d \in Api!Linked,
         <<claim.path, claim.value>> \in Api!FactsOfTwo(d, f, g)
  PROVE  Api!Holds(f.artifact)
<1>1. CASE d \in {"body_ref_property", "schema_ref_property"}
  BY <1>1, RefPropertyHolds DEF Api!FactsOfTwo
<1>2. CASE d \in {"body_ref_required", "schema_ref_required"}
  BY <1>2, RefRequiredHolds DEF Api!FactsOfTwo
<1>3. CASE d = "document_security"
  BY <1>3, DocumentSecurityHolds DEF Api!FactsOfTwo
<1> QED
  BY <1>1, <1>2, <1>3 DEF Api!Linked

\* What the Core accepts of a proposal that cites the entry's references holds.
LEMMA VerifiedHolds ==
  ASSUME Referenced, NEW p, p.fragments \in Seq(cited), Api!Verified(p)
  PROVE  Api!NestedBodyArray(p) \/ Api!Holds(p.fragments[1].artifact)
<1> DEFINE f == p.fragments
           d == p.derivation
           fact == <<claim.path, claim.value>>
<1>1. /\ \A i \in DOMAIN f : f[i].artifact = f[1].artifact
      /\ fact \in CASE d \in Api!Single /\ Len(f) = 1 -> Api!FactsOfOne(d, f[1])
                    [] d \in Api!Linked /\ Len(f) = 2 -> Api!FactsOfTwo(d, f[1], f[2])
                    [] d = "two_hop" /\ Len(f) = 3 -> Api!TwoHop(f[1], f[2], f[3])
                    [] OTHER -> {}
  BY DEF Api!Verified
<1>2. f \in Seq(cited)
  OBVIOUS
<1>3. SUFFICES ASSUME ~(d = "body_property" /\ Len(f[1].at) > 4 /\ Api!IsArray(f[1].artifact, f[1].at))
               PROVE  Api!Holds(f[1].artifact)
  BY DEF Api!NestedBodyArray
<1> HIDE DEF f, d, fact
<1>4. \A i \in 1..Len(f) : f[i] \in cited /\ f[i].artifact = f[1].artifact
  <2>1. DOMAIN f = 1..Len(f)
    BY <1>2
  <2> QED
    BY <1>1, <1>2, <2>1, ElementOfSeq
<1>5. CASE d \in Api!Single /\ Len(f) = 1
  <2>1. f[1] \in cited
    BY <1>4, <1>5
  <2>2. fact \in Api!FactsOfOne(d, f[1])
    BY <1>1, <1>5 DEF Api!Single, Api!Linked
  <2> QED
    BY <1>3, <1>5, <2>1, <2>2, OneHolds DEF fact
<1>6. CASE d \in Api!Linked /\ Len(f) = 2
  <2>1. f[1] \in cited /\ f[2] \in cited /\ f[2].artifact = f[1].artifact
    BY <1>4, <1>6
  <2>2. fact \in Api!FactsOfTwo(d, f[1], f[2])
    BY <1>1, <1>6 DEF Api!Single, Api!Linked
  <2> QED
    BY <1>6, <2>1, <2>2, TwoHold DEF fact
<1>7. CASE d = "two_hop" /\ Len(f) = 3
  <2>1. /\ f[1] \in cited /\ f[2] \in cited /\ f[3] \in cited
        /\ f[2].artifact = f[1].artifact /\ f[3].artifact = f[1].artifact
    BY <1>4, <1>7
  <2>2. fact \in Api!TwoHop(f[1], f[2], f[3])
    BY <1>1, <1>7 DEF Api!Single, Api!Linked
  <2> QED
    BY <2>1, <2>2, TwoHopHolds DEF fact
<1> QED
  BY <1>1, <1>5, <1>6, <1>7

\* Of some of the first six numbers one is the least.
LEMMA LeastOfSix ==
  ASSUME NEW S, S \subseteq 1..6, S # {}
  PROVE  \E i \in S : \A j \in 1..6 : j < i => j \notin S
<1>1. \A j \in 1..6 : j = 1 \/ j = 2 \/ j = 3 \/ j = 4 \/ j = 5 \/ j = 6
  OBVIOUS
<1>2. 1 \in S \/ 2 \in S \/ 3 \in S \/ 4 \in S \/ 5 \in S \/ 6 \in S
  BY <1>1
<1> QED
  BY <1>1, <1>2

\* The references of a proposal are some of the entry's.
Cites(fragments) == fragments \in Seq(cited)

\* Whatever is proposed cites references of the entry.
LEMMA ProposalsCite ==
  /\ \A p \in Api!AdapterProposals : Cites(p.fragments)
  /\ \A P \in Api!Proposed : \A p \in P : Cites(p.fragments)
<1>1. /\ \A f \in cited : Cites(<<f>>)
      /\ \A f, g \in cited : Cites(<<f, g>>)
      /\ \A f, g, h \in cited : Cites(<<f, g, h>>)
  BY DEF Cites
<1>2. \A d, x : Api!Proposal(d, x).fragments = x
  BY DEF Api!Proposal
<1>3. ASSUME NEW p \in Api!AdapterProposals PROVE Cites(p.fragments)
  <2>1. CASE p \in {Api!Proposal(d, <<f>>) : d \in Api!Single, f \in cited}
    <3>1. PICK d \in Api!Single, f \in cited : p = Api!Proposal(d, <<f>>)
      BY <2>1
    <3> QED
      BY <1>1, <1>2, <3>1
  <2>2. CASE p \in {Api!Proposal(d, x) : d \in Api!Linked, x \in {y \in cited \X cited : y[1] # y[2]}}
    <3>1. PICK d \in Api!Linked, x \in {y \in cited \X cited : y[1] # y[2]} : p = Api!Proposal(d, x)
      BY <2>2
    <3>2. PICK f \in cited, g \in cited : x = <<f, g>>
      OBVIOUS
    <3>3. p.fragments = x /\ Cites(x)
      BY <1>1, <1>2, <3>1, <3>2
    <3> QED
      BY <3>3
  <2>3. CASE p \in {Api!Proposal("two_hop", x) :
                       x \in {y \in cited \X cited \X cited : y[1] # y[2] /\ y[1] # y[3] /\ y[2] # y[3]}}
    <3>1. PICK x \in cited \X cited \X cited : p = Api!Proposal("two_hop", x)
      BY <2>3
    <3>2. PICK f \in cited, g \in cited, h \in cited : x = <<f, g, h>>
      OBVIOUS
    <3>3. p.fragments = x /\ Cites(x)
      BY <1>1, <1>2, <3>1, <3>2
    <3> QED
      BY <3>3
  <2> QED
    BY <2>1, <2>2, <2>3 DEF Api!AdapterProposals
<1>4. ASSUME NEW P \in Api!Proposed, NEW p \in P PROVE Cites(p.fragments)
  <2> DEFINE finding == {j \in 1..6 : Api!Groupings[j].groups # {}}
  <2>1. CASE finding = {}
    <3>1. Api!Proposed = Api!Alone
      BY <2>1, NoGrouping
    <3>2. \E f \in cited : p = Api!Proposal(Api!DerivationName(f), <<f>>)
      BY <3>1 DEF Api!Alone
    <3> QED
      BY <1>1, <1>2, <3>2
  <2>2. CASE finding # {}
    <3>1. PICK i \in finding : \A j \in 1..6 : j < i => j \notin finding
      <4>1. finding \subseteq 1..6
        OBVIOUS
      <4> HIDE DEF finding
      <4> QED
        BY <2>2, <4>1, LeastOfSix
    <3>2. i \in 1..6 /\ Api!Groupings[i].groups # {}
          /\ \A j \in 1..6 : j < i => Api!Groupings[j].groups = {}
      BY <3>1
    <3>3. PICK x \in Api!Groupings[i].groups : P = {Api!Proposal(Api!Groupings[i].derivation, x)}
      BY <3>2, FirstGrouping
    <3>4. p.fragments = x
      BY <1>2, <3>3
    <3>5. i = 1 \/ i = 2 \/ i = 3 \/ i = 4 \/ i = 5 \/ i = 6
      BY <3>2
    <3>6. \/ \E f, g \in cited : x = <<f, g>>
          \/ \E f, g, h \in cited : x = <<f, g, h>>
      <4>1. CASE i = 1
        <5>1. x \in Api!TwoHopGroups
          BY <3>3, <4>1, GroupingsListed
        <5> QED
          BY <5>1, GroupingShapes
      <4>2. CASE i # 1
        <5>1. x \in Api!SchemaRefRequiredGroups \cup Api!SchemaRefPropertyGroups
                    \cup Api!BodyRefPropertyGroups \cup Api!BodyRefRequiredGroups
                    \cup Api!DocumentSecurityGroups
          BY <3>3, <3>5, <4>2, GroupingsListed
        <5>2. x[1] \in cited /\ x[2] \in cited /\ x = <<x[1], x[2]>>
          BY <5>1, GroupingShapes
        <5> QED
          BY <5>2
      <4> QED
        BY <4>1, <4>2
    <3> QED
      BY <1>1, <3>4, <3>6
  <2> QED
    BY <2>1, <2>2
<1> QED
  BY <1>3, <1>4

\* What is accepted cites references of the entry, and the Core would accept it again.
AcceptedInv ==
  /\ Referenced
  /\ \A p \in accepted : Cites(p.fragments) /\ Api!Verified(p)

\* So it is at the start, and after every step.
LEMMA AcceptedStarts == Api!Init => AcceptedInv
BY DEF Api!Init, AcceptedInv, Referenced

\* Every step keeps it.
LEMMA AcceptedKeeps == AcceptedInv /\ [Api!Next]_(Api!vars) => AcceptedInv'
<1> SUFFICES ASSUME AcceptedInv, [Api!Next]_(Api!vars) PROVE AcceptedInv'
  OBVIOUS
<1>1. UNCHANGED <<sources, claim, cited>>
  BY DEF Api!Next, Api!Bridge, Api!BridgeRaises, Api!Adapter, Api!vars
<1>2. Referenced'
  BY <1>1 DEF AcceptedInv, Referenced, Api!In
<1>3. \A p : Api!Verified(p)' <=> Api!Verified(p)
  BY <1>1, VerifiedStays
<1>4. \A p \in accepted' : Cites(p.fragments) /\ Api!Verified(p)
  <2>1. CASE Api!Bridge
    <3>1. PICK P \in Api!Proposed : accepted' = {p \in P : Api!Verified(p)}
      BY <2>1 DEF Api!Bridge
    <3> QED
      BY <3>1, ProposalsCite
  <2>2. CASE Api!Adapter
    BY <2>2, ProposalsCite DEF Api!Adapter
  <2>3. CASE Api!BridgeRaises \/ UNCHANGED Api!vars
    BY <2>3 DEF Api!BridgeRaises, Api!vars, AcceptedInv
  <2> QED
    BY <2>1, <2>2, <2>3 DEF Api!Next
<1> QED
  BY <1>1, <1>2, <1>3, <1>4 DEF AcceptedInv, Cites

\* What the Core accepts as derived, whoever proposed it, holds in the document it was
\* derived from, for any documents, claims and citations.
THEOREM DerivationsHold == MCSpec => []DerivedHolds
<1>1. MCInit /\ part = "derive" => AcceptedInv
  BY AcceptedStarts DEF MCInit
<1>2. AcceptedInv /\ part = "derive" /\ [MCNext]_everything => (AcceptedInv /\ part = "derive")'
  BY AcceptedKeeps DEF MCNext, everything, derivation, Api!vars
<1>3. ~(part = "derive") /\ [MCNext]_everything => (~(part = "derive"))'
  BY DEF MCNext, everything
<1>4. (AcceptedInv => DerivedHolds) /\ (~(part = "derive") => DerivedHolds)
  BY VerifiedHolds DEF AcceptedInv, Cites, DerivedHolds, Api!DerivedHolds
<1> QED
  BY <1>1, <1>2, <1>3, <1>4, PTL DEF MCSpec, everything

-----------------------------------------------------------------------------
(* Planning.  The proofs of that module are about an instance of their     *)
(* own, which says the same, definition by definition.                     *)

PP == INSTANCE PlanningProofs WITH stage <- planned, Statuses <- ContractStatuses

\* Lists and dictionaries.
LEMMA SameLists ==
  /\ \A a : Planned!ToSet(a) = PP!ToSet(a)
  /\ \A a : Planned!FlattenSeq(a) = PP!FlattenSeq(a)
  /\ \A a, b : Planned!Kept(a, b) = PP!Kept(a, b)
  /\ \A a, b : Planned!Filled(a, b) = PP!Filled(a, b)
  /\ \A a : Planned!Dict(a) = PP!Dict(a)
<1>1. \A a : Planned!ToSet(a) = PP!ToSet(a)
  BY DEF Planned!ToSet, PP!ToSet
<1>2. \A a : Planned!FlattenSeq(a) = PP!FlattenSeq(a)
  BY DEF Planned!FlattenSeq, PP!FlattenSeq
<1>3. \A a, b : Planned!Kept(a, b) = PP!Kept(a, b)
  BY DEF Planned!Kept, PP!Kept
<1>4. \A a, b : Planned!Filled(a, b) = PP!Filled(a, b)
  BY DEF Planned!Filled, PP!Filled
<1>5. \A a : Planned!Dict(a) = PP!Dict(a)
  BY DEF Planned!Dict, PP!Dict, Planned!Max, PP!Max, Planned!ToSet, PP!ToSet
<1> QED
  BY <1>1, <1>2, <1>3, <1>4, <1>5

\* The document of a plan.
LEMMA SameDocument ==
  /\ \A a, b, c : Planned!ComponentKey(a, b, c) = PP!ComponentKey(a, b, c)
  /\ \A a : Planned!SchemaKeys(a) = PP!SchemaKeys(a)
  /\ \A a : Planned!KeysByName(a) = PP!KeysByName(a)
  /\ \A a : Planned!PropertyTargets(a) = PP!PropertyTargets(a)
  /\ \A a : Planned!Served(a) = PP!Served(a)
  /\ \A a : Planned!Webhooks(a) = PP!Webhooks(a)
  /\ \A a, b : Planned!ResponseSchema(a, b) = PP!ResponseSchema(a, b)
  /\ \A a, b : Planned!Responses(a, b) = PP!Responses(a, b)
  /\ \A a, b : Planned!Operation(a, b) = PP!Operation(a, b)
  /\ \A a : Planned!ComponentSchemas(a) = PP!ComponentSchemas(a)
  /\ \A a : Planned!OpenApi(a) = PP!OpenApi(a)
<1>1. \A a, b, c : Planned!ComponentKey(a, b, c) = PP!ComponentKey(a, b, c)
  BY DEF Planned!ComponentKey, PP!ComponentKey
<1>2. \A a : Planned!SchemaKeys(a) = PP!SchemaKeys(a)
  BY DEF
    Planned!ComponentKey, PP!ComponentKey, Planned!Min, PP!Min, Planned!SchemaKeys, PP!SchemaKeys,
    Planned!ToSet, PP!ToSet
<1>3. \A a : Planned!KeysByName(a) = PP!KeysByName(a)
  BY DEF
    Planned!ComponentKey, PP!ComponentKey, Planned!Dict, PP!Dict, Planned!KeysByName, PP!KeysByName,
    Planned!Max, PP!Max, Planned!Min, PP!Min, Planned!SchemaKeys, PP!SchemaKeys, Planned!ToSet,
    PP!ToSet
<1>4. \A a : Planned!PropertyTargets(a) = PP!PropertyTargets(a)
  BY DEF
    Planned!FlattenSeq, PP!FlattenSeq, Planned!KeysTo, PP!KeysTo, Planned!PropertyTargets,
    PP!PropertyTargets, Planned!TargetOf, PP!TargetOf, Planned!ToSet, PP!ToSet
<1>5. \A a : Planned!Served(a) = PP!Served(a)
  BY DEF Planned!Served, PP!Served
<1>6. \A a : Planned!Webhooks(a) = PP!Webhooks(a)
  BY DEF Planned!Webhooks, PP!Webhooks
<1>7. \A a, b : Planned!ResponseSchema(a, b) = PP!ResponseSchema(a, b)
  BY DEF Planned!Inline, PP!Inline, Planned!ResponseSchema, PP!ResponseSchema
<1>8. \A a, b : Planned!Responses(a, b) = PP!Responses(a, b)
  <2> SUFFICES ASSUME NEW a, NEW b PROVE Planned!Responses(a, b) = PP!Responses(a, b)
    OBVIOUS
  <2> DEFINE http == Planned!Kept(a, {r \in Planned!ToSet(a) : r.status \in ContractStatuses})
             named == {r \in Planned!ToSet(a) : r.status \notin ContractStatuses}
             out == Planned!Dict([i \in DOMAIN http |-> <<http[i].status, Planned!ResponseSchema(http[i], b)>>])
             folded == UNION {Planned!ResponseSchema(r, b) : r \in named}
             outOf(h) == PP!Dict([i \in DOMAIN h |-> <<h[i].status, PP!ResponseSchema(h[i], b)>>])
             default == IF "default" \in DOMAIN out /\ out["default"] # {} THEN out["default"] ELSE folded
             made == IF named = {} THEN out
                     ELSE [s \in DOMAIN out \cup {"default"} |-> IF s = "default" THEN default ELSE out[s]]
  <2>1. Planned!Responses(a, b) = made
    BY DEF Planned!Responses
  <2>2. PP!Kept(a, {r \in PP!ToSet(a) : r.status \in ContractStatuses}) = http
    BY SameLists
  <2>3. {r \in PP!ToSet(a) : r.status \notin ContractStatuses} = named
    BY SameLists
  <2>4. outOf(http) = out
    BY <1>7, SameLists
  <2>5. UNION {PP!ResponseSchema(r, b) : r \in named} = folded
    BY <1>7
  <2>6. PP!Responses(a, b) = made
    <3> HIDE DEF http, named, out, folded
    <3> QED
      BY <2>2, <2>3, <2>4, <2>5 DEF PP!Responses
  <2> QED
    BY <2>1, <2>6
<1>9. \A a, b : Planned!Operation(a, b) = PP!Operation(a, b)
  <2> SUFFICES ASSUME NEW a, NEW b PROVE Planned!Operation(a, b) = PP!Operation(a, b)
    OBVIOUS
  <2> DEFINE given == Planned!ToSet(a.params)
             declared == {[name |-> p.name, in |-> p.in] : p \in {q \in given : q.in # "body"}}
             inPath == {p.name : p \in {q \in declared : q.in = "path"}}
             body == {p.name : p \in {q \in given : q.in = "body"}}
             named == {j \in DOMAIN b.security_schemes :
                         b.security_schemes[j].name \in Planned!ToSet(a.security) \ {None}}
             secured == {Planned!ComponentKey(b.security_schemes[i].name, i, "scheme") : i \in named}
             hosts == {h \in Planned!ToSet(b.environments) : h.name = a.server /\ h.url}
             codes == {c.code : c \in {d \in Planned!ToSet(b.errors) : <<a.method, a.path>> \in d.applies}}
             answers == Planned!Responses(a.responses, Planned!KeysByName(b))
             tokens == IF a.path = None THEN {} ELSE Tokens[a.path]
             made == [params |-> declared \cup {[name |-> t, in |-> "path"] : t \in tokens \ inPath},
                      body |-> body, responses |-> answers, security |-> secured,
                      server |-> IF a.server # None /\ hosts # {} THEN a.server ELSE None,
                      codes |-> codes]
  <2>1. Planned!Operation(a, b) = made
    BY DEF Planned!Operation
  <2>2. PP!ToSet(a.params) = given /\ PP!Responses(a.responses, PP!KeysByName(b)) = answers
    BY SameLists, <1>8, <1>3
  <2>3. {j \in DOMAIN b.security_schemes :
           b.security_schemes[j].name \in PP!ToSet(a.security) \ {None}} = named
    BY SameLists
  <2>4. {PP!ComponentKey(b.security_schemes[i].name, i, "scheme") : i \in named} = secured
    BY <1>1
  <2>5. {h \in PP!ToSet(b.environments) : h.name = a.server /\ h.url} = hosts
    BY SameLists
  <2>6. {c.code : c \in {d \in PP!ToSet(b.errors) : <<a.method, a.path>> \in d.applies}} = codes
    BY SameLists
  <2>7. PP!Operation(a, b) = made
    <3> HIDE DEF given, answers, named, secured, hosts, codes
    <3> QED
      BY <2>2, <2>3, <2>4, <2>5, <2>6 DEF PP!Operation
  <2> QED
    BY <2>1, <2>7
<1>10. \A a : Planned!ComponentSchemas(a) = PP!ComponentSchemas(a)
  BY SameLists, <1>2, <1>1, <1>4 DEF Planned!ComponentSchemas, PP!ComponentSchemas
<1>11. \A a : Planned!OpenApi(a) = PP!OpenApi(a)
  BY SameLists, <1>6, <1>5, <1>9, <1>10, <1>1 DEF Planned!OpenApi, PP!OpenApi
<1> QED
  BY <1>1, <1>2, <1>3, <1>4, <1>5, <1>6, <1>7, <1>8, <1>9, <1>10, <1>11

\* The report of a plan.
LEMMA SameIssues ==
  /\ \A a : Planned!StructureIssues(a) = PP!StructureIssues(a)
  /\ \A a : Planned!CompletenessIssues(a) = PP!CompletenessIssues(a)
  /\ \A a, b : Planned!ConsistencyIssues(a, b) = PP!ConsistencyIssues(a, b)
  /\ \A a, b : Planned!SpeculationIssues(a, b) = PP!SpeculationIssues(a, b)
  /\ \A a, b : Planned!CoverageIssues(a, b) = PP!CoverageIssues(a, b)
  /\ \A a, b : Planned!IntegrationIssues(a, b) = PP!IntegrationIssues(a, b)
  /\ \A a : Planned!ResponseIssues(a) = PP!ResponseIssues(a)
  /\ \A a : Planned!FocusIssues(a) = PP!FocusIssues(a)
  /\ \A a : Planned!FactIssues(a) = PP!FactIssues(a)
  /\ \A a, b : Planned!SupplementaryIssues(a, b) = PP!SupplementaryIssues(a, b)
  /\ \A a : Planned!Provenance(a) = PP!Provenance(a)
  /\ \A a, b, c : Planned!Issues(a, b, c) = PP!Issues(a, b, c)
<1>1. \A a : Planned!StructureIssues(a) = PP!StructureIssues(a)
  BY DEF
    Planned!Error, PP!Error, Planned!Inline, PP!Inline, Planned!Issue, PP!Issue,
    Planned!StructureIssues, PP!StructureIssues
<1>2. \A a : Planned!CompletenessIssues(a) = PP!CompletenessIssues(a)
  BY DEF
    Planned!At, PP!At, Planned!CompletenessIssues, PP!CompletenessIssues, Planned!EndpointIssues,
    PP!EndpointIssues, Planned!Error, PP!Error, Planned!Issue, PP!Issue, Planned!Served, PP!Served,
    Planned!SpeaksOfAuth, PP!SpeaksOfAuth, Planned!ToSet, PP!ToSet, Planned!Warning, PP!Warning,
    Planned!When, PP!When
<1>3. \A a, b : Planned!ConsistencyIssues(a, b) = PP!ConsistencyIssues(a, b)
  BY DEF
    Planned!ConsistencyIssues, PP!ConsistencyIssues, Planned!Error, PP!Error,
    Planned!GuideOperations, PP!GuideOperations, Planned!GuideWebhooks, PP!GuideWebhooks,
    Planned!Issue, PP!Issue, Planned!ToSet, PP!ToSet, Planned!Webhooks, PP!Webhooks
<1>4. \A a, b : Planned!SpeculationIssues(a, b) = PP!SpeculationIssues(a, b)
  BY DEF
    Planned!Asserted, PP!Asserted, Planned!Error, PP!Error, Planned!Issue, PP!Issue,
    Planned!SpeculationIssues, PP!SpeculationIssues
<1>5. \A a, b : Planned!CoverageIssues(a, b) = PP!CoverageIssues(a, b)
  BY DEF
    Planned!CoverageIssues, PP!CoverageIssues, Planned!Error, PP!Error, Planned!Issue, PP!Issue,
    Planned!Readable, PP!Readable, Planned!ToSet, PP!ToSet, Planned!Warning, PP!Warning
<1>6. \A a, b : Planned!IntegrationIssues(a, b) = PP!IntegrationIssues(a, b)
  BY DEF
    Planned!ComponentKey, PP!ComponentKey, Planned!Error, PP!Error, Planned!IntegrationIssues,
    PP!IntegrationIssues, Planned!Issue, PP!Issue, Planned!ToSet, PP!ToSet, Planned!When, PP!When
<1>7. \A a : Planned!ResponseIssues(a) = PP!ResponseIssues(a)
  BY DEF
    Planned!Inline, PP!Inline, Planned!Issue, PP!Issue, Planned!ResponseIssues, PP!ResponseIssues,
    Planned!Warning, PP!Warning
<1>8. \A a : Planned!FocusIssues(a) = PP!FocusIssues(a)
  BY DEF Planned!FocusIssues, PP!FocusIssues, Planned!Issue, PP!Issue
<1>9. \A a : Planned!FactIssues(a) = PP!FactIssues(a)
  BY DEF
    Planned!FactIssues, PP!FactIssues, Planned!Issue, PP!Issue, Planned!Readable, PP!Readable,
    Planned!ToSet, PP!ToSet, Planned!Warning, PP!Warning
<1>10. \A a, b : Planned!SupplementaryIssues(a, b) = PP!SupplementaryIssues(a, b)
  BY DEF
    Planned!FlattenSeq, PP!FlattenSeq, Planned!Issue, PP!Issue, Planned!SupplementaryIssues,
    PP!SupplementaryIssues, Planned!ToSet, PP!ToSet, Planned!Warning, PP!Warning
<1>11. \A a : Planned!Provenance(a) = PP!Provenance(a)
  BY DEF
    Planned!Cited, PP!Cited, Planned!ComponentKey, PP!ComponentKey, Planned!FieldTarget,
    PP!FieldTarget, Planned!FlattenSeq, PP!FlattenSeq, Planned!InfoEntries, PP!InfoEntries,
    Planned!Min, PP!Min, Planned!Provenance, PP!Provenance, Planned!SchemaEntries, PP!SchemaEntries,
    Planned!SchemaKeys, PP!SchemaKeys, Planned!Served, PP!Served, Planned!TargetOf, PP!TargetOf,
    Planned!ToSet, PP!ToSet, Planned!Webhooks, PP!Webhooks
<1>12. \A a, b, c : Planned!Issues(a, b, c) = PP!Issues(a, b, c)
  BY SameDocument, <1>1, <1>2, <1>3, <1>4, <1>5, <1>6, <1>7, <1>8, <1>9, <1>10, <1>11 DEF
    Planned!Issues, PP!Issues
<1> QED
  BY <1>1, <1>2, <1>3, <1>4, <1>5, <1>6, <1>7, <1>8, <1>9, <1>10, <1>11, <1>12

\* The plan of an inventory.
LEMMA SameEntries ==
  /\ \A a : Planned!Sound(a) = PP!Sound(a)
  /\ \A a, b : Planned!Gate!Classify(a, b) = PP!Gate!Classify(a, b)
  /\ \A a : Planned!Classified(a) = PP!Classified(a)
  /\ \A a : Planned!EndpointEntry(a) = PP!EndpointEntry(a)
  /\ \A a : Planned!Gate!Expand(a) = PP!Gate!Expand(a)
  /\ Planned!Gap = PP!Gap
  /\ \A a, b : Planned!Gaps(a, b) = PP!Gaps(a, b)
  /\ \A a : Planned!Unverified(a) = PP!Unverified(a)
  /\ Planned!Gate!Sections = PP!Gate!Sections
  /\ \A a : Planned!FieldEvidence(a) = PP!FieldEvidence(a)
  /\ \A a : Planned!SchemaEntry(a) = PP!SchemaEntry(a)
  /\ Planned!NoDetails = PP!NoDetails
  /\ Planned!InventoryPlan = PP!InventoryPlan
<1>1. \A a : Planned!Sound(a) = PP!Sound(a)
  BY DEF Planned!Kept, PP!Kept, Planned!Sound, PP!Sound, Planned!ToSet, PP!ToSet
<1>2. \A a, b : Planned!Gate!Classify(a, b) = PP!Gate!Classify(a, b)
  BY DEF
    Planned!Gate!Cardinality, PP!Gate!Cardinality, Planned!Gate!Classify, PP!Gate!Classify,
    Planned!Gate!Match, PP!Gate!Match, Planned!Gate!Min, PP!Gate!Min, Planned!Gate!Only,
    PP!Gate!Only, Planned!Gate!SoleSource, PP!Gate!SoleSource, Planned!Gate!Usable, PP!Gate!Usable
<1>3. \A a : Planned!Classified(a) = PP!Classified(a)
  BY SameLists, <1>2 DEF Planned!Classified, PP!Classified
<1>4. \A a : Planned!EndpointEntry(a) = PP!EndpointEntry(a)
  BY <1>3 DEF Planned!EndpointEntry, PP!EndpointEntry
<1>5. \A a : Planned!Gate!Expand(a) = PP!Gate!Expand(a)
  BY DEF Planned!Gate!Expand, PP!Gate!Expand, Planned!Gate!FlattenSeq, PP!Gate!FlattenSeq
<1>6. Planned!Gap = PP!Gap
  BY DEF Planned!Gap, PP!Gap
<1>7. \A a, b : Planned!Gaps(a, b) = PP!Gaps(a, b)
  BY DEF Planned!Gaps, PP!Gaps
<1>8. \A a : Planned!Unverified(a) = PP!Unverified(a)
  BY DEF Planned!Kept, PP!Kept, Planned!ToSet, PP!ToSet, Planned!Unverified, PP!Unverified
<1>9. Planned!Gate!Sections = PP!Gate!Sections
  BY DEF Planned!Gate!Sections, PP!Gate!Sections
<1>10. \A a : Planned!FieldEvidence(a) = PP!FieldEvidence(a)
  BY SameLists, <1>3 DEF Planned!FieldEvidence, PP!FieldEvidence
<1>11. \A a : Planned!SchemaEntry(a) = PP!SchemaEntry(a)
  BY SameLists, <1>10, <1>3 DEF Planned!SchemaEntry, PP!SchemaEntry
<1>12. Planned!NoDetails = PP!NoDetails
  BY <1>6 DEF Planned!NoDetails, PP!NoDetails
<1>13. Planned!InventoryPlan = PP!InventoryPlan
  BY SameLists, <1>1, <1>5, <1>3, <1>4, <1>11, <1>6, <1>7, <1>8, <1>9, <1>12 DEF
    Planned!InventoryPlan, PP!InventoryPlan
<1> QED
  BY <1>1, <1>2, <1>3, <1>4, <1>5, <1>6, <1>7, <1>8, <1>9, <1>10, <1>11, <1>12, <1>13

\* What a file is merged into.
LEMMA SameMerging ==
  /\ \A a, b : Planned!WithFields(a, b) = PP!WithFields(a, b)
  /\ \A a, b : Planned!MatchIndex(a, b) = PP!MatchIndex(a, b)
  /\ \A a, b : Planned!Stricter(a, b) = PP!Stricter(a, b)
  /\ \A a : Planned!MissingOf(a) = PP!MissingOf(a)
  /\ \A a : Planned!PathOf(a) = PP!PathOf(a)
<1>1. \A a, b : Planned!WithFields(a, b) = PP!WithFields(a, b)
  BY DEF Planned!Joined, PP!Joined, Planned!ToSet, PP!ToSet, Planned!WithFields, PP!WithFields
<1>2. \A a, b : Planned!MatchIndex(a, b) = PP!MatchIndex(a, b)
  BY DEF Planned!MatchIndex, PP!MatchIndex, Planned!Min, PP!Min, Planned!PathOf, PP!PathOf
<1>3. \A a, b : Planned!Stricter(a, b) = PP!Stricter(a, b)
  BY DEF Planned!Rank, PP!Rank, Planned!Stricter, PP!Stricter
<1>4. \A a : Planned!MissingOf(a) = PP!MissingOf(a)
  BY DEF Planned!Gaps, PP!Gaps, Planned!MissingOf, PP!MissingOf, Planned!PathOf, PP!PathOf
<1>5. \A a : Planned!PathOf(a) = PP!PathOf(a)
  BY DEF Planned!PathOf, PP!PathOf
<1> QED
  BY <1>1, <1>2, <1>3, <1>4, <1>5

\* The steps.
LEMMA SamePlanning ==
  /\ \A a, b : Planned!Gate!Accepted(a, b) <=> PP!Gate!Accepted(a, b)
  /\ Planned!Details = PP!Details
  /\ \A a : Planned!Collapsed(a) = PP!Collapsed(a)
  /\ \A a : Planned!Clashes(a) = PP!Clashes(a)
  /\ Planned!vars = PP!vars
  /\ Planned!Refuse <=> PP!Refuse
  /\ Planned!SkipDetail <=> PP!SkipDetail
  /\ Planned!Collapse <=> PP!Collapse
  /\ \A a, b, c, d : Planned!Score(a, b, c, d) = PP!Score(a, b, c, d)
  /\ \A a, b, c, d, e, f : Planned!Verdict(a, b, c, d, e, f) = PP!Verdict(a, b, c, d, e, f)
  /\ \A a, b : Planned!Findings(a, b) = PP!Findings(a, b)
  /\ \A a : Planned!MinScore(a) = PP!MinScore(a)
  /\ Planned!ScoreRun <=> PP!ScoreRun
  /\ Planned!BuildInventory <=> PP!BuildInventory
  /\ Planned!MergeDetail <=> PP!MergeDetail
  /\ Planned!AddDetail <=> PP!AddDetail
  /\ Planned!Validate <=> PP!Validate
  /\ Planned!Next <=> PP!Next
  /\ Planned!Init <=> PP!Init
<1>1. \A a, b : Planned!Gate!Accepted(a, b) <=> PP!Gate!Accepted(a, b)
  BY DEF
    Planned!Gate!Accepted, PP!Gate!Accepted, Planned!Gate!Bodies, PP!Gate!Bodies,
    Planned!Gate!Cardinality, PP!Gate!Cardinality, Planned!Gate!Cites, PP!Gate!Cites,
    Planned!Gate!Expand, PP!Gate!Expand, Planned!Gate!FieldResolves, PP!Gate!FieldResolves,
    Planned!Gate!FlattenSeq, PP!Gate!FlattenSeq, Planned!Gate!Identities, PP!Gate!Identities,
    Planned!Gate!Identity, PP!Gate!Identity, Planned!Gate!Match, PP!Gate!Match, Planned!Gate!Min,
    PP!Gate!Min, Planned!Gate!Names, PP!Gate!Names, Planned!Gate!NamesResolve, PP!Gate!NamesResolve,
    Planned!Gate!OneFileEach, PP!Gate!OneFileEach, Planned!Gate!Only, PP!Gate!Only,
    Planned!Gate!PathsRooted, PP!Gate!PathsRooted, Planned!Gate!RulesResolve, PP!Gate!RulesResolve,
    Planned!Gate!Sections, PP!Gate!Sections, Planned!Gate!SharedStaysShared,
    PP!Gate!SharedStaysShared, Planned!Gate!SoleNormative, PP!Gate!SoleNormative,
    Planned!Gate!SourcesNamed, PP!Gate!SourcesNamed, Planned!Gate!SourcesOf, PP!Gate!SourcesOf,
    Planned!Gate!Summarised, PP!Gate!Summarised, Planned!Gate!ToSet, PP!Gate!ToSet,
    Planned!Gate!Usable, PP!Gate!Usable
<1>2. Planned!Details = PP!Details
  BY SameLists, SameEntries DEF Planned!Details, PP!Details
<1>3. \A a : Planned!Collapsed(a) = PP!Collapsed(a)
  BY DEF
    Planned!Added, PP!Added, Planned!Collapsed, PP!Collapsed, Planned!Combined, PP!Combined,
    Planned!Joined, PP!Joined, Planned!Min, PP!Min, Planned!Rank, PP!Rank, Planned!Stricter,
    PP!Stricter, Planned!ToSet, PP!ToSet, Planned!WithFields, PP!WithFields
<1>4. \A a : Planned!Clashes(a) = PP!Clashes(a)
  BY DEF
    Planned!Added, PP!Added, Planned!Cardinality, PP!Cardinality, Planned!Clashes, PP!Clashes,
    Planned!Collapsed, PP!Collapsed, Planned!Combined, PP!Combined, Planned!Joined, PP!Joined,
    Planned!Min, PP!Min, Planned!Rank, PP!Rank, Planned!Stricter, PP!Stricter, Planned!ToSet,
    PP!ToSet, Planned!WithFields, PP!WithFields
<1>5. Planned!vars = PP!vars
  BY DEF Planned!vars, PP!vars
<1>6. Planned!Refuse <=> PP!Refuse
  BY <1>1 DEF Planned!Refuse, PP!Refuse, Planned!inputs, PP!inputs
<1>7. Planned!SkipDetail <=> PP!SkipDetail
  BY DEF
    Planned!Gap, PP!Gap, Planned!Next1, PP!Next1, Planned!SkipDetail, PP!SkipDetail, Planned!Taken,
    PP!Taken, Planned!inputs, PP!inputs
<1>8. Planned!Collapse <=> PP!Collapse
  BY SameEntries, <1>3, <1>4 DEF Planned!Collapse, PP!Collapse, Planned!inputs, PP!inputs
<1>9. \A a, b, c, d : Planned!Score(a, b, c, d) = PP!Score(a, b, c, d)
  BY DEF
    Planned!Blocking, PP!Blocking, Planned!CategoryGate, PP!CategoryGate, Planned!CategoryOf,
    PP!CategoryOf, Planned!CategoryScores, PP!CategoryScores, Planned!Findings, PP!Findings,
    Planned!Issue, PP!Issue, Planned!MapThenFoldSet, PP!MapThenFoldSet, Planned!MapThenSumSet,
    PP!MapThenSumSet, Planned!MinScore, PP!MinScore, Planned!Penalty, PP!Penalty, Planned!Rounded,
    PP!Rounded, Planned!Score, PP!Score, Planned!ToSet, PP!ToSet, Planned!Total, PP!Total,
    Planned!Unscored, PP!Unscored, Planned!Warning, PP!Warning, Planned!Weight, PP!Weight
<1>10. \A a, b, c, d, e, f : Planned!Verdict(a, b, c, d, e, f) = PP!Verdict(a, b, c, d, e, f)
  BY DEF Planned!Reducible, PP!Reducible, Planned!Verdict, PP!Verdict
<1>11. \A a, b : Planned!Findings(a, b) = PP!Findings(a, b)
  BY DEF
    Planned!Findings, PP!Findings, Planned!Issue, PP!Issue, Planned!ToSet, PP!ToSet,
    Planned!Unscored, PP!Unscored, Planned!Warning, PP!Warning
<1>12. \A a : Planned!MinScore(a) = PP!MinScore(a)
  BY DEF Planned!MinScore, PP!MinScore
<1>13. Planned!ScoreRun <=> PP!ScoreRun
  BY <1>9, <1>10, <1>11, <1>12 DEF Planned!ScoreRun, PP!ScoreRun, Planned!inputs, PP!inputs
<1>14. Planned!BuildInventory <=> PP!BuildInventory
  BY SameEntries, <1>2, <1>1 DEF
    Planned!BuildInventory, PP!BuildInventory, Planned!inputs, PP!inputs
<1>15. Planned!MergeDetail <=> PP!MergeDetail
  BY SameMerging, SameEntries DEF
    Planned!MergeDetail, PP!MergeDetail, Planned!Next1, PP!Next1, Planned!Taken, PP!Taken,
    Planned!inputs, PP!inputs
<1>16. Planned!AddDetail <=> PP!AddDetail
  BY SameMerging, SameEntries DEF
    Planned!AddDetail, PP!AddDetail, Planned!Next1, PP!Next1, Planned!Taken, PP!Taken,
    Planned!inputs, PP!inputs
<1>17. Planned!Validate <=> PP!Validate
  BY SameIssues DEF Planned!Validate, PP!Validate, Planned!inputs, PP!inputs
<1>18. Planned!Next <=> PP!Next
  BY <1>6, <1>14, <1>7, <1>15, <1>16, <1>8, <1>17, <1>13 DEF Planned!Next, PP!Next
<1>19. Planned!Init <=> PP!Init
  BY DEF Planned!Init, PP!Init
<1> QED
  BY <1>1, <1>2, <1>3, <1>4, <1>5, <1>6, <1>7, <1>8, <1>9, <1>10, <1>11, <1>12, <1>13, <1>14, <1>15,
     <1>16, <1>17, <1>18, <1>19

\* What a passing run says, and what is assumed of the constants.
LEMMA SamePassing ==
  /\ \A a : Planned!Attributable(a) <=> PP!Attributable(a)
  /\ Planned!Passed <=> PP!Passed
  /\ Planned!ExtractionsStated <=> PP!ExtractionsStated
  /\ Planned!ManifestsStated <=> PP!ManifestsStated
  /\ Planned!PassedMeansSupported <=> PP!PassedMeansSupported
<1>1. \A a : Planned!Attributable(a) <=> PP!Attributable(a)
  BY DEF
    Planned!Attributable, PP!Attributable, Planned!Cardinality, PP!Cardinality, Planned!ToSet,
    PP!ToSet
<1>2. Planned!Passed <=> PP!Passed
  BY DEF Planned!Ok, PP!Ok, Planned!Passed, PP!Passed
<1>3. Planned!ExtractionsStated <=> PP!ExtractionsStated
  BY DEF
    Planned!ExtractionsStated, PP!ExtractionsStated, Planned!Gate!Sections, PP!Gate!Sections,
    Planned!Listed, PP!Listed, Planned!ToSet, PP!ToSet
<1>4. Planned!ManifestsStated <=> PP!ManifestsStated
  BY DEF
    Planned!Listed, PP!Listed, Planned!ManifestsStated, PP!ManifestsStated, Planned!ToSet, PP!ToSet
<1>5. Planned!PassedMeansSupported <=> PP!PassedMeansSupported
  BY SameLists, SameDocument, SameMerging, SameEntries, <1>1, <1>2 DEF
    Planned!PassedMeansSupported, PP!PassedMeansSupported
<1> QED
  BY <1>1, <1>2, <1>3, <1>4, <1>5

\* A part that plans goes on planning, by the steps of either instance.
LEMMA PlanGoesOn ==
  part = "plan" /\ [MCNext]_everything => part' = "plan" /\ [PP!Next]_PP!vars
<1>1. part = "plan" /\ [MCNext]_everything => part' = "plan" /\ (Planned!Next \/ UNCHANGED planning)
  BY DEF MCNext, everything
<1>2. UNCHANGED planning => UNCHANGED PP!vars
  BY DEF planning, PP!vars
<1> QED
  BY <1>1, <1>2, SamePlanning

\* A run passes only when everything its contract is made of can be attributed to a document and
\* each operation has the responses and parameters of the files written for it, for any
\* extractions, manifests, path templates and score profiles.
THEOREM PassingRunsSupported == MCSpec => []PassedMeansSupported
<1>1. PP!ExtractionsStated /\ PP!ManifestsStated
  BY ExtractionsAssumption, SamePassing
<1>2. MCInit /\ part = "plan" => PP!PlanningInv
  BY SamePlanning, PP!PlanningStarts DEF MCInit
<1>3. PP!PlanningInv /\ part = "plan" /\ [MCNext]_everything => (PP!PlanningInv /\ part = "plan")'
  BY <1>1, PlanGoesOn, PP!PlanningStep
<1>4. ~(part = "plan") /\ [MCNext]_everything => (~(part = "plan"))'
  BY DEF MCNext, everything
<1>5. PP!PlanningInv => Planned!PassedMeansSupported
  BY <1>1, SamePassing, PP!PlanningSupports
<1>6. (PP!PlanningInv => PassedMeansSupported) /\ (~(part = "plan") => PassedMeansSupported)
  BY <1>5 DEF PassedMeansSupported
<1> QED
  BY <1>2, <1>3, <1>4, <1>6, PTL DEF MCSpec, everything
=============================================================================
