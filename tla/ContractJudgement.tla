-------------------------- MODULE ContractJudgement --------------------------
(***************************************************************************)
(* The validation report of a plan and its products (validate/), the score *)
(* of a run (score/evaluate.py) and the verdict that ends its correction   *)
(* (score/loop.py).                                                        *)
(*                                                                         *)
(* An issue is [code, severity, at], at being <<what, where>>; wording and *)
(* repair hints are left out, and so are the OpenAPI schema's own          *)
(* validator, the signing code of request examples, and the composition of *)
(* schemas.                                                                *)
(***************************************************************************)
EXTENDS Integers, FiniteSets, ContractProducts

CONSTANT Successes  \* the response statuses that say an operation succeeded

Issue(code, severity, at) == [code |-> code, severity |-> severity, at |-> at]
Error(code, at) == Issue(code, "error", at)
Warning(code, at) == Issue(code, "warning", at)
When(condition, issue) == IF condition THEN {issue} ELSE {}

At(e, i) == IF e.path # None THEN <<"paths", e.path, e.method>> ELSE <<"endpoints", i>>

-----------------------------------------------------------------------------
(* The document and the plan.                                              *)

\* check_structure: references that lead nowhere.
StructureIssues(doc) ==
  LET operations == {doc.paths[p] : p \in DOMAIN doc.paths} \cup {doc.webhooks[w] : w \in DOMAIN doc.webhooks}
      refs == (UNION {UNION {o.responses[s] : s \in DOMAIN o.responses} : o \in operations}) \ {Inline}
  IN  {Error("OPENAPI_INVALID", <<"ref", r>>) : r \in refs \ DOMAIN doc.schemas}

\* _has_auth_marker.
SpeaksOfAuth(plan) ==
  \/ \E g \in ToSet(plan.missing) : g.auth
  \/ \E o \in ToSet(plan.operational) : o.auth
  \/ \E c \in ToSet(plan.integration) : c.section = "crypto"

\* check_completeness: an operation needs a response, a webhook should have one.
EndpointIssues(e, i) ==
  When(e.responses = <<>>,
       Issue("REQUIRED_INFO_MISSING", IF e.path # None THEN "error" ELSE "warning", <<"responses", At(e, i)>>))
  \cup When(e.summary = None, Warning("REQUIRED_INFO_MISSING", <<"summary", At(e, i)>>))
  \cup When(~e.examples, Warning("REQUIRED_INFO_MISSING", <<"examples", At(e, i)>>))

CompletenessIssues(plan) ==
  (UNION {EndpointIssues(plan.endpoints[i], i) : i \in DOMAIN plan.endpoints})
  \cup When((\E e \in ToSet(plan.endpoints) : e.path # None) /\ Served(plan) = <<>>,
            Warning("REQUIRED_INFO_MISSING", <<"plan", "servers">>))
  \cup When(plan.security_schemes = <<>> /\ ~SpeaksOfAuth(plan), Error("REQUIRED_INFO_MISSING", <<"plan", "schemes">>))
  \cup When(plan.operational = <<>>, Warning("REQUIRED_INFO_MISSING", <<"plan", "operational">>))
  \cup {Error("SOURCE_UNVERIFIED", <<"unverified", i>>) : i \in DOMAIN plan.unverified}
  \cup {Error("SOURCE_CONFLICT", <<"conflict", i>>) : i \in DOMAIN plan.conflicts}

\* The inventories of the Markdown guide.
GuideOperations(plan) == {<<e.path, e.method>> : e \in {f \in ToSet(plan.endpoints) : f.path # None}}
GuideWebhooks(plan) == {<<w[1], w[2].method>> : w \in ToSet(Webhooks(plan.endpoints))}

\* check_consistency, _path_parameter_conflicts.
ConsistencyIssues(doc, plan) ==
  LET apart(a, b) == (a \ b) \cup (b \ a)
      hooks == {<<w, doc.webhooks[w].method>> : w \in DOMAIN doc.webhooks}
      orphans(p) == {q \in doc.paths[p].params : q.in = "path" /\ q.name \notin Tokens[p[1]]}
  IN  {Error("OUTPUT_MISMATCH", <<"inventory", d>>) :
         d \in apart(DOMAIN doc.paths, GuideOperations(plan)) \cup apart(hooks, GuideWebhooks(plan))}
      \cup UNION {{Error("SOURCE_CONFLICT", <<"parameter", <<p, q.name>>>>) : q \in orphans(p)} : p \in DOMAIN doc.paths}

-----------------------------------------------------------------------------
(* The sources behind it.                                                  *)

\* _asserted_targets, without the placeholders: what the document claims.  Webhooks are not in it.
Asserted(doc) ==
  {<<"info", "title">>, <<"info", "version">>}
  \cup {<<"servers", ToString(i - 1)>> : i \in 1..doc.servers}
  \cup {<<"schemes", k>> : k \in {s \in DOMAIN doc.schemes : doc.schemes[s]}}
  \cup {<<"paths", p[1], p[2]>> : p \in DOMAIN doc.paths}
  \cup UNION {{<<"schemas", k>>} \cup {<<"schemas", k>> \o t : t \in doc.schemas[k]} : k \in DOMAIN doc.schemas}

\* check_speculation: a property without an entry is judged by its schema's; one supported
\* entry is enough.
SpeculationIssues(doc, provenance) ==
  LET of(target) == {e.status : e \in {p \in provenance : p.target = target}}
      statuses(t) == IF of(t) = {} /\ t[1] = "schemas" THEN of(<<t[1], t[2]>>) ELSE of(t)
      placeholder(t) == t[1] = "info" /\ ~doc.stated
      judged(t) ==
        IF statuses(t) = {} THEN {Error("UNSUPPORTED_ASSERTION", <<"target", t>>)}
        ELSE IF "conflicting" \in statuses(t) THEN {Error("SOURCE_CONFLICT", <<"target", t>>)}
        ELSE IF "supported" \in statuses(t) THEN {}
        ELSE {Error("SOURCE_UNVERIFIED", <<"target", t>>)}
  IN  UNION {judged(t) : t \in {a \in Asserted(doc) : ~placeholder(a)}}

Readable(manifest) == {f \in ToSet(manifest.local) : f.status = "pending"}

\* check_manifest_coverage: a snapshot that was read stands for its URL.
CoverageIssues(manifest, provenance) ==
  LET local == ToSet(manifest.local)
      urls == {u \in ToSet(manifest.urls) : u.ok /\ u.snapshot \notin {f.path : f \in Readable(manifest)}}
      documents == {f.path : f \in Readable(manifest)} \cup {u.id : u \in urls}
  IN  {Error("SOURCE_UNVERIFIED", <<"source", f.path>>) : f \in {g \in local : g.status = "unreadable"}}
      \cup {Warning("SOURCE_UNVERIFIED", <<"source", f.path>>) : f \in {g \in local : g.status = "unsupported"}}
      \cup {Warning("SOURCE_UNVERIFIED", <<"source", d>>) : d \in documents \ {e.source : e \in provenance}}

\* check_supplementary_support: a claim that only letters and notes carry.
SupplementaryIssues(plan, manifest) ==
  LET carriers == {f.path : f \in {g \in ToSet(manifest.local) : g.authority = "supplementary"}}
      thin(item) == LET named == {c.source : c \in item.cites} \ {None}
                    IN  named # {} /\ named \subseteq carriers
      issues(section, items) ==
        {Warning("SUPPLEMENTARY_SUPPORT", <<section, i>>) : i \in {j \in DOMAIN items : thin(items[j])}}
      sections == {<<"environments", plan.environments>>, <<"schemes", plan.security_schemes>>,
                   <<"endpoints", plan.endpoints>>, <<"schemas", plan.schemas>>, <<"errors", plan.errors>>,
                   <<"operational", plan.operational>>, <<"integration", plan.integration>>,
                   <<"fields", FlattenSeq([i \in DOMAIN plan.schemas |-> plan.schemas[i].evidence])>>}
  IN  UNION {issues(s[1], s[2]) : s \in sections}

\* check_fact_coverage: sources of which the fact scanner judged nothing.
FactIssues(manifest) ==
  {Warning("SOURCE_FACTS_UNSCANNED", <<"source", f.path>>) : f \in {g \in Readable(manifest) : ~g.judged}}

-----------------------------------------------------------------------------
(* Contracts and questions.                                                *)

\* _uncited, _refs.  A callback names its payload as it is or as its key.
IntegrationIssues(plan, doc) ==
  LET dangling(c) ==
        \/ c.section = "callbacks" /\ c.payload # None
           /\ {c.payload, ComponentKey(c.payload, 1, "schema")} \cap DOMAIN doc.schemas = {}
        \/ c.section = "test_cases" /\ c.operation \notin DOMAIN doc.paths \cup {None}
      issues(i, c) ==
        When(c.status = "conflicting", Error("SOURCE_CONFLICT", <<"integration", i>>))
        \cup When(c.status = "unverified", Error("SOURCE_UNVERIFIED", <<"integration", i>>))
        \cup When(dangling(c), Error("OUTPUT_MISMATCH", <<"integration", i>>))
  IN  (UNION {issues(i, plan.integration[i]) : i \in DOMAIN plan.integration})
      \cup When((\E o \in ToSet(plan.operational) : o.signs)
                  /\ ~\E c \in ToSet(plan.integration) : c.section = "crypto",
                Error("REQUIRED_INFO_MISSING", <<"plan", "crypto">>))

\* analyze_response_contracts: an operation whose successes describe no field is hollow.
ResponseIssues(doc) ==
  LET fields(schema) == schema = Inline \/ (schema \in DOMAIN doc.schemas /\ doc.schemas[schema] # {})
      responses(p) == doc.paths[p].responses
      hollow(p) == \A s \in DOMAIN responses(p) \cap (Successes \cup {"default"}) :
                     \A schema \in responses(p)[s] : ~fields(schema)
      placeholder(p) == DOMAIN responses(p) = {}
  IN  {Warning("REQUIRED_INFO_MISSING", <<"contract", p>>) :
         p \in {q \in DOMAIN doc.paths : hollow(q) /\ ~placeholder(q)}}

\* check_focus_outcomes: what an expectation misses is an error, what a coverage misses is not.
FocusIssues(focus) ==
  LET severity(d) == IF d.kind = "expectation" THEN "error" ELSE "warning"
      short(d) == d.intent = "collect_error_codes" /\ d.outcome = "satisfied" /\ d.floor \ d.anchors # {}
  IN  {Issue("FOCUS_UNMET", severity(d), <<"focus", d.id>>) : d \in {f \in focus : f.outcome = "not_found"}}
      \cup {Issue("FOCUS_INCOMPLETE", severity(d), <<"focus", d.id>>) : d \in {f \in focus : short(f)}}

\* validate_outputs.
Issues(plan, manifest, focus) ==
  LET doc == OpenApi(plan)
      provenance == Provenance(plan)
  IN  StructureIssues(doc) \cup CompletenessIssues(plan) \cup ConsistencyIssues(doc, plan)
      \cup SpeculationIssues(doc, provenance) \cup CoverageIssues(manifest, provenance)
      \cup IntegrationIssues(plan, doc) \cup ResponseIssues(doc) \cup FocusIssues(focus)
      \cup FactIssues(manifest) \cup SupplementaryIssues(plan, manifest)

\* ValidationReport.ok.
Ok(issues) == \A i \in issues : i.severity # "error"

-----------------------------------------------------------------------------
(* The score.                                                              *)

Unscored == {"FOCUS_UNMET", "FOCUS_INCOMPLETE"}

Weight == [openapi_validity |-> 20, completeness |-> 30, consistency |-> 20,
           source_grounding |-> 20, reviewability |-> 10]

CategoryOf(code) ==
  CASE code = "OPENAPI_INVALID" -> "openapi_validity"
    [] code = "REQUIRED_INFO_MISSING" -> "completeness"
    [] code = "OUTPUT_MISMATCH" -> "consistency"
    [] code \in {"SOURCE_UNSUPPORTED", "SOURCE_UNREADABLE"} -> "reviewability"
    [] OTHER -> "source_grounding"

\* _issue_penalty, _declared_example_gap, and the impact of _reviewability_findings.
Penalty(i, plan) ==
  LET declared == \E g \in ToSet(plan.missing) : g.example /\ i.at = <<"examples", g.at>>
  IN  CASE i.code = "SOURCE_UNSUPPORTED" -> 10
        [] i.code = "SOURCE_UNREADABLE" -> 15
        [] i.code = "REQUIRED_INFO_MISSING" /\ declared -> 0
        [] i.severity = "warning" -> 12
        [] i.code = "OPENAPI_INVALID" -> 100
        [] i.code \in {"UNSUPPORTED_ASSERTION", "SOURCE_CONFLICT"} -> 50
        [] OTHER -> 40

\* The findings of evaluate_score; the pages a run always has are left out.
Findings(issues, manifest) ==
  {i \in issues : i.code \notin Unscored}
  \cup {Warning("SOURCE_UNSUPPORTED", <<"source", f.path>>) : f \in {g \in ToSet(manifest.local) : g.status = "unsupported"}}
  \cup {Warning("SOURCE_UNREADABLE", <<"source", f.path>>) : f \in {g \in ToSet(manifest.local) : g.status = "unreadable"}}

\* _is_blocking.
Blocking(i, profile) ==
  /\ i.severity = "error"
  /\ profile = "review" =>
       i.code \in {"OPENAPI_INVALID", "OUTPUT_MISMATCH", "SOURCE_CONFLICT", "UNSUPPORTED_ASSERTION"}

\* _category_scores.
CategoryScores(findings, plan) ==
  [c \in DOMAIN Weight |->
     LET lost == MapThenSumSet(LAMBDA i : Penalty(i, plan), {i \in findings : CategoryOf(i.code) = c})
     IN  IF lost >= 100 THEN 0 ELSE 100 - lost]

\* _weighted_total: Python's round, to the even neighbour of a half.
Rounded(hundredths) ==
  LET below == hundredths \div 100
      rest == hundredths % 100
  IN  IF rest > 50 \/ (rest = 50 /\ below % 2 = 1) THEN below + 1 ELSE below

Total(scores) == Rounded(MapThenSumSet(LAMBDA c : Weight[c] * scores[c], DOMAIN Weight))

MinScore(profile) == IF profile = "ci" THEN 85 ELSE 70
CategoryGate(profile) == IF profile = "ci" THEN 70 ELSE 60

\* evaluate_score, _status.
Score(issues, plan, manifest, profile) ==
  LET findings == Findings(issues, manifest)
      scores == CategoryScores(findings, plan)
      failed == (\E i \in findings : Blocking(i, profile)) \/ Total(scores) < MinScore(profile)
      attention == (\E c \in DOMAIN scores : scores[c] < CategoryGate(profile)) \/ findings # {}
  IN  [status |-> IF failed THEN "fail" ELSE IF attention THEN "needs_attention" ELSE "pass",
       score |-> Total(scores)]

\* _is_reducible: what reading the sources again may repair.
Reducible(i) ==
  /\ i.severity = "error"
  /\ i.code \in {"OPENAPI_INVALID", "OUTPUT_MISMATCH", "REQUIRED_INFO_MISSING", "SOURCE_UNVERIFIED"}

\* loop_verdict.
Verdict(previous, score, target, round, rounds, findings) ==
  IF score >= target THEN "converged"
  ELSE IF round >= rounds THEN "exhausted"
  ELSE IF ~\E i \in findings : Reducible(i) THEN "plateau"
  ELSE IF previous # None /\ score <= previous THEN "plateau"
  ELSE "continue"
=============================================================================
