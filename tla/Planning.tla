------------------------------ MODULE Planning ------------------------------
(***************************************************************************)
(* From an accepted extraction to the judgement of its contract            *)
(* (plan/builder.py, plan/integration.py, validate/validator.py, score/):  *)
(* the inventory becomes the entries of a plan, the endpoint files are     *)
(* merged into them one by one, entries of one operation collapse, and the *)
(* plan's products are validated and scored.                               *)
(*                                                                         *)
(* A file is merged once for each of its methods.  An item whose shape the *)
(* plan's models refuse has ok = FALSE; a file's url gives its path when   *)
(* it states none.  Tags, examples' contents and identifiers of answers    *)
(* are left out.                                                           *)
(***************************************************************************)
EXTENDS ContractJudgement

CONSTANTS
  Unrooted,     \* paths that do not begin with "/"
  Extractions,  \* what the agents may have written
  Manifests,    \* the sources it may have been written from
  Focuses,      \* sets of answered directives
  Profiles,     \* score profiles
  Scores,       \* the previous scores a caller may give, or None
  Rounds        \* the round and the number of rounds a caller may give

VARIABLES
  stage,       \* "given", "refused", "merging", "merged", "planned", "judged" or "scored"
  extraction, manifest, focus, profile,
  draft,       \* the NormalizationPlan, or None
  pending,     \* the details that are not merged yet
  consumed,    \* the webhooks that have their detail
  issues,      \* of the validation report
  score, verdict

vars == <<stage, extraction, manifest, focus, profile, draft, pending, consumed, issues, score, verdict>>
inputs == <<extraction, manifest, focus, profile>>

Gate == INSTANCE ExtractionGate

\* What the models of an extraction and a manifest make of what was written: lists are sequences,
\* an endpoint and its file say what they are of, and a method is a name.
Listed(s) == s \in Seq(ToSet(s))
ExtractionsStated ==
  \A x \in Extractions :
    /\ Listed(x.files) /\ Listed(x.integration)
    /\ \A s \in ToSet(Gate!Sections) : Listed(x.inventory[s])
    /\ \A s \in ToSet(x.inventory.schemas) : Listed(s.fields)
    /\ \A e \in ToSet(x.inventory.endpoints) \cup ToSet(x.files) :
         /\ {"ok", "path", "source", "method"} \subseteq DOMAIN e /\ e.method = None
         /\ Listed(e.methods) /\ None \notin ToSet(e.methods)
    /\ \A f \in ToSet(x.files) :
         {"url", "params", "responses"} \subseteq DOMAIN f /\ Listed(f.params) /\ Listed(f.responses)
ManifestsStated == \A m \in Manifests : Listed(m.local) /\ Listed(m.urls)

Init ==
  /\ stage = "given" /\ extraction \in Extractions /\ manifest \in Manifests
  /\ focus \in Focuses /\ profile \in Profiles
  /\ draft = None /\ pending = <<>> /\ consumed = {}
  /\ issues = {} /\ score = None /\ verdict = None

-----------------------------------------------------------------------------
(* The inventory.                                                          *)

Classified(item) == Filled(Gate!Classify(item.source, manifest), item)

\* _schema_field_evidence: only fields that cite; their citations are the schema's too.
FieldEvidence(s) ==
  LET cited == Kept(s.fields, {f \in ToSet(s.fields) : f.source # None})
  IN  [i \in DOMAIN cited |-> Classified(cited[i])]

SchemaEntry(s) ==
  LET evidence == FieldEvidence(s)
      item == Classified(s)
  IN  Filled([evidence |-> evidence], [item EXCEPT !.cites = @ \cup UNION {e.cites : e \in ToSet(evidence)}])

EndpointEntry(e) ==
  Classified([method |-> e.method, path |-> e.path, summary |-> e.summary, server |-> e.server,
              source |-> e.source, params |-> <<>>, request |-> None, responses |-> <<>>,
              examples |-> FALSE, security |-> <<>>])

Sound(items) == Kept(items, {i \in ToSet(items) : i.ok})
Unverified(items) == Kept(items, {i \in ToSet(items) : i.status = "unverified"})
Gap == [auth |-> FALSE, example |-> FALSE, at |-> None]
Gaps(stated, at) == [i \in DOMAIN stated |-> [auth |-> stated[i].auth, example |-> stated[i].example, at |-> at]]

\* An extraction without files has no details: they are a missing item.
NoDetails == IF extraction.files = <<>> THEN <<Gap>> ELSE <<>>

\* The stages 03 to 10 of build_normalization_plan: an item of a wrong shape is a missing item.
InventoryPlan ==
  LET x == extraction.inventory
      entries(items, Entry(_)) == [i \in DOMAIN Sound(items) |-> Entry(Sound(items)[i])]
      malformed == FlattenSeq([s \in 1..Len(Gate!Sections) |->
        LET unfit == SelectSeq(x[Gate!Sections[s]], LAMBDA i : ~i.ok) IN [i \in DOMAIN unfit |-> Gap]])
      environments == entries(x.environments, Classified)
      schemes == entries(x.security_schemes, Classified)
      endpoints == entries(Gate!Expand(x.endpoints), EndpointEntry)
      schemas == entries(x.schemas, SchemaEntry)
      errors == entries(x.errors, Classified)
      operational == entries(x.operational, Classified)
      evidence == FlattenSeq([i \in DOMAIN schemas |-> schemas[i].evidence])
      cited == FlattenSeq(<<environments, schemes, endpoints, schemas, errors, operational, evidence>>)
  IN  [title |-> extraction.title, version |-> extraction.version,
       environments |-> environments, security_schemes |-> schemes, endpoints |-> endpoints,
       schemas |-> schemas, errors |-> errors, operational |-> operational, integration |-> <<>>,
       missing |-> malformed \o Gaps(extraction.missing, None) \o NoDetails,
       unverified |-> Unverified(cited), conflicts |-> <<>>]

\* build_extraction_from_files: one detail for each method of a file.
Details ==
  FlattenSeq([i \in DOMAIN extraction.files |->
    LET expanded == Gate!Expand(<<extraction.files[i]>>)
    IN  IF expanded = <<>> THEN <<extraction.files[i]>> ELSE expanded])

\* check_extraction: nothing is built from an extraction that is refused.
Refuse ==
  /\ stage = "given" /\ ~Gate!Accepted(extraction, manifest)
  /\ stage' = "refused"
  /\ UNCHANGED <<inputs, draft, pending, consumed, issues, score, verdict>>

BuildInventory ==
  /\ stage = "given" /\ Gate!Accepted(extraction, manifest)
  /\ draft' = InventoryPlan /\ pending' = Details /\ stage' = "merging"
  /\ UNCHANGED <<inputs, consumed, issues, score, verdict>>

-----------------------------------------------------------------------------
(* The files.                                                              *)

\* _STATUS_RANK, _stricter.
Rank == [supported |-> 0, missing |-> 1, unverified |-> 2, conflicting |-> 3]
StricterLax(a, b) == IF Rank[a] >= Rank[b] THEN b ELSE a
Stricter(a, b) == IF Rank[a] >= Rank[b] THEN a ELSE b

\* _union_list by the fields that tell items apart, _union_str: what is there already stays.
Joined(base, extra, fields) ==
  LET key(item) == IF fields = {} THEN item ELSE [f \in fields |-> item[f]]
      joined[n \in 0..Len(extra)] ==
        IF n = 0 THEN base
        ELSE IF \E b \in ToSet(joined[n - 1]) : key(b) = key(extra[n]) THEN joined[n - 1]
        ELSE Append(joined[n - 1], extra[n])
  IN  joined[Len(extra)]

\* _union_endpoint_fields: the first request wins.
WithFields(e, d) ==
  [e EXCEPT !.params = Joined(@, d.params, {"name", "in"}),
            !.responses = Joined(@, d.responses, {"status"}),
            !.examples = @ \/ d.examples,
            !.request = IF @ # None THEN @ ELSE d.request,
            !.security = Joined(@, d.security, {})]

\* _detail_path.
PathOf(d) == IF d.path # None THEN d.path ELSE d.url

\* _match_index: an operation by its method and path; a webhook by its locator, then by its
\* document, each once.
MatchIndex(d, item) ==
  LET all == draft.endpoints
      first(indices) == IF indices = {} THEN 0 ELSE Min(indices)
      hooks == {i \in DOMAIN all \ consumed : all[i].method = d.method /\ all[i].path = None}
      located == {i \in hooks : item.source # None /\ item.source \in {c.locator : c \in all[i].cites}}
      sourced == {i \in hooks : \E c \in all[i].cites : c.source # None
                                  /\ c.source \in {k.source : k \in item.cites}}
  IN  IF PathOf(d) # None
      THEN first({i \in DOMAIN all : all[i].method = d.method /\ all[i].path = PathOf(d)})
      ELSE IF located # {} THEN first(located) ELSE first(sourced)

MissingOf(d) == Gaps(d.missing, IF PathOf(d) = None THEN None ELSE <<"paths", PathOf(d), d.method>>)
Next1 == Head(pending)
Taken == pending' = Tail(pending) /\ UNCHANGED <<inputs, stage, issues, score, verdict>>

\* A file that has no method is noted and skipped; the gaps and conflicts it states are not.
SkipDetail ==
  /\ stage = "merging" /\ pending # <<>> /\ Next1.method = None
  /\ draft' = [draft EXCEPT !.missing = Append(@, Gap)]
  /\ Taken /\ UNCHANGED consumed

\* _merge_one_detail, when an entry is the detail's.
MergeDetail ==
  /\ stage = "merging" /\ pending # <<>> /\ Next1.method # None
  /\ LET d == Next1
         item == Classified(d)
         i == MatchIndex(d, item)
         status == Stricter(draft.endpoints[i].status, item.status)
         merged == [WithFields(draft.endpoints[i], d) EXCEPT !.status = status, !.cites = @ \cup item.cites]
         flagged == status # draft.endpoints[i].status /\ status \in {"unverified", "conflicting"}
     IN  /\ i # 0
         /\ IF d.ok
            THEN /\ draft' = [draft EXCEPT
                      !.endpoints[i] = merged,
                      !.unverified = IF flagged THEN Append(@, item) ELSE @,
                      !.missing = @ \o MissingOf(d), !.conflicts = @ \o d.conflicts]
                 /\ consumed' = IF PathOf(d) = None THEN consumed \cup {i} ELSE consumed
            ELSE /\ draft' = [draft EXCEPT !.missing = Append(@, Gap) \o MissingOf(d),
                                            !.conflicts = @ \o d.conflicts]
                 /\ UNCHANGED consumed
  /\ Taken

\* _merge_one_detail, when none is: the detail is an endpoint of its own, without a summary.
AddDetail ==
  /\ stage = "merging" /\ pending # <<>> /\ Next1.method # None
  /\ LET d == Next1
         item == Classified(d)
         entry == [EndpointEntry(d) EXCEPT
           !.path = PathOf(d), !.summary = None, !.server = None, !.params = d.params,
           !.request = d.request, !.responses = d.responses, !.examples = d.examples, !.security = d.security]
     IN  /\ MatchIndex(d, item) = 0
         /\ draft' = IF d.ok
                     THEN [draft EXCEPT !.endpoints = Append(@, entry),
                                        !.unverified = @ \o Unverified(<<item>>),
                                        !.missing = @ \o MissingOf(d), !.conflicts = @ \o d.conflicts]
                     ELSE [draft EXCEPT !.missing = Append(@, Gap) \o MissingOf(d),
                                        !.conflicts = @ \o d.conflicts]
  /\ Taken /\ UNCHANGED consumed

-----------------------------------------------------------------------------
(* The plan, its report and its score.                                     *)

\* _combine_endpoints.
Combined(a, b) ==
  LET clash == a.server # None /\ b.server # None /\ a.server # b.server
      worse == Stricter(a.status, b.status)
  IN  [WithFields(a, b) EXCEPT
         !.summary = IF @ = None THEN b.summary ELSE @,
         !.server = IF @ = None THEN b.server ELSE @,
         !.cites = @ \cup b.cites,
         !.status = IF clash THEN Stricter(worse, "conflicting") ELSE worse]

\* _dedupe_endpoints: endpoints of one operation become one, in the first one's place.
Added(endpoints, e) ==
  LET same == {i \in DOMAIN endpoints :
                 e.path # None /\ endpoints[i].path = e.path /\ endpoints[i].method = e.method}
  IN  IF same = {} THEN Append(endpoints, e) ELSE [endpoints EXCEPT ![Min(same)] = Combined(@, e)]

Collapsed(endpoints) ==
  LET collapsed[n \in 0..Len(endpoints)] ==
        IF n = 0 THEN <<>> ELSE Added(collapsed[n - 1], endpoints[n])
  IN  collapsed[Len(endpoints)]

\* The conflicts that collapsing exposes.
Clashes(endpoints) ==
  LET servers(e) == {f.server : f \in {g \in ToSet(endpoints) : g.path = e.path /\ g.method = e.method}} \ {None}
  IN  SelectSeq(Collapsed(endpoints), LAMBDA e : e.path # None /\ Cardinality(servers(e)) > 1)

\* _dedupe_endpoints, then build_integration_contract.
Collapse ==
  /\ stage = "merging" /\ pending = <<>>
  /\ draft' = [draft EXCEPT
       !.endpoints = Collapsed(@),
       !.conflicts = @ \o Clashes(draft.endpoints),
       !.integration = [i \in DOMAIN extraction.integration |-> Classified(extraction.integration[i])]]
  /\ stage' = "planned"
  /\ UNCHANGED <<inputs, pending, consumed, issues, score, verdict>>

\* generate and validate_outputs.
Validate ==
  /\ stage = "planned"
  /\ issues' = Issues(draft, manifest, focus) /\ stage' = "judged"
  /\ UNCHANGED <<inputs, draft, pending, consumed, score, verdict>>

\* evaluate_score, and loop_verdict for a caller who says what the last score was.
ScoreRun ==
  /\ stage = "judged"
  /\ LET scored == Score(issues, draft, manifest, profile) IN
     \E previous \in Scores, round \in Rounds, rounds \in Rounds :
       /\ score' = scored
       /\ verdict' = Verdict(previous, scored.score, MinScore(profile), round, rounds,
                             Findings(issues, manifest))
  /\ stage' = "scored"
  /\ UNCHANGED <<inputs, draft, pending, consumed, issues>>

Next ==
  \/ Refuse \/ BuildInventory
  \/ SkipDetail \/ MergeDetail \/ AddDetail
  \/ Collapse \/ Validate \/ ScoreRun

Spec == Init /\ [][Next]_vars

-----------------------------------------------------------------------------
(* Properties.                                                             *)

\* The run passed: no error, or a score for CI that is not a failure.
Passed == stage = "scored" /\ (Ok(issues) \/ (profile = "ci" /\ score.status # "fail"))

\* A source says which document it is of, or there is only one.
Attributable(source) ==
  LET files == {f \in ToSet(manifest.local) : f.status = "pending"}
      urls == {u \in ToSet(manifest.urls) : u.snapshot \notin {f.path : f \in files}}
      names == (UNION {{f.path, f.base} : f \in ToSet(manifest.local)})
               \cup UNION {{u.id, u.fetched} : u \in ToSet(manifest.urls)}
  IN  Cardinality(files) + Cardinality(urls) = 1 \/ (source # None /\ source.names \cap names # {})

\* When a run passes, everything its contract is made of can be attributed to a document: each item
\* of the inventory, field that cites, endpoint file and integration rule; and each operation has
\* the responses and parameters of the files written for it, at least one response, and a parameter
\* for each variable of its path.  Webhooks' details are not in it (validate/completeness.py:77), and
\* no endpoint or file that has no method is (operation_identity.py:19, plan/builder.py:545).
PassedMeansSupported ==
  Passed =>
    LET x == extraction.inventory
        doc == OpenApi(draft)
        sound(items) == {i \in ToSet(items) : i.ok}
        of(p) == {f \in sound(extraction.files) : PathOf(f) = p[1] /\ p[2] \in ToSet(f.methods)}
        stated(p, f) ==
          /\ {r.status : r \in ToSet(f.responses)} \cap Statuses \subseteq DOMAIN doc.paths[p].responses
          /\ \A q \in ToSet(f.params) : q.in # "body" => [name |-> q.name, in |-> q.in] \in doc.paths[p].params
    IN  /\ \A s \in ToSet(Gate!Sections) \ {"endpoints"} : \A i \in sound(x[s]) : Attributable(i.source)
        /\ \A s \in sound(x.schemas) : \A f \in ToSet(s.fields) : f.source # None => Attributable(f.source)
        /\ \A i \in sound(x.endpoints) \cup sound(extraction.files) : i.methods # <<>> => Attributable(i.source)
        /\ \A i \in ToSet(extraction.integration) : Attributable(i.source)
        /\ \A e \in sound(x.endpoints) :
             e.path # None => \A m \in ToSet(e.methods) : <<e.path, m>> \in DOMAIN doc.paths
        /\ \A p \in DOMAIN doc.paths :
             /\ \E f \in of(p) : f.responses # <<>>
             /\ \A f \in of(p) : stated(p, f)
             /\ {q.name : q \in {r \in doc.paths[p].params : r.in = "path"}} = Tokens[p[1]]

\* "Generation keys on method and path, or on the summary of a webhook, and never looks at file
\* names" (agentcli/cross_file.py): in a run without errors each webhook has the responses of the
\* file of its method and summary.
WebhookKeepsItsDetail ==
  stage = "judged" /\ Ok(issues) =>
    \A e \in ToSet(draft.endpoints) : \A f \in ToSet(Sound(extraction.files)) :
      e.path = None /\ PathOf(f) = None /\ e.summary = f.summary /\ e.method \in ToSet(f.methods)
        => e.responses = f.responses
=============================================================================
