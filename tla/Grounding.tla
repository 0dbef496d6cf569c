------------------------------ MODULE Grounding ------------------------------
(***************************************************************************)
(* What a plan has to prove before strict mode calls its release a         *)
(* candidate.  The references of the plan's entries are checked against    *)
(* the sources (agentcli/evidence.py); then the sources are read again and *)
(* cut into fragments (adapters/fragments.py), the bridge proposes         *)
(* fragments as support for the material paths of every entry              *)
(* (shadow/bridge.py), the Core verifies each proposal and reconciles the  *)
(* entries of one claim (core/verification.py, core/reconciliation.py),    *)
(* builds a contract, judges it by its rules (domain/), and strict mode    *)
(* asks every supported entry for its own proof (agentcli/strict.py).      *)
(*                                                                         *)
(* A document is what its locators hold; an excerpt, its digest and the    *)
(* value it states are one.  OpenApiDerivation has the support that is     *)
(* derived from the position of a pointer instead of the value under it.   *)
(***************************************************************************)
EXTENDS Naturals, FiniteSets

CONSTANTS
  Entries,        \* entries of the plan
  Unlisted,       \* identities of the areas _all_citations leaves out
  Paths,          \* material paths of a claim
  RefPath,        \* the path that names another claim (a schema)
  CellPath,       \* the path a column of a parameter table may state
  Supplementary,  \* sources that are supplementary carriers
  Text, Pointers, Cells, \* locators: pages and lines, JSON pointers, table cells
  Plans,          \* the plans of Init: entry -> what the plan says of it
  Documents,      \* the contents of Init: source -> locator -> value or None
  Whole,          \* the locator of a whole document
  Vague,          \* a legacy locator whose grammar is ambiguous
  None

VARIABLES
  pc,        \* the next stage
  plan,      \* entry -> [identity, status, value, cites]
  documents, \* what the sources hold now
  facts,     \* the cells of their tables, as collect_facts read them at the start
  evidence,  \* the materialized fragments
  proposals, \* the runtime result: entry -> proposed supports, or absent
  claims,    \* the reconciled claims: identity -> [status, value]
  outcome    \* what strict mode recorded

vars == <<pc, plan, documents, facts, evidence, proposals, claims, outcome>>

\* A plan has finitely many entries and each has its value, also one it disputes or
\* leaves unproved; nothing exact is cut out as a whole document, and the paths of a
\* claim have that of the schema it names (shadow/bridge.py:1873).
PlansStated ==
  /\ IsFiniteSet(Entries) /\ RefPath \in Paths
  /\ \A q \in Plans : \A e \in Entries : q[e].value # None
  /\ Whole \notin Text \cup Pointers \cup Cells

Supported == {e \in Entries : plan[e].status = "supported"}

\* material_claim_paths: the paths the value states.
Material(e) == {p \in Paths : plan[e].value[p] # None}

References(e) == UNION {c.refs : c \in plan[e].cites}

-----------------------------------------------------------------------------
(* The extraction boundary.                                                *)

\* What a reading finds: a file now, a table as it was when the facts were collected.
Held(s, l) == IF l \in Cells THEN facts[s][l] ELSE documents[s][l]

\* verify_extraction_evidence, verify_evidence_claim_paths: each reference names a
\* material path of its entry and the digest of what its locator holds.
Verify ==
  /\ pc = "verify"
  /\ LET intact(e, r) == /\ Held(r.source, r.locator) = r.digest
                         /\ r.digest # None /\ r.path \in Material(e)
     IN  pc' = IF \A e \in Entries : \A r \in References(e) : intact(e, r)
               THEN "acquire" ELSE "done"
  /\ outcome' = IF pc' = "done" THEN "input-error" ELSE outcome
  /\ UNCHANGED <<plan, documents, facts, evidence, proposals, claims>>

\* The sources are files; the check reads them, and the acquisition again.
Edit ==
  /\ pc \in {"verify", "acquire"} /\ documents' \in Documents
  /\ UNCHANGED <<pc, plan, facts, evidence, proposals, claims, outcome>>

-----------------------------------------------------------------------------
(* Acquisition.                                                            *)

\* _all_citations, build_fragment_requests.
Requests ==
  LET cites == UNION {plan[e].cites : e \in {x \in Entries : plan[x].identity \notin Unlisted}}
  IN  {<<r.source, r.locator>> : r \in UNION {c.refs : c \in cites}}
      \cup {<<c.source, c.locator>> :
              c \in {x \in cites : x.locator \notin {None, Vague}}}

\* _requested_fragment, _degraded_fragment: only text and pointers can be cut out.
Requested(s, l) ==
  LET v == documents[s][l] IN
  [source |-> s, locator |-> l, value |-> v,
   precision |-> IF l \in Text \cup Pointers /\ v # None THEN "exact" ELSE "unresolved"]

\* _document_fragment, and _fact_fragments for the cells of the tables found in it.
Standing(s) ==
  {[source |-> s, locator |-> Whole, value |-> None, precision |-> "document"]}
  \cup {[source |-> s, locator |-> l, value |-> facts[s][l], precision |-> "exact"] :
          l \in {x \in Cells : facts[s][x] # None}}

\* acquire_fragment_bundle, with_materialized_evidence.
Acquire ==
  /\ pc = "acquire" /\ pc' = "propose"
  /\ evidence' = (UNION {Standing(s) : s \in DOMAIN documents})
                 \cup {Requested(q[1], q[2]) : q \in Requests}
  /\ UNCHANGED <<plan, documents, facts, proposals, claims, outcome>>

-----------------------------------------------------------------------------
(* The bridge.                                                             *)

Exact == {f \in evidence : f.precision = "exact"}
From(s) == {f \in evidence : f.source = s}

\* exact_fragments_for_reference.
Referenced(r) ==
  {f \in Exact : f.source = r.source /\ f.locator = r.locator /\ f.value = r.digest}

\* _fragment_is_applicable: a pointer only when it holds the value, text always, a
\* cell by the role of its column.
Applicable(f, e, p) ==
  \/ f.locator \in Pointers /\ f.value = plan[e].value[p]
  \/ f.locator \in Text
  \/ f.locator \in Cells /\ p = CellPath

\* A legacy citation: the fragments of its locator, and without one the cells of
\* the tables in its source.
Legacy(c, e, p) ==
  {f \in Exact \cap From(c.source) :
     IF c.locator = None THEN f.locator \in Cells /\ p = CellPath
     ELSE f.locator = c.locator /\ Applicable(f, e, p)}

Support(f, p, bound) == [fragment |-> f, path |-> p, bound |-> bound]

\* _direct_evidence_for_path.
Direct(e, p) == {r \in References(e) : r.path = p}

\* _semantic_support_proposals, for one path: a reference of the path disables its
\* legacy citations; where they find nothing exact the whole document is proposed,
\* for the Core to find insufficient.
SupportsFor(e, p) ==
  IF Direct(e, p) # {}
  THEN {Support(f, p, TRUE) : f \in UNION {Referenced(r) : r \in Direct(e, p)}}
  ELSE LET exact == UNION {Legacy(c, e, p) : c \in plan[e].cites}
           documentsOf == {f \in UNION {From(c.source) : c \in plan[e].cites} :
                             f.locator = Whole}
       IN  {Support(f, p, FALSE) : f \in IF exact # {} THEN exact ELSE documentsOf}

\* _downgrade_supplementary.
Downgrade(supports) == {s \in supports : s.fragment.source \notin Supplementary}

\* _candidate: what is proposed for an entry.
Candidate(e) ==
  IF plan[e].status \in {"supported", "conflicting"}
  THEN Downgrade(UNION {SupportsFor(e, p) : p \in Material(e)}) ELSE {}

\* build_runtime_result: entries in conflict need distinct values; of those with
\* equal ones the last stands for all, and a single value keeps no support.
Rivals(e) == {x \in Entries : plan[x].status = "conflicting"
                              /\ plan[x].identity = plan[e].identity}
Stands(e) ==
  \/ plan[e].status # "conflicting"
  \/ e = CHOOSE x \in Rivals(e) : plan[x].value = plan[e].value
Proposed(e) ==
  IF plan[e].status = "conflicting" /\ Cardinality({plan[x].value : x \in Rivals(e)}) < 2
  THEN {} ELSE Candidate(e)

Propose ==
  /\ pc = "propose" /\ pc' = "reconcile"
  /\ proposals' = [e \in {x \in Entries : Stands(x)} |-> Proposed(e)]
  /\ UNCHANGED <<plan, documents, facts, evidence, claims, outcome>>

-----------------------------------------------------------------------------
(* The Core.                                                               *)

ValueBearing(f) == f.locator \in Pointers \cup Cells

\* _verify_one, _compare: text bound to the path by a reference always matches;
\* a pointer or a cell that holds another value contradicts.
Relationship(e, s) ==
  IF s.fragment.precision # "exact" THEN "insufficient"
  ELSE IF s.bound /\ ~ValueBearing(s.fragment) THEN "supports"
  ELSE IF s.fragment.value = plan[e].value[s.path] THEN "supports"
  ELSE IF ValueBearing(s.fragment) THEN "contradicts" ELSE "insufficient"

Covered(e) == {s.path : s \in {x \in proposals[e] : Relationship(e, x) = "supports"}}
Contradicted(e) == \E s \in proposals[e] : Relationship(e, s) = "contradicts"

\* The value of a proposal: none of a missing entry (_candidate).
Stated(e) == IF plan[e].status = "missing" THEN None ELSE plan[e].value
Required(e) == IF Stated(e) = None THEN {} ELSE Material(e)

\* reconcile_claims, for the entries of one identity.
Reconcile(group) ==
  LET full == {e \in group : /\ Required(e) # {} /\ Required(e) \subseteq Covered(e)
                             /\ ~Contradicted(e)}
      values == {Stated(e) : e \in full}
      claim(status, value) == [status |-> status, value |-> value]
  IN  IF (\E e \in group : Contradicted(e)) \/ Cardinality(values) > 1
      THEN claim("conflicting", None)
      ELSE IF full # {} THEN claim("supported", CHOOSE v \in values : TRUE)
      ELSE claim(IF \A e \in group : Stated(e) = None THEN "missing" ELSE "unverified", None)

Reconciliation ==
  /\ pc = "reconcile" /\ pc' = "decide"
  /\ claims' = [i \in {plan[e].identity : e \in DOMAIN proposals} |->
                  Reconcile({e \in DOMAIN proposals : plan[e].identity = i})]
  /\ UNCHANGED <<plan, documents, facts, evidence, proposals, outcome>>

\* build_grounded_contract: only supported claims become parts of the contract.
Contract == {i \in DOMAIN claims : claims[i].status = "supported"}

\* ApiDomainRulePack.evaluate: what a part names is a part too, and each is complete
\* on its own (a response, the steps of a signature, the answer to a callback).
\* Any finding of it is an error, and the policy rejects.
RulesPass(complete) ==
  /\ complete
  /\ \A i \in Contract :
       claims[i].value[RefPath] = None \/ claims[i].value[RefPath] \in Contract

-----------------------------------------------------------------------------
(* Strict mode.                                                            *)

\* Mutant: a claim that an equal entry proved is proved.
ClaimGrounded(e) == plan[e].identity \in Contract

\* _grounding_findings: an entry proves all of its paths itself, and its claim holds.
Grounded(e) ==
  /\ e \in DOMAIN proposals /\ Material(e) \subseteq Covered(e)
  /\ plan[e].identity \in Contract

\* run_strict_core_safely.
Decide ==
  /\ pc = "decide" /\ pc' = "done"
  /\ \E complete \in BOOLEAN :
       outcome' = IF Contract = {} \/ \E e \in Supported : ~Grounded(e) THEN "rejected"
                  ELSE IF RulesPass(complete) THEN "candidate" ELSE "error"
  /\ UNCHANGED <<plan, documents, facts, evidence, proposals, claims>>

Init ==
  /\ pc = "verify" /\ plan \in Plans /\ documents \in Documents /\ facts = documents
  /\ evidence = {} /\ proposals = <<>> /\ claims = <<>> /\ outcome = "none"

Next == Verify \/ Edit \/ Acquire \/ Propose \/ Reconciliation \/ Decide

Spec == Init /\ [][Next]_vars

-----------------------------------------------------------------------------
(* Correctness.                                                            *)

\* What a source that is no correspondence holds, exactly, where the entry itself
\* says: under its reference of this path, as it was when the reference was made,
\* or without one under its own locator, stating the value.
ProvedBy(e, p) ==
  {f \in Exact :
     /\ f.source \notin Supplementary
     /\ IF \E r \in References(e) : r.path = p
        THEN \E r \in References(e) :
               r.path = p /\ <<r.source, r.locator, r.digest>> = <<f.source, f.locator, f.value>>
        ELSE /\ f.value = plan[e].value[p]
             /\ \E c \in plan[e].cites : c.source = f.source /\ c.locator \in {None, f.locator}
     /\ ValueBearing(f) => f.value = plan[e].value[p]}

\* A candidate is grounded entry by entry: every supported entry proves each of its
\* paths from where it points itself, no entry of the same claim states another
\* value or shows a value that differs, and whatever claim it names some supported
\* or disputed entry proved - whichever duplicate, correspondence or whole document
\* was cited next to it, and however the sources changed after the check
\* (strict.py:147, bridge.py:337, bridge.py:1673).
CandidateIsGrounded ==
  outcome = "candidate" => \A e \in Supported :
    /\ \A p \in Material(e) : ProvedBy(e, p) # {}
    /\ \A x \in Supported : plan[x].identity = plan[e].identity =>
         Material(x) = {} \/ Material(e) = {} \/ plan[x].value = plan[e].value
    /\ \A p \in Material(e) : \A r \in References(e) :
         r.path = p /\ r.locator \in Pointers \cup Cells /\ r.source \notin Supplementary =>
           \A f \in Referenced(r) : f.value = plan[e].value[p]
    /\ plan[e].value[RefPath] # None =>
         \E x \in Entries : /\ plan[x].identity = plan[e].value[RefPath]
                            /\ plan[x].status \in {"supported", "conflicting"}
                            /\ \A p \in Material(x) : ProvedBy(x, p) # {}
=============================================================================
