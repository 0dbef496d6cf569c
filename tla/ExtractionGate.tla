--------------------------- MODULE ExtractionGate ---------------------------
(***************************************************************************)
(* What an extraction has to satisfy before a run directory exists         *)
(* (agentcli/gate.py): the shape of paths, summaries and sources           *)
(* (source_guard.py) and the agreement of inventory.json with the files    *)
(* endpoints/*.json and integration.json (cross_file.py); and the document *)
(* a source text is attributed to (plan/classify.py).                      *)
(*                                                                         *)
(* A source text is [text, names], the names being the file paths, base    *)
(* names and URLs that occur in it as names of their own.  A list of       *)
(* entries is a sequence; `methods' is the sequence of an entry's methods, *)
(* `shared' whether it was written as a list, `method' the one that it is  *)
(* expanded for, None before.  What the fact scanner and the focus package *)
(* require of an extraction is left out.                                   *)
(***************************************************************************)
EXTENDS Naturals, Sequences, FiniteSets, SequencesExt

CONSTANTS
  Unrooted,  \* paths that do not begin with "/"
  None

Sections == <<"environments", "security_schemes", "endpoints", "schemas", "errors", "operational">>

-----------------------------------------------------------------------------
(* Attribution.                                                            *)

\* match_manifest_source: local files first, in the order of the manifest.
Match(source, manifest) ==
  LET named(names) == source # None /\ names \cap source.names # {}
      locals == {i \in DOMAIN manifest.local : named({manifest.local[i].path, manifest.local[i].base})}
      urls == {i \in DOMAIN manifest.urls : named({manifest.urls[i].fetched, manifest.urls[i].id})}
  IN  IF locals # {} THEN manifest.local[Min(locals)].path
      ELSE IF urls # {} THEN manifest.urls[Min(urls)].id ELSE None

Usable(manifest) == {i \in DOMAIN manifest.local : manifest.local[i].status = "pending"}

\* The document, when these files and the URLs are only one; a URL and the snapshot of it
\* among these files are one.
Only(files, manifest) ==
  LET urls == {i \in DOMAIN manifest.urls :
                 manifest.urls[i].snapshot \notin {manifest.local[j].path : j \in files}}
  IN  IF Cardinality(files) + Cardinality(urls) # 1 THEN None
      ELSE IF urls = {} THEN manifest.local[Min(files)].path ELSE manifest.urls[Min(urls)].id

\* sole_source: supplementary carriers count as documents.
SoleSource(manifest) == Only(Usable(manifest), manifest)

\* sole_normative_source: here they do not.
SoleNormative(manifest) ==
  Only({i \in Usable(manifest) : manifest.local[i].authority = "normative"}, manifest)

\* classify_item.
Classify(source, manifest) ==
  LET named == Match(source, manifest)
      document == IF named # None THEN named ELSE SoleSource(manifest)
  IN  [status |-> IF document = None THEN "unverified" ELSE "supported",
       cites |-> {[source |-> document, locator |-> source]}]

-----------------------------------------------------------------------------
(* Operations.                                                             *)

\* expand_methods: one entry for each method; an entry without one is dropped.
Expand(entries) ==
  FlattenSeq([i \in DOMAIN entries |->
    [j \in DOMAIN entries[i].methods |-> [entries[i] EXCEPT !.method = entries[i].methods[j]]]])

\* endpoint_identity.
Identity(e) ==
  IF e.path # None THEN <<e.method, e.path>>
  ELSE IF e.summary # None THEN <<e.method, "webhook", e.summary>> ELSE None

Identities(entries) == {Identity(e) : e \in ToSet(Expand(entries))} \ {None}

-----------------------------------------------------------------------------
(* source_guard.py                                                         *)

PathsRooted(entries) == \A e \in ToSet(entries) : e.path \notin Unrooted
Summarised(entries) == \A e \in ToSet(entries) : e.path = None => e.summary # None

\* _scope_violations: a scope that cites must name some source of the manifest.
Cites(sources, manifest) ==
  LET written == sources \ {None}
  IN  written = {} \/ \E s \in written : Match(s, manifest) # None

SourcesOf(entries) == {e.source : e \in ToSet(entries)}

\* source_violations.
SourcesNamed(x, manifest) ==
  LET fields == UNION {SourcesOf(s.fields) : s \in ToSet(x.inventory.schemas)}
      inventory == fields \cup UNION {SourcesOf(x.inventory[s]) : s \in ToSet(Sections)}
  IN  \/ SoleNormative(manifest) # None
      \/ \A scope \in {inventory, SourcesOf(x.files), SourcesOf(x.integration)} : Cites(scope, manifest)

-----------------------------------------------------------------------------
(* cross_file.py                                                           *)

Names(entries) == {e.name : e \in ToSet(entries)} \ {None}

\* _count_violations, _identity_set_violations, _duplicate_violations.
OneFileEach(x) ==
  LET files == Expand(x.files) IN
  /\ Len(Expand(x.inventory.endpoints)) = Len(files)
  /\ Identities(x.inventory.endpoints) = Identities(x.files)
  /\ \A i, j \in DOMAIN files : i # j /\ Identity(files[i]) = Identity(files[j]) => Identity(files[i]) = None

\* _shared_methods_violations: a shared contract stays one file.
SharedStaysShared(x) ==
  \A e \in ToSet(x.inventory.endpoints) :
    e.shared => Len(SelectSeq(x.files, LAMBDA f : Identities(<<f>>) = Identities(<<e>>))) = 1

\* The schemas a file refers to: in its request and in its responses.
Bodies(f) == ToSet(f.responses) \cup (IF f.request = None THEN {} ELSE {f.request})

\* _reference_violations, _schema_name_without_ref_violations, _server_violations.
NamesResolve(x) ==
  LET schemas == Names(x.inventory.schemas) IN
  /\ \A f \in ToSet(x.files) :
       /\ \A b \in Bodies(f) : b.ref \in schemas \cup {None} /\ (b.ref = None => b.prose \notin schemas)
       /\ ToSet(f.security) \subseteq Names(x.inventory.security_schemes)
  /\ \A e \in ToSet(x.inventory.endpoints) : e.server \in Names(x.inventory.environments) \cup {None}

\* _field_resolves: a field of a rule is one of its operation's.
FieldResolves(field, f, x) ==
  LET fieldsOf(schema) ==
        LET found == SelectSeq(x.inventory.schemas, LAMBDA s : s.name = schema)
        IN  IF found = <<>> THEN {} ELSE Names(Head(found).fields)
  IN  \/ \E p \in ToSet(f.params) :
           /\ p.name = field.name
           /\ \/ field.area = "request" /\ p.in = "body"
              \/ field.area = "parameter" /\ p.in # "body"
              \/ field.area = p.in /\ p.in # "body"
      \/ field.area = "request" /\ f.request # None /\ field.name \in fieldsOf(f.request.ref)
      \/ field.area = "response" /\ \E r \in ToSet(f.responses) : field.name \in fieldsOf(r.ref)

\* _operational_reference_violations, _integration_operation_reference_violations.
RulesResolve(x) ==
  LET files == ToSet(Expand(x.files)) IN
  /\ \A o \in ToSet(x.inventory.operational) : \A a \in o.applies :
       \E f \in files : Identity(f) = a.operation /\ (a.field = None \/ FieldResolves(a.field, f, x))
  /\ \A c \in ToSet(x.integration) : c.operations \subseteq Identities(x.files)

-----------------------------------------------------------------------------
\* check_extraction.
Accepted(x, manifest) ==
  /\ \A entries \in {x.inventory.endpoints, x.files} : PathsRooted(entries) /\ Summarised(entries)
  /\ SourcesNamed(x, manifest)
  /\ OneFileEach(x) /\ SharedStaysShared(x) /\ NamesResolve(x) /\ RulesResolve(x)
=============================================================================
