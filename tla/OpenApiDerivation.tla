-------------------------- MODULE OpenApiDerivation --------------------------
(***************************************************************************)
(* Support that follows from where a JSON pointer points.  For a claim     *)
(* path the bridge groups the references an entry cites into one proposal  *)
(* (shadow/bridge.py:917-1628), or another adapter proposes anything; the  *)
(* Core recomputes the one fact the named derivation yields and compares   *)
(* it with the claim (core/openapi_derivation.py, core/openapi_pointers.py)*)
(*                                                                         *)
(* A pointer is its decoded segments without "components", with "body" for *)
(* requestBody/content and a response's media type left out.  A field is   *)
(* its structural name cut into steps, data[].id is <<"data", "[]", "id">>,*)
(* so no property has a dot or a bracket in its name.  Digests are what    *)
(* they are taken of.                                                      *)
(***************************************************************************)
EXTENDS Naturals, Sequences, FiniteSets, SequencesExt

CONSTANTS
  Documents,      \* the sources: functions artifact -> pointer -> what is there
  Claims,         \* a claim, one of its material paths and the value there
  Citations,      \* the references an entry makes for the path: sets of
                  \* [artifact, at]
  ErrorStatuses,  \* the response keys that are one 4xx or 5xx status
  None

VARIABLES documents, claim, cited, pc, accepted

\* What the proofs assume: pointers are sequences of names, none of them the mark of an
\* array's items, and what holds something is in the document too; a reference is an
\* artifact and a pointer into it; and only schema claims have fields and a schema, only
\* operations parameters and security.
DocumentsStated ==
  \A d \in Documents : \A a \in DOMAIN d : \A at \in DOMAIN d[a] :
    /\ at \in Seq(STRING) /\ \A i \in DOMAIN at : at[i] # "[]" /\ at[i] # None
    /\ \A n \in 1..Len(at) : SubSeq(at, 1, n) \in DOMAIN d[a]

CitationsStated ==
  \A c \in Citations : \A f \in c :
    /\ f = [artifact |-> f.artifact, at |-> f.at]
    /\ \A d \in Documents : f.artifact \in DOMAIN d

ClaimsStated ==
  \A c \in Claims :
    /\ c.path[1] = "fields" => c.kind = "schema"
    /\ c.path[1] \in {"parameters", "security"} => c.kind = "operation"
    /\ c.path[1] \in {"fields", "parameters"} => c.path[2] \in Seq(STRING)
    /\ c.kind # "schema" => c.schema = None

vars == <<documents, claim, cited, pc, accepted>>

-----------------------------------------------------------------------------
(* Pointers.                                                               *)

Node(f) == documents[f.artifact][f.at]
In(f, at) == at \in DOMAIN documents[f.artifact]

IsSchema(at) == Len(at) = 2 /\ at[1] = "schemas"
IsProperty(at) == Len(at) >= 4 /\ at[1] = "schemas" /\ at[3] = "properties"
IsMember(at) == IsProperty(at) /\ Len(at) = 4

Methods == {"get", "put", "post", "delete", "options", "head", "patch", "trace"}
InOperation(at) == Len(at) >= 3 /\ at[1] = "paths" /\ at[3] \in Methods
IsOperation(at) == InOperation(at) /\ Len(at) = 3
IsResponse(at) == InOperation(at) /\ Len(at) = 5 /\ at[4] = "responses"
IsBody(at) == InOperation(at) /\ Len(at) >= 6 /\ at[4] = "body" /\ at[6] = "schema"

\* properties.<p>.items.$ref and properties.<p>.$ref of a component schema.
ItemHop(at) == Len(at) = 6 /\ at[1] = "schemas" /\ at[3] = "properties"
               /\ at[5] = "items" /\ at[6] = "$ref"
DirectHop(at) == Len(at) = 5 /\ at[1] = "schemas" /\ at[3] = "properties" /\ at[5] = "$ref"
Hop(at) == ItemHop(at) \/ DirectHop(at)
HopPrefix(at) == IF ItemHop(at) THEN <<at[4], "[]">> ELSE <<at[4]>>

\* _operation_pointer_matches: the pointer is inside the claim's own operation.
Own(at) == InOperation(at) /\ at[2] = claim.of.path /\ at[3] = claim.of.method

\* The pointer that the steps of a name stand for, below their schema.  A pointer
\* stands for no other steps, and for none where it has any other segment.
Below(step) == IF step = "[]" THEN <<"items">> ELSE <<"properties", step>>
Structural(steps) ==
  LET below[i \in 0..Len(steps)] ==
        IF i = 0 THEN <<>> ELSE below[i - 1] \o Below(steps[i])
  IN  below[Len(steps)]

IsObject(f) == Node(f).kind = "object"
IsArray(a, at) == documents[a][at].kind = "object" /\ documents[a][at].type = "array"
Marker(f) == IF IsArray(f.artifact, f.at) THEN <<"[]">> ELSE <<>>

\* _security_requirement_scheme.
SoleScheme(f) ==
  IF /\ Node(f).kind = "requirement" /\ ~Node(f).scoped
     /\ \E s \in Node(f).schemes : Node(f).schemes = {s}
  THEN Node(f).schemes ELSE {}

-----------------------------------------------------------------------------
(* What the derivations yield: sets of <<claim path, value>>, empty where   *)
(* one does not apply.                                                     *)

Named(group, field) == {<<<<group, field, "name">>, field>>}
Typed(field, f) ==
  IF Node(f).type = None THEN {} ELSE {<<<<"fields", field, "type">>, Node(f).type>>}

\* The required flag of a direct property of the schema f, under a name that says
\* whether it is an array.  The path is the claim's.
Flag(f, name) ==
  LET member == [f EXCEPT !.at = f.at \o <<"properties", name[1]>>]
  IN  IF /\ Len(name) \in {1, 2} /\ Tail(name) \in {<<>>, <<"[]">>} /\ IsObject(f)
         /\ In(f, member.at) /\ IsObject(member) /\ Tail(name) = Marker(member)
      THEN {<<claim.path, name[1] \in Node(f).required>>} ELSE {}

AsksRequired(group) == Len(claim.path) = 3 /\ claim.path[1] = group /\ claim.path[3] = "required"

\* The rest of the claim's field after a prefix, or a name no property has.
After(prefix) ==
  IF IsPrefix(prefix, claim.path[2])
  THEN SubSeq(claim.path[2], Len(prefix) + 1, Len(claim.path[2])) ELSE <<>>

OperationFacts(f) ==
  IF IsOperation(f.at) THEN {<<<<"path">>, f.at[2]>>, <<<<"method">>, f.at[3]>>} ELSE {}

ResponseStatus(f) ==
  IF IsResponse(f.at) THEN {<<<<"responses", f.at[5], "status_code">>, f.at[5]>>} ELSE {}

ErrorCode(f) ==
  IF IsResponse(f.at) /\ claim.kind = "error" /\ f.at[5] \in ErrorStatuses
  THEN {<<<<"code">>, f.at[5]>>} ELSE {}

\* _operation_identity_from_request_example_pointer.
ExampleOperation(f) ==
  IF /\ Len(f.at) = 7 /\ f.at[1] = "paths" /\ f.at[4] = "body" /\ f.at[6] = "examples"
     /\ claim.kind = "integration_mechanic" /\ IsObject(f)
  THEN {<<<<"operation_refs", <<f.at[2], f.at[3]>>>>, <<f.at[2], f.at[3]>>>>} ELSE {}

ResponseSchemaRef(f) ==
  IF /\ Len(f.at) = 7 /\ IsResponse(SubSeq(f.at, 1, 5))
     /\ SubSeq(f.at, 6, 7) = <<"schema", "$ref">>
  THEN {<<<<"responses", f.at[5], "schema_ref">>, Node(f).to>>} ELSE {}

RequestSchemaRef(f) ==
  IF IsBody(f.at) /\ Len(f.at) = 7 /\ f.at[7] = "$ref"
  THEN {<<<<"request_schema_ref">>, Node(f).to>>} ELSE {}

\* _openapi_request_body_property_from_pointer: an array's marker follows the
\* first step, wherever the array is.
BodyProperty(f) ==
  LET first == <<f.at[4]>> \o Marker(f)
      field == first \o After(first)
  IN  IF /\ IsProperty(f.at) /\ claim.of.schema = f.at[2] /\ claim.path[1] = "parameters"
         /\ SubSeq(f.at, 5, Len(f.at)) = Structural(After(first))
      THEN Named("parameters", field) ELSE {}

BodyRequired(f) ==
  IF IsSchema(f.at) /\ claim.of.schema = f.at[2] /\ AsksRequired("parameters")
  THEN Flag(f, claim.path[2]) ELSE {}

InlineProperty(f) ==
  IF /\ IsBody(f.at) /\ Len(f.at) = 8 /\ f.at[7] = "properties" /\ Own(f.at)
     /\ claim.of.schema = None /\ IsObject(f)
  THEN Named("parameters", <<f.at[8]>> \o Marker(f)) ELSE {}

InlineRequired(f) ==
  IF /\ IsBody(f.at) /\ Len(f.at) = 6 /\ Own(f.at) /\ claim.of.schema = None
     /\ ~In(f, f.at \o <<"$ref">>) /\ AsksRequired("parameters")
  THEN Flag(f, claim.path[2]) ELSE {}

BodyRefProperty(f, g) ==
  IF /\ IsMember(f.at) /\ ItemHop(g.at)
     /\ claim.of.schema = g.at[2] /\ Node(g).to = f.at[2]
  THEN Named("parameters", HopPrefix(g.at) \o <<f.at[4]>> \o Marker(f)) ELSE {}

BodyRefRequired(f, g) ==
  IF /\ IsSchema(f.at) /\ ItemHop(g.at) /\ AsksRequired("parameters")
     /\ claim.of.schema = g.at[2] /\ Node(g).to = f.at[2]
  THEN Flag(f, After(HopPrefix(g.at))) ELSE {}

SchemaName(f) ==
  IF IsSchema(f.at) /\ claim.schema = f.at[2] THEN {<<<<"name">>, f.at[2]>>} ELSE {}

SchemaProperty(f) ==
  LET steps == IF IsArray(f.artifact, f.at) THEN Front(claim.path[2]) ELSE claim.path[2]
      field == steps \o Marker(f)
  IN  IF /\ IsProperty(f.at) /\ claim.schema = f.at[2] /\ claim.path[1] = "fields"
         /\ IsObject(f) /\ SubSeq(f.at, 3, Len(f.at)) = Structural(steps)
      THEN Named("fields", field) \cup Typed(field, f) ELSE {}

SchemaRequired(f) ==
  IF IsSchema(f.at) /\ claim.schema = f.at[2] /\ AsksRequired("fields")
  THEN Flag(f, claim.path[2]) ELSE {}

SchemaRefProperty(f, g) ==
  LET field == HopPrefix(g.at) \o <<f.at[4]>> \o Marker(f)
  IN  IF /\ IsMember(f.at) /\ IsObject(f) /\ Hop(g.at)
         /\ claim.schema = g.at[2] /\ Node(g).to = f.at[2]
      THEN Named("fields", field) \cup Typed(field, f) ELSE {}

\* Mutant: the parent reference may belong to another schema than the claim's.
SchemaRefRequiredAnyRoot(f, g) ==
  IF IsSchema(f.at) /\ Hop(g.at) /\ AsksRequired("fields") /\ Node(g).to = f.at[2]
  THEN Flag(f, After(HopPrefix(g.at))) ELSE {}

SchemaRefRequired(f, g) ==
  IF /\ IsSchema(f.at) /\ Hop(g.at) /\ AsksRequired("fields")
     /\ claim.schema = g.at[2] /\ Node(g).to = f.at[2]
  THEN Flag(f, After(HopPrefix(g.at))) ELSE {}

TwoHop(f, g, h) ==
  LET prefix == HopPrefix(g.at) \o HopPrefix(h.at)
      field == prefix \o <<f.at[4]>> \o Marker(f)
  IN  IF \/ ~ItemHop(g.at) \/ ~ItemHop(h.at) \/ claim.schema # g.at[2]
         \/ Node(g).to # h.at[2] \/ Node(h).to # f.at[2]
      THEN {}
      ELSE IF IsMember(f.at) /\ IsObject(f) THEN Named("fields", field) \cup Typed(field, f)
      ELSE IF IsSchema(f.at) /\ AsksRequired("fields") THEN Flag(f, After(prefix)) ELSE {}

SchemeName(f) ==
  IF Len(f.at) = 2 /\ f.at[1] = "securitySchemes" THEN {<<<<"name">>, f.at[2]>>} ELSE {}

OperationSecurity(f) ==
  IF Len(f.at) = 5 /\ f.at[4] = "security" /\ Own(f.at)
  THEN {<<<<"security", s>>, s>> : s \in SoleScheme(f)} ELSE {}

\* The document's requirements are in force where an operation states none.
DocumentSecurity(f, g) ==
  IF /\ Len(f.at) = 2 /\ f.at[1] = "security"
     /\ IsOperation(g.at) /\ Own(g.at) /\ ~In(g, g.at \o <<"security">>)
  THEN {<<<<"security", s>>, s>> : s \in SoleScheme(f)} ELSE {}

-----------------------------------------------------------------------------
(* The Core.                                                               *)

Single == {"operation", "response_status", "error_code", "example_operation",
           "response_schema_ref", "request_schema_ref", "body_property", "body_required",
           "inline_property", "inline_required", "schema_name", "schema_property",
           "schema_required", "scheme_name", "operation_security"}
Linked == {"body_ref_property", "body_ref_required", "schema_ref_property",
           "schema_ref_required", "document_security"}

Proposal(derivation, fragments) == [derivation |-> derivation, fragments |-> fragments]

FactsOfOne(d, f) ==
  CASE d = "operation" -> OperationFacts(f)
    [] d = "response_status" -> ResponseStatus(f)
    [] d = "error_code" -> ErrorCode(f)
    [] d = "example_operation" -> ExampleOperation(f)
    [] d = "response_schema_ref" -> ResponseSchemaRef(f)
    [] d = "request_schema_ref" -> RequestSchemaRef(f)
    [] d = "body_property" -> BodyProperty(f)
    [] d = "body_required" -> BodyRequired(f)
    [] d = "inline_property" -> InlineProperty(f)
    [] d = "inline_required" -> InlineRequired(f)
    [] d = "schema_name" -> SchemaName(f)
    [] d = "schema_property" -> SchemaProperty(f)
    [] d = "schema_required" -> SchemaRequired(f)
    [] d = "scheme_name" -> SchemeName(f)
    [] d = "operation_security" -> OperationSecurity(f)

FactsOfTwo(d, f, g) ==
  CASE d = "body_ref_property" -> BodyRefProperty(f, g)
    [] d = "body_ref_required" -> BodyRefRequired(f, g)
    [] d = "schema_ref_property" -> SchemaRefProperty(f, g)
    [] d = "schema_ref_required" -> SchemaRefRequired(f, g)
    [] d = "document_security" -> DocumentSecurity(f, g)

\* _openapi_pointer_derivation: the contexts a derivation takes, all of the same
\* artifact, and the fact it yields for the path of the claim.
Verified(p) ==
  LET f == p.fragments
      facts == CASE p.derivation \in Single /\ Len(f) = 1 -> FactsOfOne(p.derivation, f[1])
                 [] p.derivation \in Linked /\ Len(f) = 2 -> FactsOfTwo(p.derivation, f[1], f[2])
                 [] p.derivation = "two_hop" /\ Len(f) = 3 -> TwoHop(f[1], f[2], f[3])
                 [] OTHER -> {}
  IN  /\ \A i \in DOMAIN f : f[i].artifact = f[1].artifact
      /\ <<claim.path, claim.value>> \in facts

-----------------------------------------------------------------------------
(* The bridge: for a path it groups references into one proposal, the first *)
(* grouping that finds any, else it proposes each reference alone.  It does *)
(* not ask that grouped references are of one artifact.                    *)

Names(field) == Cardinality({i \in DOMAIN field : field[i] # "[]"})

AsksField(group, n) ==
  claim.path[1] = group /\ Len(claim.path) = 3 /\ Names(claim.path[2]) = n

\* References that link up to a field of the claim's schema, or of its body's.
Links(root, f, g) == g.at[2] = root /\ Node(g).to = f.at[2]

TwoHopGroups ==
  {x \in cited \X cited \X cited :
     LET f == x[1]  g == x[2]  h == x[3] IN
     /\ claim.kind = "schema" /\ AsksField("fields", 3)
     /\ g # h /\ ItemHop(g.at) /\ ItemHop(h.at) /\ Links(claim.schema, h, g)
     /\ Len(f.at) >= 2 /\ f.at[1] = "schemas" /\ Node(h).to = f.at[2]
     /\ LET leaf == After(HopPrefix(g.at) \o HopPrefix(h.at))
        IN  /\ leaf # <<>>
            /\ IF claim.path[3] = "required"
               THEN IsSchema(f.at) /\ <<claim.path, claim.value>> \in Flag(f, leaf)
               ELSE /\ IsMember(f.at) /\ IsObject(f) /\ (Last(leaf) = "[]") = IsArray(f.artifact, f.at)
                    /\ claim.value = IF claim.path[3] = "name" THEN claim.path[2] ELSE Node(f).type}

\* Two linked references with a pointer of fewer than three segments beside them: the third
\* is asked for without a look at its length (shadow/bridge.py:1081).
IsShort(at) == Len(at) < 2 \/ (Len(at) = 2 /\ at[1] \notin {"schemas", "securitySchemes"})

TwoHopRaises ==
  \E f, g, h \in cited :
    /\ claim.kind = "schema" /\ AsksField("fields", 3) /\ IsShort(f.at)
    /\ g # h /\ ItemHop(g.at) /\ ItemHop(h.at) /\ Links(claim.schema, h, g)
    /\ After(HopPrefix(g.at) \o HopPrefix(h.at)) # <<>>

SchemaRefRequiredGroups ==
  {x \in cited \X cited :
     LET f == x[1]  g == x[2] IN
     /\ claim.kind = "schema" /\ AsksField("fields", 2) /\ claim.path[3] = "required"
     /\ IsSchema(f.at) /\ Hop(g.at) /\ Links(claim.schema, f, g)
     /\ Flag(f, After(HopPrefix(g.at))) # {}}

\* Mutant: only references of array items are grouped.
SchemaRefPropertyItems ==
  {x \in cited \X cited :
     LET f == x[1]  g == x[2] IN
     /\ claim.kind = "schema" /\ claim.path[1] = "fields" /\ claim.path[3] \in {"name", "type"}
     /\ IsMember(f.at) /\ IsObject(f) /\ ItemHop(g.at) /\ Links(claim.schema, f, g)
     /\ claim.value = IF claim.path[3] = "type" THEN Node(f).type
                      ELSE HopPrefix(g.at) \o <<f.at[4]>> \o Marker(f)}

\* The type is compared, not whose type it is.
SchemaRefPropertyGroups ==
  {x \in cited \X cited :
     LET f == x[1]  g == x[2] IN
     /\ claim.kind = "schema" /\ claim.path[1] = "fields" /\ claim.path[3] \in {"name", "type"}
     /\ IsMember(f.at) /\ IsObject(f) /\ Hop(g.at) /\ Links(claim.schema, f, g)
     /\ claim.value = IF claim.path[3] = "type" THEN Node(f).type
                      ELSE HopPrefix(g.at) \o <<f.at[4]>> \o Marker(f)}

BodyRefPropertyGroups ==
  {x \in cited \X cited :
     LET f == x[1]  g == x[2] IN
     /\ claim.path[1] = "parameters" /\ claim.path[3] = "name"
     /\ IsMember(f.at) /\ ItemHop(g.at) /\ Links(claim.of.schema, f, g)
     /\ claim.value = HopPrefix(g.at) \o <<f.at[4]>> \o Marker(f)}

BodyRefRequiredGroups ==
  {x \in cited \X cited :
     LET f == x[1]  g == x[2] IN
     /\ AsksField("parameters", 2) /\ claim.path[3] = "required"
     /\ IsSchema(f.at) /\ ItemHop(g.at) /\ Links(claim.of.schema, f, g)
     /\ After(HopPrefix(g.at)) # <<>>}

DocumentSecurityGroups ==
  {x \in cited \X cited :
     LET f == x[1]  g == x[2] IN
     /\ claim.kind = "operation" /\ claim.path[1] = "security"
     /\ Len(f.at) = 2 /\ f.at[1] = "security" /\ SoleScheme(f) = {claim.value}
     /\ IsOperation(g.at) /\ Own(g.at)}

\* _openapi_pointer_derivation_name: the one derivation that suits a path and where
\* a reference points; none leaves the reference to explicit support.
DerivationName(f) ==
  LET path == claim.path
      asks(n, attribute) == Len(path) = n /\ path[n] = attribute
  IN  CASE claim.kind = "schema" /\ path = <<"name">> /\ IsSchema(f.at) -> "schema_name"
        [] claim.kind = "schema" /\ path[1] = "fields" /\ path[3] \in {"name", "type"}
           /\ Len(f.at) >= 4 /\ f.at[1] = "schemas" /\ f.at[3] = "properties" -> "schema_property"
        [] claim.kind = "schema" /\ asks(3, "required") /\ IsSchema(f.at) -> "schema_required"
        [] claim.kind = "security" /\ path = <<"name">>
           /\ Len(f.at) = 2 /\ f.at[1] = "securitySchemes" -> "scheme_name"
        [] claim.kind = "error" /\ path = <<"code">> /\ IsResponse(f.at) -> "error_code"
        [] claim.kind = "integration_mechanic" /\ path[1] = "operation_refs"
           /\ Len(f.at) = 7 /\ f.at[4] = "body" /\ f.at[6] = "examples" -> "example_operation"
        [] path \in {<<"path">>, <<"method">>} -> "operation"
        [] path = <<"request_schema_ref">> -> "request_schema_ref"
        [] path[1] = "security" /\ Len(f.at) = 5 /\ f.at[4] = "security" -> "operation_security"
        [] path[1] = "parameters" /\ path[3] = "name" /\ IsBody(f.at) -> "inline_property"
        [] path[1] = "parameters" /\ path[3] = "required" /\ IsBody(f.at) -> "inline_required"
        [] path[1] = "parameters" /\ path[3] = "name" /\ ~IsBody(f.at) -> "body_property"
        [] path[1] = "parameters" /\ path[3] = "required" /\ IsSchema(f.at) -> "body_required"
        [] path[1] = "responses" /\ path[3] = "status_code" -> "response_status"
        [] path[1] = "responses" /\ path[3] = "schema_ref" -> "response_schema_ref"
        [] OTHER -> None

Groupings ==
  <<[derivation |-> "two_hop", groups |-> TwoHopGroups],
    [derivation |-> "schema_ref_required", groups |-> SchemaRefRequiredGroups],
    [derivation |-> "schema_ref_property", groups |-> SchemaRefPropertyGroups],
    [derivation |-> "body_ref_property", groups |-> BodyRefPropertyGroups],
    [derivation |-> "body_ref_required", groups |-> BodyRefRequiredGroups],
    [derivation |-> "document_security", groups |-> DocumentSecurityGroups]>>

Alone == {{Proposal(DerivationName(f), <<f>>) : f \in {g \in cited : DerivationName(g) \in Single}}}

\* What the bridge may propose for the path; the ids that order a grouping's
\* candidates are digests, so any of them may come first.
Proposed ==
  LET finding == {i \in DOMAIN Groupings : Groupings[i].groups # {}}
      first == Groupings[Min(finding)]
  IN  IF finding = {} THEN Alone
      ELSE {{Proposal(first.derivation, group)} : group \in first.groups}

-----------------------------------------------------------------------------
(* The two steps: the entry's citations reach the Core through the bridge,  *)
(* or through an adapter that proposes what it likes.                      *)

Init ==
  /\ documents \in Documents
  /\ claim \in Claims
  /\ cited \in {c \in Citations : \A f \in c : In(f, f.at)}
  /\ pc = "cited"
  /\ accepted = {}

Bridge ==
  /\ pc = "cited" /\ pc' = "bridged"
  /\ TwoHopRaises => TwoHopGroups # {}
  /\ \E proposals \in Proposed : accepted' = {p \in proposals : Verified(p)}
  /\ UNCHANGED <<documents, claim, cited>>

\* Unless a group is found before, which the order of the references decides: the run has
\* an error in place of a candidate (shadow/runner.py:106).
BridgeRaises ==
  /\ pc = "cited" /\ TwoHopRaises /\ pc' = "raised"
  /\ UNCHANGED <<documents, claim, cited, accepted>>

\* No proposal repeats a fragment (domain/evidence.py:226-229).
AdapterProposals ==
  {Proposal(d, <<f>>) : d \in Single, f \in cited}
  \cup {Proposal(d, x) : d \in Linked, x \in {y \in cited \X cited : y[1] # y[2]}}
  \cup {Proposal("two_hop", x) :
           x \in {y \in cited \X cited \X cited : y[1] # y[2] /\ y[1] # y[3] /\ y[2] # y[3]}}

Adapter ==
  /\ pc = "cited" /\ pc' = "adapted"
  /\ accepted' = {p \in AdapterProposals : Verified(p)}
  /\ UNCHANGED <<documents, claim, cited>>

Next == Bridge \/ BridgeRaises \/ Adapter

Spec == Init /\ [][Next]_vars

-----------------------------------------------------------------------------
(* What a document states, read from the document and not from a pointer:   *)
(* schemas by $ref, fields by the steps of their name.                     *)

\* What a place says is said there, or in the schema it refers to.
Meant(a, at) ==
  {at} \cup {<<"schemas", documents[a][r].to>> : r \in {Append(at, "$ref")} \cap DOMAIN documents[a]}

Step(a, ats, s) == {t \o Below(s) : t \in UNION {Meant(a, at) : at \in ats}} \cap DOMAIN documents[a]

Reached(a, starts, field) ==
  LET reached[i \in 0..Len(field)] ==
        IF i = 0 THEN starts ELSE Step(a, reached[i - 1], field[i])
  IN  reached[Len(field)]

\* Where the fields of the claim start: its schema, its request's, or its own body.
Roots(a) ==
  LET schema == IF claim.kind = "schema" THEN claim.schema ELSE claim.of.schema
  IN  DOMAIN documents[a] \cap
        IF schema # None THEN {<<"schemas", schema>>}
        ELSE {at \in DOMAIN documents[a] : IsBody(at) /\ Len(at) = 6 /\ Own(at)}

IsArrayName(field) == Last(field) = "[]"
Bare(field) == IF IsArrayName(field) THEN Front(field) ELSE field
Type(a, at) == documents[a][at].type

\* A field ends in [] exactly when it is an array, or the items of one.
Places(a, field) ==
  {at \in Reached(a, Roots(a), Bare(field)) : IsArray(a, at) = IsArrayName(field)}
  \cup IF IsArrayName(field) THEN Reached(a, Roots(a), field) ELSE {}

Owners(a, field) == UNION {Meant(a, at) : at \in Reached(a, Roots(a), Front(Bare(field)))}

FieldHolds(a, field, attribute) ==
  /\ Places(a, field) # {}
  /\ attribute = "name" => claim.value = field
  /\ attribute = "type" => claim.value \in {Type(a, at) : at \in Places(a, field)}
  /\ attribute = "required" =>
       \E at \in Owners(a, field) \cap DOMAIN documents[a] :
         claim.value = (Last(Bare(field)) \in documents[a][at].required)

\* The requirements in force for the claim's operation, the scheme one of them.
SecurityHolds(a) ==
  LET own == {at \in DOMAIN documents[a] : Len(at) = 5 /\ at[4] = "security" /\ Own(at)}
      shared == {at \in DOMAIN documents[a] : Len(at) = 2 /\ at[1] = "security"}
      secured == \E at \in DOMAIN documents[a] : Len(at) = 4 /\ at[4] = "security" /\ Own(at)
  IN  \E at \in IF secured THEN own ELSE shared :
        SoleScheme([artifact |-> a, at |-> at]) = {claim.value}

\* Paths about where a reference points alone (an operation, a response, a scheme)
\* are left out: the Core does not tie them to the claim's own operation.
Holds(a) ==
  CASE claim.path[1] \in {"fields", "parameters"} -> FieldHolds(a, claim.path[2], claim.path[3])
    [] claim.path[1] = "security" -> SecurityHolds(a)
    [] OTHER -> TRUE

-----------------------------------------------------------------------------
(* Properties.                                                             *)

\* The name of an array below another field of a request body is box[].tags where the
\* extraction says box.tags[] (core/openapi_pointers.py:134): DerivedHolds leaves it out.
NestedBodyArray(p) ==
  LET f == p.fragments[1]
  IN  p.derivation = "body_property" /\ Len(f.at) > 4 /\ IsArray(f.artifact, f.at)

\* Whatever an adapter proposes, a field name, type or required flag, or a security
\* scheme, that the Core accepts as derived holds in the one document its references
\* are of: core/openapi_derivation.py:42-424.
DerivedHolds ==
  \A p \in accepted : NestedBodyArray(p) \/ Holds(p.fragments[1].artifact)

\* A security scheme supports the name of any claim that has its name
\* (core/openapi_derivation.py:383-388); the bridge asks it for schemes only.
SchemeOfAnother(p) == p.derivation = "scheme_name" /\ claim.kind # "security"

\* References that the Core would accept together, all of them needed, are grouped so
\* by the bridge: when nothing it proposes for them is accepted, or it raises over them,
\* nothing would have been (shadow/bridge.py:719-783, 1081).
BridgeFindsDerivation ==
  pc \in {"bridged", "raised"} /\ accepted = {} =>
    \A p \in AdapterProposals :
      {p.fragments[i] : i \in DOMAIN p.fragments} = cited => SchemeOfAnother(p) \/ ~Verified(p)
=============================================================================
