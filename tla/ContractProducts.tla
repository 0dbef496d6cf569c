-------------------------- MODULE ContractProducts --------------------------
(***************************************************************************)
(* The OpenAPI document of a normalization plan and the provenance of its  *)
(* parts (generate/openapi.py, naming.py, provenance.py).                  *)
(*                                                                         *)
(* A target is a sequence of names.  A schema is the targets of its        *)
(* properties, a response body the component it refers to or Inline.       *)
(* Types, descriptions, media types, tags, examples, unions and what is    *)
(* written inside requests and security schemes are left out.              *)
(***************************************************************************)
EXTENDS Naturals, Sequences, SequencesExt, TLC

CONSTANTS
  KeyOf,     \* a name's letters that a component key may have, "" when there are none
  Label,     \* a summary's leading label
  Tokens,    \* the variables of a path template
  Statuses,  \* response statuses of HTTP; others are names of outcomes
  None       \* an absent name or value

Inline == "inline"

\* A dictionary written pair by pair: the last write of a key stays.
Dict(pairs) ==
  [k \in {p[1] : p \in ToSet(pairs)} |-> pairs[Max({i \in DOMAIN pairs : pairs[i][1] = k})][2]]

\* A record with the fields of another that it does not have.
Filled(r, s) == [f \in DOMAIN r \cup DOMAIN s |-> IF f \in DOMAIN r THEN r[f] ELSE s[f]]

\* Those items of a sequence that are in S, in their order.
Kept(items, S) ==
  LET kept[n \in 0..Len(items)] ==
        IF n = 0 THEN <<>>
        ELSE IF items[n] \in S THEN Append(kept[n - 1], items[n]) ELSE kept[n - 1]
  IN  kept[Len(items)]

-----------------------------------------------------------------------------
(* Names.                                                                  *)

\* component_key, security_scheme_key.
ComponentKey(name, i, prefix) ==
  LET letters == IF name = None THEN "" ELSE KeyOf[name]
  IN  IF letters = "" THEN prefix \o ToString(i - 1) ELSE letters

\* schema_key_map: a key that is taken gets the first free number.
SchemaKeys(schemas) ==
  LET numbered(base, n) == IF n = 1 THEN base ELSE base \o "_" \o ToString(n)
      free(base, used) ==
        numbered(base, Min({n \in 1..(Len(used) + 1) : numbered(base, n) \notin ToSet(used)}))
      keys[n \in 0..Len(schemas)] ==
        IF n = 0 THEN <<>>
        ELSE Append(keys[n - 1], free(ComponentKey(schemas[n].name, n, "schema"), keys[n - 1]))
  IN  keys[Len(schemas)]

\* webhook_items: a label seen n times before gets the number n + 1.
Webhooks(endpoints) ==
  LET hooks == SelectSeq(endpoints, LAMBDA e : e.path = None)
      label(i) == IF hooks[i].summary = None THEN "webhook" \o ToString(i - 1) ELSE Label[hooks[i].summary]
      before(i) == Len(SelectSeq([j \in 1..(i - 1) |-> label(j)], LAMBDA l : l = label(i)))
  IN  [i \in DOMAIN hooks |->
        <<IF before(i) = 0 THEN label(i) ELSE label(i) \o ToString(before(i) + 1), hooks[i]>>]

-----------------------------------------------------------------------------
(* Schemas.                                                                *)

\* A field's name is a path of keys, each with [] or without: _nest_properties makes a node of
\* every prefix, an array when some field says so; _field_target reads only the field's own.
KeysTo(path) == [i \in DOMAIN path |-> path[i].key]
TargetOf(path, arrays) ==
  FlattenSeq([i \in DOMAIN path |->
    (IF i > 1 /\ arrays[i - 1] THEN <<"items">> ELSE <<>>) \o <<"properties", path[i].key>>])

PropertyTargets(fields) ==
  LET paths == {f.path : f \in ToSet(fields)}
      array(keys) == \E p \in paths :
        Len(p) >= Len(keys) /\ KeysTo(SubSeq(p, 1, Len(keys))) = keys /\ p[Len(keys)].array
  IN  UNION {{TargetOf(SubSeq(p, 1, n), [i \in 1..n |-> array(KeysTo(SubSeq(p, 1, i)))]) :
              n \in DOMAIN p} : p \in paths}

FieldTarget(path) == TargetOf(path, [i \in DOMAIN path |-> path[i].array])

\* name_to_key of build_openapi.
KeysByName(plan) ==
  LET keys == SchemaKeys(plan.schemas)
      named == SelectSeq([i \in DOMAIN plan.schemas |-> <<plan.schemas[i].name, keys[i]>>],
                         LAMBDA p : p[1] # None)
  IN  Dict(named)

\* _build_schemas: the schemas, the enumerations they state, and the error codes.
ComponentSchemas(plan) ==
  LET keys == SchemaKeys(plan.schemas)
      enums(s) == [i \in DOMAIN s.enums |-> <<ComponentKey(s.enums[i], i, "enum"), {}>>]
      own(i) == IF plan.schemas[i].name = None THEN <<>>
                ELSE <<<<keys[i], PropertyTargets(plan.schemas[i].fields)>>>>
      codes == IF plan.errors = <<>> THEN <<>> ELSE <<<<"ErrorCode", {}>>>>
  IN  Dict(FlattenSeq([i \in DOMAIN plan.schemas |-> own(i) \o enums(plan.schemas[i])]) \o codes)

-----------------------------------------------------------------------------
(* Operations.                                                             *)

\* _response_schema: no reference is invented.
ResponseSchema(r, keys) ==
  IF r.ref # None THEN (IF r.ref \in DOMAIN keys THEN {keys[r.ref]} ELSE {})
  ELSE IF r.prose # None THEN {Inline} ELSE {}

\* _build_responses: outcomes that are no HTTP status are folded under "default".
Responses(responses, keys) ==
  LET http == Kept(responses, {r \in ToSet(responses) : r.status \in Statuses})
      named == {r \in ToSet(responses) : r.status \notin Statuses}
      out == Dict([i \in DOMAIN http |-> <<http[i].status, ResponseSchema(http[i], keys)>>])
      folded == UNION {ResponseSchema(r, keys) : r \in named}
      default == IF "default" \in DOMAIN out /\ out["default"] # {} THEN out["default"] ELSE folded
  IN  IF named = {} THEN out
      ELSE [s \in DOMAIN out \cup {"default"} |-> IF s = "default" THEN default ELSE out[s]]

\* _build_operation, and _build_paths for the variables of the path that nobody declared.
Operation(e, plan) ==
  LET declared == {[name |-> p.name, in |-> p.in] : p \in {q \in ToSet(e.params) : q.in # "body"}}
      inPath == {p.name : p \in {q \in declared : q.in = "path"}}
      tokens == IF e.path = None THEN {} ELSE Tokens[e.path]
      schemes == plan.security_schemes
      hosts == {h \in ToSet(plan.environments) : h.name = e.server /\ h.url}
  IN  [params |-> declared \cup {[name |-> t, in |-> "path"] : t \in tokens \ inPath},
       body |-> {p.name : p \in {q \in ToSet(e.params) : q.in = "body"}},
       responses |-> Responses(e.responses, KeysByName(plan)),
       security |-> {ComponentKey(schemes[i].name, i, "scheme") :
                       i \in {j \in DOMAIN schemes : schemes[j].name \in ToSet(e.security) \ {None}}},
       server |-> IF e.server # None /\ hosts # {} THEN e.server ELSE None,
       codes |-> {c.code : c \in {d \in ToSet(plan.errors) : <<e.method, e.path>> \in d.applies}}]

Served(plan) == SelectSeq(plan.environments, LAMBDA h : h.url)

\* build_openapi.  The plan has one endpoint for an operation by now.
OpenApi(plan) ==
  LET paths == Kept(plan.endpoints, {e \in ToSet(plan.endpoints) : e.path # None})
      hooks == Webhooks(plan.endpoints)
      schemes == plan.security_schemes
  IN  [stated |-> plan.title /\ plan.version,
       servers |-> Len(Served(plan)),
       paths |-> Dict([i \in DOMAIN paths |-> <<<<paths[i].path, paths[i].method>>, Operation(paths[i], plan)>>]),
       webhooks |-> Dict([i \in DOMAIN hooks |->
                      <<hooks[i][1], Filled([method |-> hooks[i][2].method], Operation(hooks[i][2], plan))>>]),
       schemas |-> ComponentSchemas(plan),
       schemes |-> Dict([i \in DOMAIN schemes |->
                          <<ComponentKey(schemes[i].name, i, "scheme"), schemes[i].native>>])]

-----------------------------------------------------------------------------
(* Provenance.                                                             *)

\* _entries: an entry for each citation.
Cited(target, item) ==
  {[target |-> target, status |-> item.status, source |-> c.source] : c \in item.cites}

\* _info_entries: both are resolved as the document resolves them.
InfoEntries(plan) ==
  LET entry(name, stated) == [target |-> <<"info", name>>, source |-> None,
                              status |-> IF stated THEN "supported" ELSE "missing"]
  IN  {entry("title", plan.title), entry("version", plan.version)}

\* The entries of one schema: itself, its cited fields and its enumerations.
SchemaEntries(s, key) ==
  LET own == IF s.name = None THEN {}
             ELSE Cited(<<"schemas", key>>, s)
                  \cup UNION {Cited(<<"schemas", key>> \o FieldTarget(f.path), f) : f \in ToSet(s.evidence)}
  IN  own \cup UNION {Cited(<<"schemas", ComponentKey(s.enums[i], i, "enum")>>, s) : i \in DOMAIN s.enums}

\* build_provenance; the entries of gaps and of the integration contract name no part of the document.
Provenance(plan) ==
  LET servers == Served(plan)
      schemes == plan.security_schemes
      hooks == Webhooks(plan.endpoints)
      keys == SchemaKeys(plan.schemas)
      targets(e) == {<<"errors", e.code>>, <<"schemas", "ErrorCode">>, <<"schemas", "ErrorCode", e.code>>}
  IN  InfoEntries(plan)
      \cup (UNION {Cited(<<"servers", ToString(i - 1)>>, servers[i]) : i \in DOMAIN servers})
      \cup (UNION {Cited(<<"schemes", ComponentKey(schemes[i].name, i, "scheme")>>, schemes[i]) :
                    i \in DOMAIN schemes})
      \cup (UNION {Cited(<<"paths", e.path, e.method>>, e) :
                    e \in {x \in ToSet(plan.endpoints) : x.path # None}})
      \cup (UNION {Cited(<<"webhooks", hooks[i][1], hooks[i][2].method>>, hooks[i][2]) : i \in DOMAIN hooks})
      \cup (UNION {SchemaEntries(plan.schemas[i], keys[i]) : i \in DOMAIN plan.schemas})
      \cup (UNION {UNION {Cited(t, e) : t \in targets(e)} : e \in ToSet(plan.errors)})
      \cup (UNION {Cited(<<"operational", o.topic>>, o) : o \in ToSet(plan.operational)})
      \cup UNION {Cited(<<"integration", c.section, c.name>>, c) : c \in ToSet(plan.integration)}
=============================================================================
