----------------------------- MODULE MCOpenApi -----------------------------
(***************************************************************************)
(* Documents, claims and citations of OpenApiDerivation for TLC.           *)
(* In the manual Root has rows of Items and Items have subs of Leaves, an  *)
(* owner and an inline box; the other document's rows are Leaves and its   *)
(* Items' subs Items.  One operation takes a Root, the other an inline     *)
(* body and its own security.                                              *)
(***************************************************************************)
EXTENDS Naturals, Sequences, FiniteSets, TLC

CONSTANT None

Object(type, required) == [kind |-> "object", type |-> type, required |-> required]
RefTo(name) == [kind |-> "ref", to |-> name]
Requirement(schemes) == [kind |-> "requirement", schemes |-> schemes, scoped |-> FALSE]
AnOperation == [kind |-> "operation"]

Root == <<"schemas", "Root">>
Item == <<"schemas", "Item">>
Leaf == <<"schemas", "Leaf">>
Member(schema, p) == schema \o <<"properties", p>>
ItemsOf(at) == at \o <<"items">>
RefOf(at) == at \o <<"$ref">>
Get == <<"paths", "/a", "get">>
Post == <<"paths", "/b", "post">>
Inline == Post \o <<"body", "json", "schema">>

Plain == {Member(Item, "id"), Member(Item, "items"), Member(Leaf, "id"), Member(Inline, "id")}
\* A document whose rows and whose items' subs refer to the schemas named, as far as it
\* is about something, and with what holds that.
Stated(rows, subs) ==
     Root :> Object("object", {"rows"})
  @@ Item :> Object("object", {"id"})
  @@ Leaf :> Object("object", {"tags"})
  @@ [at \in {Member(Root, "rows"), Member(Item, "subs"), Member(Leaf, "tags"),
              Member(Member(Root, "box"), "tags")} |-> Object("array", {})]
  @@ [at \in Plain \cup {ItemsOf(Member(Leaf, "tags")), ItemsOf(Member(Member(Root, "box"), "tags"))} |->
        Object("string", {})]
  @@ [at \in {ItemsOf(Member(Root, "rows")), ItemsOf(Member(Item, "subs")), Member(Root, "owner")} |->
        Object(None, {})]
  @@ Member(Root, "box") :> Object("object", {"tags"})
  @@ RefOf(ItemsOf(Member(Root, "rows"))) :> RefTo(rows)
  @@ RefOf(ItemsOf(Member(Item, "subs"))) :> RefTo(subs)
  @@ RefOf(Member(Root, "owner")) :> RefTo("Item")
  @@ [at \in {Get, Post} |-> AnOperation]
  @@ Inline :> Object("object", {"id"})
  @@ (Get \o <<"body", "json", "schema", "$ref">>) :> RefTo("Root")
  @@ (Post \o <<"body", "json", "examples", "e">>) :> Object(None, {})
  @@ (Post \o <<"security", "0">>) :> Requirement({"key"})
  @@ <<"security", "0">> :> Requirement({"token"})
  @@ <<"security", "1">> :> Requirement({"key", "token"})
  @@ <<"securitySchemes", "key">> :> Object(None, {})
  @@ [at \in {Get \o <<"responses", s>> : s \in {"200", "404"}} |-> Object(None, {})]
  @@ (Get \o <<"responses", "200", "schema", "$ref">>) :> RefTo("Root")

Document(rows, subs) ==
  LET stated == Stated(rows, subs)
  IN  stated @@ [at \in UNION {{SubSeq(p, 1, n) : n \in 1..Len(p)} : p \in DOMAIN stated} |->
                   Object(None, {})]

OpenApiDocuments ==
  {[a \in {"manual", "other"} |->
      IF a = "manual" THEN Document("Item", "Leaf") ELSE Document("Leaf", "Item")]}

Nowhere == [path |-> None, method |-> None, schema |-> None]
OfGet == [path |-> "/a", method |-> "get", schema |-> "Root"]
OfPost == [path |-> "/b", method |-> "post", schema |-> None]
Claim(kind, schema, of, path, value) ==
  [kind |-> kind, schema |-> schema, of |-> of, path |-> path, value |-> value]

\* The name of a field, its types and its required flags, true or not.
Aspects(kind, schema, of, group, field) ==
  {Claim(kind, schema, of, <<group, field, "name">>, field)}
  \cup {Claim(kind, schema, of, <<group, field, "required">>, b) : b \in BOOLEAN}
  \cup IF kind = "schema"
       THEN {Claim(kind, schema, of, <<group, field, "type">>, t) : t \in {"string", "array"}} ELSE {}

ApiFields ==
  {<<"rows", "[]">>, <<"id">>, <<"owner">>,
   <<"box", "tags", "[]">>, <<"box", "[]", "tags">>, <<"owner", "id">>, <<"owner", "subs", "[]">>,
   <<"rows", "[]", "id">>, <<"rows", "[]", "tags", "[]">>, <<"rows", "[]", "subs", "[]">>,
   <<"rows", "[]", "subs", "[]", "id">>, <<"rows", "[]", "subs", "[]", "tags", "[]">>}

OpenApiClaims ==
  UNION {Aspects("schema", "Root", Nowhere, "fields", field)
         \cup Aspects("operation", None, OfGet, "parameters", field) : field \in ApiFields}
  \cup UNION {Aspects("schema", "Item", Nowhere, "fields", field) :
                 field \in {<<"id">>, <<"items">>, <<"owner">>, <<"rows", "[]">>, <<"rows", "[]", "id">>,
                             <<"subs", "[]", "subs", "[]", "id">>}}
  \cup Aspects("operation", None, OfPost, "parameters", <<"id">>)
  \cup {Claim("operation", None, of, <<"security", s>>, s) : of \in {OfGet, OfPost}, s \in {"key", "token"}}
  \cup {Claim("operation", None, OfGet, <<"path">>, "/a"),
        Claim("operation", None, OfGet, <<"method">>, "get"),
        Claim("operation", None, OfGet, <<"request_schema_ref">>, "Root"),
        Claim("operation", None, OfGet, <<"responses", "200", "status_code">>, "200"),
        Claim("operation", None, OfGet, <<"responses", "200", "schema_ref">>, "Root"),
        Claim("error", None, Nowhere, <<"code">>, "404"),
        Claim("error", None, Nowhere, <<"code">>, "200"),
        Claim("schema", "Root", Nowhere, <<"name">>, "Root"),
        Claim("schema", "key", Nowhere, <<"name">>, "key"),
        Claim("security", None, Nowhere, <<"name">>, "key"),
        Claim("integration_mechanic", None, Nowhere, <<"operation_refs", <<"/b", "post">>>>, <<"/b", "post">>)}

\* Up to two references anywhere in the manual (what holds properties among them), or one in each document, and three
\* that may be two references to items and what they lead to, or that with a pointer beside
\* them that leads nowhere.
In(a, ats) == {[artifact |-> a, at |-> at] : at \in ats}
Manual == In("manual", DOMAIN Stated("Item", "Leaf") \cup {Member(Root, "box") \o <<"properties">>})
Links == {RefOf(ItemsOf(Member(Root, "rows"))), RefOf(ItemsOf(Member(Item, "subs")))}
Owners == {RefOf(Member(Root, "owner")), Item, Leaf, Get, Post, <<"security", "0">>}
          \cup {Member(s, p) : s \in {Item, Leaf}, p \in {"id", "subs", "tags"}}
Other == In("other", (Links \cup Owners) \ {Member(Item, "tags"), Member(Leaf, "subs")})

OpenApiCitations ==
  {{f, g} : f \in Manual, g \in Manual}
  \cup {{f, g} : f \in {x \in Manual : x.at \in Links \cup Owners}, g \in Other}
  \cup {{f, [artifact |-> "other", at |-> RefOf(ItemsOf(Member(Item, "subs")))]} : f \in Other}
  \cup {{f} \cup In(a, Links) : f \in Manual \cup Other, a \in {"manual", "other"}}
  \cup {In("manual", Links \cup {Member(Leaf, "id"), <<"security", "0">>})}
=============================================================================
