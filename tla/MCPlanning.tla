------------------------------ MODULE MCPlanning ------------------------------
(***************************************************************************)
(* Extractions and manifests for TLC's runs of Planning: a small contract  *)
(* that passes, with the sources of one or two of its parts replaced or    *)
(* one thing wrong with its shape; two webhooks of one page; and sources   *)
(* that are one document, two, a document and a note or a document and a   *)
(* URL.                                                                    *)
(***************************************************************************)
EXTENDS Naturals, Sequences, TLC

CONSTANT None

Page(text, names) == [text |-> text, names |-> names]
Manual == Page("manual p1", {"manual"})
Other == Page("manual p2", {"manual"})
Link == Page("u", {"u"})
Letter == Page("note", {"note"})
Nameless == Page("page 3", {})
Sources == {Manual, Link, Letter, Nameless, None}

-----------------------------------------------------------------------------
(* Manifests.                                                              *)

Local(path, status, authority) ==
  [path |-> path, base |-> path, status |-> status, authority |-> authority, judged |-> TRUE]
Url(snapshot) == [id |-> "u", fetched |-> "u", snapshot |-> snapshot, ok |-> TRUE]
manual == Local("manual", "pending", "normative")

PlanningManifests ==
  {[local |-> l, urls |-> <<>>] :
     l \in {<<manual>>, <<manual, Local("annex", "pending", "normative")>>,
            <<manual, Local("note", "pending", "supplementary")>>,
            <<[manual EXCEPT !.judged = FALSE], Local("sheet", "unsupported", "normative")>>,
            <<manual, Local("sheet", "unreadable", "normative")>>}}
  \cup {[local |-> <<manual>>, urls |-> <<Url(s)>>] : s \in {"manual", None}}

-----------------------------------------------------------------------------
(* Extractions.                                                            *)

Field(source) == [name |-> "total", path |-> <<[key |-> "total", array |-> FALSE]>>, source |-> source]
Response(status, ref) == [status |-> status, ref |-> ref, prose |-> None]
Entry(methods, path, summary) ==
  [methods |-> methods, method |-> None, shared |-> Len(methods) > 1, path |-> path, summary |-> summary,
   server |-> None, ok |-> TRUE, source |-> Manual]
File(entry, status) ==
  entry @@ [url |-> None, request |-> None, examples |-> TRUE, security |-> <<>>, missing |-> <<>>,
            conflicts |-> <<>>, params |-> <<>>, responses |-> <<Response(status, "Order")>>]

Get == [Entry(<<"get">>, "/p/{id}", "Read") EXCEPT !.server = "live"]
GetFile == [File(Get, "200") EXCEPT !.params = <<[name |-> "id", in |-> "path"]>>, !.security = <<"key">>]
Both == Entry(<<"get", "post">>, "/q", "Send")
Paid == Entry(<<"post">>, None, "Paid")
Refunded == Entry(<<"post">>, None, "Refunded")

Rule(section) ==
  [section |-> section, name |-> "rule", payload |-> "Order", operation |-> <<"/p/{id}", "get">>,
   operations |-> {<<"get", "/p/{id}">>}, source |-> Manual]

Base ==
  [title |-> TRUE, version |-> TRUE, missing |-> <<>>,
   files |-> <<GetFile>>, integration |-> <<Rule("callbacks"), Rule("test_cases")>>,
   inventory |->
     [environments |-> <<[name |-> "live", url |-> TRUE, ok |-> TRUE, source |-> Manual]>>,
      security_schemes |-> <<[name |-> "key", native |-> TRUE, ok |-> TRUE, source |-> Manual]>>,
      endpoints |-> <<Get>>,
      schemas |-> <<[name |-> "Order", fields |-> <<Field(Manual)>>, enums |-> <<"State">>, ok |-> TRUE,
                     source |-> Manual]>>,
      errors |-> <<[code |-> "E1", applies |-> {<<"get", "/p/{id}">>}, ok |-> TRUE, source |-> Manual]>>,
      operational |-> <<[topic |-> "limits", auth |-> FALSE, signs |-> FALSE, ok |-> TRUE, source |-> Manual,
                         applies |-> {[operation |-> <<"get", "/p/{id}">>,
                                       field |-> [area |-> "response", name |-> "total"]]}]>>]]

With(endpoints, files) == [Base EXCEPT !.inventory.endpoints = endpoints, !.files = files]

\* Parts that are cited: one or two of them are cited otherwise.
Cited(a, b) ==
  {[Base EXCEPT !.inventory.endpoints[1].source = a, !.files[1].source = b],
   [Base EXCEPT !.inventory.schemas[1].source = a, !.inventory.schemas[1].fields[1].source = b],
   [Base EXCEPT !.inventory.environments[1].source = a, !.inventory.security_schemes[1].source = b],
   [Base EXCEPT !.inventory.errors[1].source = a, !.inventory.operational[1].source = b],
   [Base EXCEPT !.integration[1].source = a, !.integration[2].source = b],
   [With(<<Get, Both>>, <<GetFile, File(Both, "200")>>) EXCEPT
      !.inventory.endpoints[2].source = a, !.files[2].source = b]}

\* Shapes: things left out, stated twice, misnamed or malformed.
Shapes ==
  {With(<<Get>>, <<GetFile, [GetFile EXCEPT !.methods = <<>>]>>),
   With(<<Get>>, <<[GetFile EXCEPT !.ok = FALSE]>>),
   With(<<Get>>, <<[GetFile EXCEPT !.responses = <<>>]>>),
   With(<<Get>>, <<[GetFile EXCEPT !.responses = <<Response("404", "Order"), Response("FAILED", None)>>]>>),
   With(<<Get>>, <<[GetFile EXCEPT !.params = <<[name |-> "no", in |-> "path"]>>]>>),
   With(<<Get>>, <<[GetFile EXCEPT !.params = <<>>, !.examples = FALSE,
                                   !.missing = <<[auth |-> FALSE, example |-> TRUE]>>]>>),
   With(<<Get>>, <<GetFile, GetFile>>), With(<<Get, Both>>, <<GetFile>>), With(<<>>, <<>>),
   With(<<Get>>, <<[GetFile EXCEPT !.conflicts = <<"p1 and p2">>]>>),
   With(<<Get>>, <<GetFile, [File(Paid, "200") EXCEPT !.url = "/q", !.conflicts = <<"p1 and p2">>]>>),
   With(<<[Get EXCEPT !.server = "none"]>>, <<GetFile>>),
   With(<<Get, [Get EXCEPT !.methods = <<>>, !.source = Nameless]>>,
        <<GetFile, [GetFile EXCEPT !.methods = <<>>, !.source = Nameless]>>),
   With(<<Get, Paid, Both>>, <<GetFile, [File(Paid, "201") EXCEPT !.url = "/q", !.responses = <<>>], File(Both, "200")>>),
   With(<<Get, Both>>, <<GetFile, [File(Both, "200") EXCEPT !.responses = <<Response("200", None), Response("200", "Order")>>]>>),
   With(<<[Get EXCEPT !.path = "p"]>>, <<[GetFile EXCEPT !.path = "p"]>>),
   With(<<Get, Paid>>, <<GetFile, [File(Paid, "200") EXCEPT !.url = "/q"]>>),
   With(<<Get, Paid>>, <<GetFile, [File(Paid, "200") EXCEPT !.url = "/q", !.ok = FALSE]>>),
   With(<<Get, Paid, Both>>, <<GetFile, [File(Paid, "201") EXCEPT !.url = "/q"], File(Both, "200")>>),
   With(<<Get, Paid, Refunded>>, <<GetFile, [File(Paid, "200") EXCEPT !.url = "/r"],
                                   [File(Refunded, "201") EXCEPT !.url = "/r"]>>),
   [Base EXCEPT !.inventory.schemas[1].ok = FALSE], [Base EXCEPT !.inventory.endpoints[1].ok = FALSE],
   [Base EXCEPT !.inventory.security_schemes = <<>>, !.files[1].security = <<>>],
   [Base EXCEPT !.inventory.security_schemes = <<>>, !.files[1].security = <<>>,
                !.missing = <<[auth |-> TRUE, example |-> FALSE]>>],
   [Base EXCEPT !.inventory.operational[1].signs = TRUE], [Base EXCEPT !.version = FALSE],
   [Base EXCEPT !.integration[1].payload = "Nothing"], [Base EXCEPT !.inventory.environments = <<>>]}

\* Two webhooks and their files, in either order, from one page or two.
Hooks ==
  {With(<<Get, Paid, [Refunded EXCEPT !.source = a]>>,
        IF swapped THEN <<GetFile, [File(Refunded, "201") EXCEPT !.source = b], File(Paid, "200")>>
        ELSE <<GetFile, File(Paid, "200"), [File(Refunded, "201") EXCEPT !.source = b]>>) :
     a \in {Manual, Other}, b \in {Manual, Other, Nameless}, swapped \in BOOLEAN}

PlanningExtractions == UNION {Cited(a, b) : a, b \in Sources} \cup Shapes \cup Hooks

Directive(kind, outcome, floor) ==
  [id |-> "f", kind |-> kind, intent |-> "collect_error_codes", outcome |-> outcome,
   floor |-> floor, anchors |-> {"E1"}]
PlanningFocuses ==
  {{}, {Directive("expectation", "not_found", {})}, {Directive("coverage", "satisfied", {"E2"})}}

-----------------------------------------------------------------------------
(* Names.                                                                  *)

PlanningKeys == [Order |-> "Order", State |-> "State", key |-> "key", Nothing |-> "Nothing"]
PlanningLabels == [Paid |-> "Paid", Refunded |-> "Refunded"]
PlanningTokens == ("/p/{id}" :> {"id"}) @@ [p \in {"/q", "/r", "p"} |-> {}]
=============================================================================
