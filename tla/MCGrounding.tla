---------------------------- MODULE MCGrounding ----------------------------
(***************************************************************************)
(* The plans and sources of Grounding for TLC: two entries, an operation   *)
(* or a rule that may name a schema, and a rival of it or that schema; a   *)
(* manual whose pointer and cell may differ from its page, and notes that  *)
(* are a supplementary carrier.                                            *)
(***************************************************************************)
EXTENDS Naturals, FiniteSets

CONSTANTS e1, e2, None

Holding(page, pointer, cell) ==
  [l \in {"page", "pointer", "cell", "link"} |->
     CASE l = "page" -> page [] l = "pointer" -> pointer [] l = "cell" -> cell
       [] OTHER -> "schema"]

Ref(path, s, l, v) == [path |-> path, source |-> s, locator |-> l, digest |-> v]
Stating(required, ref) == [p \in {"required", "ref"} |-> IF p = "ref" THEN ref ELSE required]

RequiredRefs ==
  {{}, {Ref("required", "manual", "page", "yes")}, {Ref("required", "manual", "pointer", "yes")},
   {Ref("required", "manual", "cell", "yes")}, {Ref("required", "notes", "pointer", "yes")}}

CitesOf(locators, ref) ==
  {{[source |-> s, locator |-> l,
     refs |-> r \cup IF ref = None THEN {} ELSE {Ref("ref", "manual", "link", "schema")}]} :
     s \in {"manual", "notes"}, l \in locators, r \in RequiredRefs}

EntriesOf(identities, statuses, values, locators) ==
  UNION {{[identity |-> i, status |-> t, value |-> v, cites |-> c] :
            i \in identities, t \in statuses, c \in CitesOf(locators, v["ref"])} : v \in values}

FirstEntry == EntriesOf({"op", "rule"}, {"supported"},
                   {Stating(v, ref) : v \in {"yes", "no"}, ref \in {None, "schema"}},
                   {None, "page", "pointer", "vague"})
SecondEntry == EntriesOf({"op"}, {"supported", "conflicting", "missing", "unverified"},
                    {Stating(v, None) : v \in {"yes", "no"}}, {None})
          \cup EntriesOf({"schema"}, {"supported", "conflicting", "unverified"},
                         {Stating("yes", None)}, {None, "pointer"})

GroundingPlans ==
  {[e \in {e1, e2} |-> IF e = e1 THEN x ELSE y] : x \in FirstEntry, y \in SecondEntry}

GroundingDocuments ==
  {[s \in {"manual", "notes"} |-> IF s = "manual" THEN d ELSE Holding("yes", "yes", None)] :
     d \in {Holding("yes", "yes", "yes"), Holding("yes", "no", "no")}}
=============================================================================
