----------------------------- MODULE MCPipeline -----------------------------
(***************************************************************************)
(* Pipeline for TLC: two commands and an outside program over three        *)
(* directories, for runs whose core/ cannot fail; one assemble, into one   *)
(* directory, in every mode, whose writes may fail; four claims and the    *)
(* amendments of them; plans of two entries; a small OpenAPI document;     *)
(* extractions of small contracts; the gate or the attestation over two    *)
(* cases, one derived from a PDF and one with a sanitized subset, whole,   *)
(* with one asset missing or with edited sources.                          *)
(***************************************************************************)
EXTENDS Pipeline, TLC

CONSTANTS p1, p2, d1, d2, d3, e1, e2

-----------------------------------------------------------------------------
(* Conformance.                                                            *)

Answer(v) == [outcome |-> "api_response", observed |-> v]
Failed(how) == [outcome |-> how, observed |-> None]

FewAttempts ==
  {<<Answer("200")>>, <<Answer("404"), Answer("404")>>, <<Answer("200"), Answer("404")>>,
   <<Answer("present")>>, <<Answer("absent")>>,
   <<Failed("timeout"), Failed("timeout")>>, <<Failed("harness_failure")>>}

-----------------------------------------------------------------------------
(* Grounding, OpenApiDerivation and Planning.                              *)

Texts == INSTANCE MCGrounding
FewPlans == Texts!GroundingPlans
FewDocuments == Texts!GroundingDocuments

Data == INSTANCE MCOpenApi
FewApiDocuments == Data!OpenApiDocuments
FewApiClaims == Data!OpenApiClaims
FewApiCitations == Data!OpenApiCitations

Drafts == INSTANCE MCPlanning
FewExtractions == Drafts!PlanningExtractions
FewManifests == Drafts!PlanningManifests
FewFocuses == Drafts!PlanningFocuses
FewKeys == Drafts!PlanningKeys
FewLabels == Drafts!PlanningLabels
FewTokens == Drafts!PlanningTokens
FewScores == {None, 80}

-----------------------------------------------------------------------------
(* BenchmarkAssurance.                                                     *)

Supplied(c) ==
  [sources |-> "recorded", quality |-> "recorded", original |-> IF c = "pdf" THEN "recorded" ELSE "none",
   subset |-> "recorded", contract |-> "sound"]
Bare(c) == [Supplied(c) EXCEPT !.sources = "none", !.quality = "none", !.original = "none"]
Lacking(asset) == [c \in {"pdf", "redacted"} |-> [Supplied(c) EXCEPT ![asset] = "none"]]

Run(tool, mode) ==
  [tool |-> tool, mode |-> mode, exists |-> {}, tracked |-> {<<"work">>, <<"benchmarks", "work", "a">>}]

FewCommands ==
  {Run("attest", "ci-safe"), Run("attest", "strict-local"),
   [Run("attest", "ci-safe") EXCEPT !.exists = {"markdown"}],
   Run("gate", "plain"), Run("gate", "sanitized"), Run("gate", "strict-local"),
   [Run("gate", "plain") EXCEPT !.tracked = @ \cup {<<"sources", "a">>}]}
FewStarts ==
  {[c \in {"pdf", "redacted"} |-> Supplied(c)], [c \in {"pdf", "redacted"} |-> Bare(c)],
   Lacking("sources"), Lacking("original"),
   [c \in {"pdf", "redacted"} |->
      IF c = "pdf" THEN Supplied(c) ELSE [Supplied(c) EXCEPT !.sources = "edited", !.quality = "edited"]]}
FewRegressions == {None, "case", "parity", "derivation", "lint", "smoke"}
=============================================================================
