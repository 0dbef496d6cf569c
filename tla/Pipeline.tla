------------------------------- MODULE Pipeline -------------------------------
(***************************************************************************)
(* The pipeline's parts that share no state, in one specification: a       *)
(* behaviour runs the part that MCInit chose.  RunPublication is taken     *)
(* twice: "race", several commands and an outside program over the names   *)
(* of runs, and "modes", commands without one, in every mode.  "feedback"  *)
(* is Conformance, "strict" Grounding, "derive" OpenApiDerivation, "plan"  *)
(* Planning and "benchmarks" BenchmarkAssurance.  The constants are those  *)
(* of the parts; MCPipeline gives them values, PipelineProofs does not.    *)
(***************************************************************************)
EXTENDS RunPublication, FiniteSets

CONSTANTS
  SoleProcs, SoleDirs, \* of "modes"
  \* Conformance
  Targets, Fields, Sensitive, Documented, Statuses, Scopes, Foreign, AttemptLists,
  MaxTime, MaxReleases, MaxAmendments,
  \* Grounding
  Entries, Unlisted, Paths, RefPath, CellPath, Supplementary, Text, Pointers, Cells,
  Plans, Documents, Whole, Vague,
  \* OpenApiDerivation
  ApiDocuments, ApiClaims, ApiCitations, ErrorStatuses,
  \* Planning
  Unrooted, Extractions, Manifests, Focuses, Profiles, Scores, Rounds,
  KeyOf, Label, Tokens, ContractStatuses, Successes,
  \* BenchmarkAssurance
  Cases, Sanitized, Derived, Replayable, Commands, Starts, Regressions, MaxEdits

VARIABLES
  part,
  now, release, assessment, proposals, amendments, effective,
  stage, plan, documents, facts, evidence, supports, claims, outcome,
  sources, claim, cited, step, accepted,
  planned, extraction, manifest, focus, profile, draft, pending, consumed, issues, score, verdict,
  command, broken, files, phase, checks, outcomes, binding, report, written, edits

conformance == <<now, release, assessment, proposals, amendments, effective>>
grounding == <<stage, plan, documents, facts, evidence, supports, claims, outcome>>
derivation == <<sources, claim, cited, step, accepted>>
benchmarks == <<command, broken, files, phase, checks, outcomes, binding, report, written, edits>>
planning == <<planned, extraction, manifest, focus, profile, draft, pending, consumed, issues, score, verdict>>

Alone == INSTANCE RunPublication WITH
  Procs <- SoleProcs, Dirs <- SoleDirs, Modes <- {"legacy", "shadow", "strict"},
  MaxMeddles <- 0, Failing <- {TRUE, FALSE}

Feedback == INSTANCE Conformance

Strict == INSTANCE Grounding WITH pc <- stage, proposals <- supports

Api == INSTANCE OpenApiDerivation WITH
  documents <- sources, pc <- step,
  Documents <- ApiDocuments, Claims <- ApiClaims, Citations <- ApiCitations

Planned == INSTANCE Planning WITH stage <- planned, Statuses <- ContractStatuses

Assurance == INSTANCE BenchmarkAssurance WITH at <- phase, pending <- checks

\* What the theorems assume of the constants, each at its definition.
ASSUME NonesApart == NoneApart /\ Alone!NoneApart
ASSUME AttemptsAssumption == Feedback!AttemptsStated
ASSUME PlansAssumption == Strict!PlansStated
ASSUME ClaimsAssumption == Api!DocumentsStated /\ Api!CitationsStated /\ Api!ClaimsStated
ASSUME ExtractionsAssumption == Planned!ExtractionsStated /\ Planned!ManifestsStated
ASSUME StartsAssumption == Assurance!StartsStated

MCInit ==
  /\ part \in {"race", "modes", "feedback", "strict", "derive", "plan", "benchmarks"}
  /\ Init
  /\ Feedback!Init
  /\ IF part = "strict" THEN Strict!Init
     ELSE /\ stage = None /\ plan = None /\ documents = None /\ facts = None /\ evidence = None
          /\ supports = None /\ claims = None /\ outcome = None
  /\ IF part = "derive" THEN Api!Init
     ELSE sources = None /\ claim = None /\ cited = None /\ step = None /\ accepted = {}
  /\ IF part = "plan" THEN Planned!Init
     ELSE /\ planned = None /\ extraction = None /\ manifest = None /\ focus = None /\ profile = None
          /\ draft = None /\ pending = None /\ consumed = None
          /\ issues = None /\ score = None /\ verdict = None
  /\ IF part = "benchmarks" THEN Assurance!Init
     ELSE /\ command = None /\ broken = None /\ files = None /\ phase = None /\ checks = None
          /\ outcomes = None /\ binding = None /\ report = None /\ written = None /\ edits = None

MCNext ==
  /\ UNCHANGED part
  /\ \/ part = "race" /\ Next /\ UNCHANGED <<conformance, grounding, derivation, planning, benchmarks>>
     \/ part = "modes" /\ Alone!Next /\ UNCHANGED <<conformance, grounding, derivation, planning, benchmarks>>
     \/ part = "feedback" /\ Feedback!Next /\ UNCHANGED <<vars, grounding, derivation, planning, benchmarks>>
     \/ part = "strict" /\ Strict!Next /\ UNCHANGED <<vars, conformance, derivation, planning, benchmarks>>
     \/ part = "derive" /\ Api!Next /\ UNCHANGED <<vars, conformance, grounding, planning, benchmarks>>
     \/ part = "plan" /\ Planned!Next /\ UNCHANGED <<vars, conformance, grounding, derivation, benchmarks>>
     \/ part = "benchmarks" /\ Assurance!Next
        /\ UNCHANGED <<vars, conformance, grounding, derivation, planning>>

MCSpec == MCInit /\ [][MCNext]_<<part, vars, conformance, grounding, derivation, planning, benchmarks>>

\* The properties of the parts that are instances; a part that does not run keeps its
\* initial state.
OverridesAreWarranted == Feedback!OverridesAreWarranted
CandidateIsGrounded == part = "strict" => Strict!CandidateIsGrounded
DerivedHolds == part = "derive" => Api!DerivedHolds
BridgeFindsDerivation == part = "derive" => Api!BridgeFindsDerivation
AssuranceIsEarned == part = "benchmarks" => Assurance!AssuranceIsEarned
PassedMeansSupported == part = "plan" => Planned!PassedMeansSupported
=============================================================================
