-------------------------- MODULE BenchmarkAssurance --------------------------
(***************************************************************************)
(* What the repository says of its benchmark cases: the quality gate       *)
(* (scripts/quality_gate.py) and the attestation of one harness run        *)
(* (scripts/benchmark_attestation.py), over case directories whose sources *)
(* an operator supplies, and may supply, take away or edit meanwhile.      *)
(*                                                                         *)
(* The harness is the code of tests/test_benchmarks.py and                 *)
(* tests/test_sanitized_benchmarks.py: its checks run one after the other, *)
(* each over all of its cases.  The checks that look at the assembled run  *)
(* and at nothing else (its score, its way through the foundry, its diff   *)
(* and the like) are one, "other".  Checks that name no case are left out: *)
(* nothing is attributed to them.                                          *)
(***************************************************************************)
EXTENDS Naturals, Sequences, FiniteSets, TLC

CONSTANTS
  Cases,       \* REQUIRED_BENCHMARK_CASES
  Sanitized,   \* SANITIZED_BENCHMARK_CASES
  Derived,     \* SOURCE_DERIVATION_BENCHMARK_CASES
  Replayable,  \* EXACT_EVIDENCE_PARITY_BENCHMARK_CASES
  Commands,    \* the invocations of either script
  Starts,      \* the case directories one may find
  Regressions, \* what the revision may break, or None
  MaxEdits,    \* bound: what the operator does during one command
  None

VARIABLES
  command,   \* [tool, mode, tracked, exists]: the arguments, what git tracks and the outputs that exist
  broken,    \* the check, "lint" or "smoke" that this revision fails, or None
  files,     \* the case directories
  at,        \* what the command does next
  pending,   \* the checks the harness has not run
  outcomes,  \* what it found: of which case, by which check, and, for the properties, on which files
  binding,   \* whether the worktree was dirty, or None
  report,    \* of the attestation, or None
  written,   \* the outputs it created
  edits

vars == <<command, broken, files, at, pending, outcomes, binding, report, written, edits>>

-----------------------------------------------------------------------------
(* A case directory.  Contents are told apart by the digest that a         *)
(* descriptor records, "recorded" or another one; "quality" is what the    *)
(* source-quality package is about, which the operator may make anew.      *)

Values ==
  [sources |-> {"none", "folder", "recorded", "edited"},
   quality |-> {"none", "recorded", "edited"},
   original |-> {"none", "recorded", "edited"},
   subset |-> {"recorded", "edited"},
   contract |-> {"sound", "unusable"}]

Directories ==
  [sources : Values.sources, quality : Values.quality, original : Values.original,
   subset : Values.subset, contract : Values.contract]

\* Each case starts with one of them; the lists of the scripts name required cases.
StartsStated ==
  /\ \A start \in Starts : start \in [Cases -> Directories]
  /\ Sanitized \cup Derived \cup Replayable \subseteq Cases

Kept(c) == {"sources", "quality", "contract"}
           \cup (IF c \in Derived THEN {"original"} ELSE {})
           \cup (IF c \in Sanitized THEN {"subset"} ELSE {})

\* _directory_has_file: rglob finds files, not directories.
HasFile(f) == f.sources \in {"recorded", "edited"}
\* _has_sources: iterdir finds anything.
HasSources(f) == f.sources # "none" /\ f.quality # "none"
\* verify_source_risk_report: the package is about the sources that are there.
IsAboutSources(f) == HasFile(f) /\ f.quality = f.sources

-----------------------------------------------------------------------------
(* The harness.                                                            *)

SourceChecks == <<"case", "contract", "parity", "other", "gate", "redaction", "derivation">>
SanitizedChecks == <<"replay">>
Checks == SourceChecks \o SanitizedChecks

Covers(check) ==
  CASE check = "parity" -> Replayable
    [] check \in {"redaction", "replay"} -> Sanitized
    [] check = "derivation" -> Derived
    [] OTHER -> Cases

\* A check that needs sources skips without them; the derivation has its own two files.
Skips(check, f) ==
  \/ check \in {"case", "parity", "other", "gate", "redaction"} /\ ~HasSources(f)
  \/ check = "derivation" /\ f.original = "none" /\ f.sources # "edited"

\* assemble refuses sources that its source-quality package is not about, and nothing else
\* compares them with those the expectations were recorded from but the digests of the
\* sanitized and of the derived cases.
Fails(check, f) ==
  \/ check = broken
  \/ f.contract = "unusable"
  \/ check \in {"case", "parity", "other"} /\ ~IsAboutSources(f)
  \/ check = "gate" /\ ~HasFile(f)
  \/ check = "redaction" /\ f.sources # "recorded"
  \/ check \in {"redaction", "replay"} /\ f.subset # "recorded"
  \/ check = "derivation" /\ (f.sources = "edited" \/ f.original = "edited")

\* Whether an edit touches what the extraction says of the sources is open.
Unsettled(check, f) == check \in {"case", "parity", "other", "gate"} /\ f.sources = "edited"

Of(c) == {o \in outcomes : o.case = c}

\* _assemble_case: the run assembled for the first check serves the others of the session,
\* also when what the check asserts of it is not so.
Assembled(c) ==
  {o.on : o \in {p \in Of(c) : p.check = "case" /\ p.on.contract = "sound" /\ IsAboutSources(p.on)}}

On(check, c) ==
  IF check = "other" /\ Assembled(c) # {}
  THEN [(CHOOSE f \in Assembled(c) : TRUE) EXCEPT !.contract = files[c].contract]
  ELSE files[c]

Outcomes(check, c) ==
  IF Skips(check, files[c]) THEN {"skipped"}
  ELSE IF Fails(check, On(check, c)) THEN {"failed"}
  ELSE {"passed"} \cup IF Unsettled(check, On(check, c)) THEN {"failed"} ELSE {}

\* What a check may find of its cases.
Found(check) ==
  {{[case |-> c, check |-> check, outcome |-> found[c], on |-> On(check, c)] : c \in Covers(check)} :
     found \in {f \in [Covers(check) -> {"passed", "failed", "skipped"}] :
                 \A c \in Covers(check) : f[c] \in Outcomes(check, c)}}

Unfinished == UNCHANGED <<command, broken, files, edits>>
Ended == at \in {"complete", "failed"}
Fail == at' = "failed" /\ UNCHANGED <<pending, outcomes, binding, report, written>>

RunCheck ==
  /\ at = "harness" /\ pending # <<>>
  /\ \E found \in Found(Head(pending)) : outcomes' = outcomes \cup found
  /\ pending' = Tail(pending)
  /\ Unfinished /\ UNCHANGED <<at, binding, report, written>>

\* pytest is interrupted: it reports what it ran, and its exit code is not zero.
Interrupt ==
  /\ at = "harness" /\ pending # <<>>
  /\ at' = IF command.tool = "gate" THEN "failed" ELSE "building"
  /\ Unfinished /\ UNCHANGED <<pending, outcomes, binding, report, written>>

-----------------------------------------------------------------------------
(* The quality gate.                                                       *)

\* repository_hygiene_violations: below a forbidden root, not a file of its name.
ForbiddenRoots == {"work", "out", "runs", "tmp", ".loop-apidoc", "sources", "teams-archive-preview"}
HygieneViolations == {path \in command.tracked : Len(path) > 1 /\ Head(path) \in ForbiddenRoots}

MissingSources == {c \in Cases : ~HasFile(files[c])}
Unaudited == {c \in Cases : files[c].quality = "none"}
InvalidDerivation == {c \in Derived : files[c].contract = "unusable"}
MissingOriginal == {c \in Derived \ InvalidDerivation : files[c].original = "none"}

Hygiene ==
  /\ at = "hygiene"
  /\ \/ HygieneViolations # {} /\ Fail
     \/ /\ HygieneViolations = {}
        /\ at' = IF command.mode = "strict-local" THEN "prerequisites" ELSE "lint"
        /\ UNCHANGED <<pending, outcomes, binding, report, written>>
  /\ Unfinished

Prerequisites ==
  /\ at = "prerequisites"
  /\ LET missing == MissingSources \cup Unaudited \cup InvalidDerivation \cup MissingOriginal
     IN  \/ missing # {} /\ Fail
         \/ missing = {} /\ at' = "lint" /\ UNCHANGED <<pending, outcomes, binding, report, written>>
  /\ Unfinished

Lint ==
  /\ at = "lint"
  /\ \/ broken = "lint" /\ Fail
     \/ broken # "lint" /\ at' = "suite" /\ UNCHANGED <<pending, outcomes, binding, report, written>>
  /\ Unfinished

\* run_step of the whole suite, where a skip is no failure; then what command_plan adds.
Suite ==
  /\ at = "suite"
  /\ LET found == UNION {{Outcomes(Checks[i], c) : c \in Covers(Checks[i])} : i \in DOMAIN Checks}
     IN  \/ "failed" \in UNION found /\ Fail
         \/ /\ {"failed"} \notin found
            /\ pending' = CASE command.mode = "strict-local" -> SourceChecks
                            [] command.mode = "sanitized" -> SanitizedChecks
                            [] OTHER -> <<>>
            /\ at' = "harness"
            /\ UNCHANGED <<outcomes, binding, report, written>>
  /\ Unfinished

\* has_benchmark_skips.
HasSkips == \E o \in outcomes : o.outcome = "skipped"

Judge ==
  /\ at = "harness" /\ pending = <<>> /\ command.tool = "gate"
  /\ LET failed == \E o \in outcomes : o.outcome = "failed"
         refused == failed \/ (command.mode = "strict-local" /\ HasSkips)
     IN  \/ refused /\ Fail
         \/ ~refused /\ at' = "smoke" /\ UNCHANGED <<pending, outcomes, binding, report, written>>
  /\ Unfinished

\* The adversarial scenarios: one whose exit code, signal or cleanup is wrong fails the gate.
Smoke ==
  /\ at = "smoke"
  /\ \/ broken = "smoke" /\ Fail
     \/ broken # "smoke" /\ at' = "complete" /\ UNCHANGED <<pending, outcomes, binding, report, written>>
  /\ Unfinished

-----------------------------------------------------------------------------
(* The attestation.                                                        *)

Bind ==
  /\ at = "binding"
  /\ binding' = (\E c \in Cases : files[c].contract = "unusable" \/ files[c].subset = "edited")
  /\ pending' = Checks /\ at' = "harness"
  /\ Unfinished /\ UNCHANGED <<outcomes, report, written>>

Collect ==
  /\ at = "harness" /\ pending = <<>> /\ command.tool = "attest"
  /\ at' = "building"
  /\ Unfinished /\ UNCHANGED <<pending, outcomes, binding, report, written>>

\* _validate_committed_contracts, _sanitized_reference, _derivation_reference.
Contradicts(c) ==
  \/ files[c].contract = "unusable"
  \/ c \in Sanitized /\ files[c].subset # "recorded"
  \/ c \in Derived /\ files[c].sources = "edited"

\* _case_assets: what the operator owes the case.
Unavailable(c) ==
  {a \in {"sources", "quality", "original"} :
     \/ a = "sources" /\ ~HasFile(files[c])
     \/ a = "quality" /\ files[c].quality = "none"
     \/ a = "original" /\ c \in Derived /\ files[c].original = "none"}

Passed(c, check) == \E o \in Of(c) : o.check = check /\ o.outcome = "passed"
Among(c, outcome) == \E o \in Of(c) : o.outcome = outcome

Parity(c) ==
  IF Passed(c, "parity") THEN "source_backed_replay"
  ELSE IF Passed(c, "replay") THEN "sanitized_fixture_replay"
  ELSE "not_established"

\* Tri-state: nothing is said of a case whose primary check did not run.
Conformance(c) == IF Among(c, "failed") THEN "no" ELSE IF Passed(c, "case") THEN "yes" ELSE "not established"

StrictLocalPassedLax(c) ==
  command.mode = "strict-local" /\ Unavailable(c) = {} /\ ~Among(c, "failed") /\ ~Among(c, "skipped")

StrictLocalPassed(c) ==
  /\ command.mode = "strict-local" /\ Unavailable(c) = {}
  /\ Passed(c, "case") /\ ~Among(c, "failed") /\ ~Among(c, "skipped")

Case(c) ==
  [unavailable |-> Unavailable(c),
   source_backed |-> Passed(c, "case"),
   sanitized |-> Passed(c, "replay"),
   parity |-> Parity(c),
   conformant |-> Conformance(c),
   strict_local_passed |-> StrictLocalPassed(c)]

\* pytest's: not zero when a check failed or the session was interrupted.
ExitCode == IF pending = <<>> /\ \A c \in Cases : ~Among(c, "failed") THEN 0 ELSE 1

\* build_attestation reads the directories after the harness did, and states the exit code
\* without looking at it; main refuses a strict-local report of a case whose prerequisites
\* are not there.
Build ==
  /\ at = "building"
  /\ LET built == [c \in Cases |-> Case(c)]
         refused == \/ \E c \in Cases : Contradicts(c)
                    \/ command.mode = "strict-local" /\ \E c \in Cases : built[c].unavailable # {}
     IN  \/ refused /\ Fail
         \/ ~refused /\ report' = [exit_code |-> ExitCode, cases |-> built] /\ at' = "json"
            /\ UNCHANGED <<pending, outcomes, binding, written>>
  /\ Unfinished

\* write_exclusive: an output that exists is refused; the one written before it stays.
Write(output, next) ==
  /\ at = output
  /\ \/ output \in command.exists /\ Fail
     \/ /\ output \notin command.exists
        /\ written' = written \cup {output} /\ at' = next
        /\ UNCHANGED <<pending, outcomes, binding, report>>
  /\ Unfinished

-----------------------------------------------------------------------------
(* The operator.                                                           *)

Edit ==
  /\ ~Ended /\ edits < MaxEdits
  /\ \E c \in Cases : \E a \in Kept(c) : \E v \in Values[a] \ {files[c][a]} :
       files' = [files EXCEPT ![c][a] = v]
  /\ edits' = edits + 1
  /\ UNCHANGED <<command, broken, at, pending, outcomes, binding, report, written>>

Init ==
  /\ command \in Commands /\ broken \in Regressions /\ files \in Starts
  /\ at = IF command.tool = "gate" THEN "hygiene" ELSE "binding"
  /\ pending = <<>> /\ outcomes = {} /\ binding = None /\ report = None /\ written = {} /\ edits = 0

Next ==
  \/ Hygiene \/ Prerequisites \/ Lint \/ Suite \/ Judge \/ Smoke
  \/ Bind \/ Collect \/ Build \/ Write("json", "markdown") \/ Write("markdown", "complete")
  \/ RunCheck \/ Interrupt \/ Edit

Spec == Init /\ [][Next]_vars

-----------------------------------------------------------------------------
(* Properties.                                                             *)

\* What has to lie in a case directory for a check to establish anything.
Backs(check, f) ==
  /\ f.contract = "sound"
  /\ check \in {"case", "parity", "other"} => IsAboutSources(f)
  /\ check = "gate" => HasFile(f) /\ f.quality # "none"
  /\ check = "redaction" => f.sources = "recorded"
  /\ check \in {"redaction", "replay"} => f.subset = "recorded"
  /\ check = "derivation" => f.original = "recorded" /\ f.sources # "edited"

\* Check established something of c: it ran and passed, on what it is about, at a revision
\* that obeys it.
Established(c, check) ==
  \E o \in Of(c) : o.check = check /\ o.outcome = "passed" /\ broken # check /\ Backs(check, o.on)

\* Of c, everything the harness could establish is.
FullyEstablished(c, list) ==
  \A i \in DOMAIN list : c \in Covers(list[i]) => Established(c, list[i])

\* No assurance is stated that was not earned by an execution, whatever the operator puts
\* back before the report is made: a source-backed pass and a parity by a check that passed
\* on sources its quality package is about, a sanitized replay never as one of them.  A case
\* is strict-local passed only if its primary check passed and every check the harness ran
\* of it did, and, when the report says the harness ended well, every check there is
\* (docs/BENCHMARK_VALIDATION_PLAN.md:337, "all source-backed benchmark checks ran, and no
\* skip was reported"): a sanitized or derived case then rests on the recorded snapshot.  So
\* does every case when the strict-local gate passes (benchmark_attestation.py:402-427,
\* quality_gate.py:1066-1080).
AssuranceIsEarned ==
  /\ report # None =>
       \A c \in Cases :
         LET stated == report.cases[c] IN
         /\ stated.source_backed => Established(c, "case")
         /\ stated.parity = "source_backed_replay" => Established(c, "parity")
         /\ stated.parity = "sanitized_fixture_replay" => c \in Sanitized /\ Established(c, "replay")
         /\ stated.conformant = "yes" => \A o \in Of(c) : o.outcome # "skipped" => Established(c, o.check)
         /\ stated.strict_local_passed =>
              /\ Established(c, "case") /\ \A o \in Of(c) : Established(c, o.check)
              /\ report.exit_code = 0 => FullyEstablished(c, Checks)
  /\ at = "complete" /\ command.tool = "gate" /\ command.mode = "strict-local" =>
       \A c \in Cases : FullyEstablished(c, SourceChecks)
=============================================================================
