# loop-apidoc: verification development

loop-apidoc turns API documentation into a governed contract: an agent extracts, `assemble` checks the
extraction and builds a run directory, the Core decides what the evidence supports, and the foundry
keeps approved versions under `.foundry/api/`. This directory holds TLA+ models of the parts where
order, failure, concurrency or a chain of judgements decides whether that works, TLC configurations
that check them on small instances, and TLAPS proofs for all instances. `PROJECT.json` lists, for
machines, the components, runs, mutants, hazards, findings and theorems, and the source lines every
definition stands for. Paths without a directory prefix are below `src/loop_apidoc/`.

Check everything from this directory with `tlc -config X.cfg M` for the runs of section 3 and
`tlapm M.tla` for the eight `...Proofs` modules.

## 1. The system

| Component | State | Operations | Interacts with | Hard behaviour | What makes it correct |
|---|---|---|---|---|---|
| **Extraction preparation** `agentcli/extraction.py`, `source_facts/`, `manifest/`, `cross_file.py`, `source_guard.py`, `evidence.py` | extraction files, manifest | check_extraction, evidence references | assemble, plan | gates over files that name each other | what passes can be attributed to a document |
| **Planning and generation** `plan/`, `generate/` | the plan, the OpenAPI document, its provenance | build_plan, merge of details and integration rules, generation | validate, score, the bridge | merges in the order of files; duplicates; equal names | each part of the contract has the source that states it |
| **Validation, score and quality** `validate/`, `score/` | report, score | validators, evaluate, loop verdict | assemble, the correction loop | judgements over the products of others | a run that passes is supported |
| **Shadow Core bridge** `shadow/bridge.py` | none | proposals from the plan's references | fragments, Core verification | duplicates, correspondence and pointers cited together | what the Core would accept is proposed, nothing else counts |
| **Core reconciliation and policy** `core/verification.py`, `reconciliation.py`, `openapi_*.py`, `conformance*.py`, `policy.py`, `domain/` | assessments, proposals, amendments | verify_supports, reconcile_claims, the derivations, feedback assessment, approval, composition | bridge, use cases, feedback promotion | derivations over chains of references; expiry and supersession | a derived fact is what the document states; an override is warranted |
| **Assemble pipeline and atomic publication** `agentcli/assemble.py`, `strict.py`, `atomic_publish.py`, `descriptor_output.py`, `adapters/local.py` | stages, run directories, addressed trees, `core/` | run_assemble_pipeline, run_strict_core_safely, publish_directory_noreplace, the artifact sink | foundry import reads the runs | names raced for and entries replaced by others; any write of `core/` fails | a name holds a whole run; a strict run never passes as a legacy one |
| **Core use cases** `core/service.py`, `lifecycle.py`, `adapters/memory.py` | per source set: snapshot, event log, reservation; the artifact sink | register, acquire, request_claim_proposals, reconcile, build_contract, validate, approve, publish | unit of work, ports: source, runtime, approver, sink | callers interleave between reservation and commit; ports raise; acknowledgements are lost; retries with other payloads | one command at a time, no effect repeated, answers equal receipts, only approved releases are published |
| **Foundry approval and registration** `foundry/approve.py`, `register.py`, `head_io.py`, `store.py`, `query.py` | `docset.json`, `current.json`, shared `catalog.json`, asset roots, two lock directories | approve_candidate, register_docset, rollback, lock-free reads, removal of stale locks | review and the CLI call approve | three heads replaced in several file-system calls each, every call may fail, processes die | unlocked heads agree; returned approvals are never lost; reads are of one instant |
| **Foundry import** `foundry/importer.py` | candidate directories, backups, quarantines | import_run with and without overwrite | same locks; the workbench writes without them | backup, publication and rollback in steps; cleanup after the locks are gone | a failed import changes nothing; the predecessor is retained until commit |
| **Feedback promotion** `foundry/effective_approval.py`, `feedback.py`, `effective_binding.py` | write-once cases and decisions, amendments, effective assets, their pointer | persist_feedback_case, record_feedback_review, approve_feedback_case, lock-free reads | same locks; conformance composes | partial publication and rollback; a crash; the normative base moves | a promotion leaves all of its outputs or none; decisions stay |
| **Review workbench** `review/` | the page, `review/decision.json` | open_review, save_decision, approve_review | ThreadingHTTPServer threads; foundry import, approve, query | no lock; a snapshot is five reads | what is published is what was reviewed |
| **Benchmark assurance** `scripts/quality_gate.py`, `benchmark_attestation.py` | case directories, the attestation | the gate, the attestation of one harness run | the test harness; an operator | sources put there or taken away meanwhile; checks that skip | no assurance is stated that no execution earned |
| **Freshness and governance scans, diff, feedback intake, source acquisition, CLI** | none or report files | scans and conversions | network, files | none that outlives a call | not modelled (section 6) |

A run goes through the table from the top: the extraction is checked, merged into a plan, validated and
scored; in strict mode the bridge proposes and the Core verifies; the run gets its name; an import
makes it a candidate, the workbench reviews it, an approval makes it the current asset, and feedback
on that asset is assessed, approved and promoted.

## 2. Modules

| Module | Models | Role |
|---|---|---|
| `ExtractionGate` | `agentcli/gate.py`, `cross_file.py`, `source_guard.py`, `plan/classify.py` | what an extraction has to satisfy, and attribution |
| `Planning` | `plan/builder.py`, `plan/integration.py` | from an extraction to the judgement of its contract |
| `ContractProducts`, `ContractJudgement` | `generate/openapi.py`, `naming.py`, `provenance.py`; `validate/`, `score/` | operators `Planning` extends |
| `Grounding` | `agentcli/evidence.py`, `adapters/fragments.py`, `shadow/bridge.py`, `core/verification.py`, `core/reconciliation.py`, `agentcli/strict.py` | what a plan has to prove in strict mode |
| `OpenApiDerivation` | `core/openapi_derivation.py`, `core/openapi_pointers.py`, `shadow/bridge.py` | support that follows from where a pointer points, against what a document states |
| `RunPublication` | `agentcli/assemble.py`, `strict.py`, `atomic_publish.py`, `adapters/local.py`, `foundry/strict_artifacts.py` | how a run and an addressed tree get their names |
| `Conformance` | `core/conformance.py`, `conformance_policy.py` | feedback judged, approved, expired and composed |
| `BenchmarkAssurance` | `scripts/quality_gate.py`, `benchmark_attestation.py` | what is said of the benchmark cases |
| `Lifecycle`, `CoreService` | `core/lifecycle.py`; `core/service.py`, `adapters/memory.py` and the policies it calls | the use cases as a state machine |
| `IdempotentLedger` | the promise of the command receipts | abstract specification `CoreService` implements |
| `FoundryApproval` | `foundry/approve.py`, `register.py`, `head_io.py`, `store.py`, `query.py` | the governed heads, step by step |
| `Importer` | `foundry/importer.py` and the directory moves it uses | overwriting a candidate, step by step |
| `FeedbackPromotion` | `foundry/feedback.py`, `effective_approval.py`, `effective_binding.py` | cases, decisions and promotions, step by step |
| `ReviewWorkflow` | `review/` | the workbench over an abstract foundry |
| `Pipeline` | the seven parts of the pipeline's run (section 3) | composition of modules that share no state |
| `MCHumanDecisions`, `MCFoundryHeads` | the stores of the human decisions; the scopes of the foundry's heads | compositions with the values TLC takes |
| `MCPipeline`, `MCGrounding`, `MCOpenApi`, `MCPlanning`, `MCWebhooks`, `MCFoundryApproval`, `MCImporter` | | instances' inputs and symmetry |
| `CoreServiceProofs`, `FoundryProofs`, `RunPublicationProofs`, `FeedbackPromotionProofs`, `ImporterProofs`, `HumanDecisionsProofs`, `PlanningProofs`, `PipelineProofs` | | theorems |

### ExtractionGate and Planning

`Accepted` is `check_extraction`: roots of paths, duplicate operations, summaries, and the agreement of
the inventory with the endpoint files. `Classify` is the attribution of an item to a document, by name
or because the manifest holds only one. `BuildInventory` makes the plan's entries; `MergeDetail` merges
one endpoint file for one of its methods (webhooks by page and order), `AddDetail` makes an entry of one
that has none, `SkipDetail` notes a file without a method; `Collapse` makes one entry of those of one
operation, and the report (`Validate`) and the score (`ScoreRun`) follow. `ContractProducts` is the OpenAPI document with the targets of provenance,
`ContractJudgement` the issues, the score and the loop's verdict.

`PassedMeansSupported` says what a run that passes rests on. It does not speak of an inventory entry or
an endpoint file without a method, which `expand_methods` drops and `_merge_endpoint_details` skips,
whatever their sources, and asks for responses in at least one of the files of an operation, not in
each: the code promises no more, as `MCPlanning` shows with a contract of each kind that passes.

What the model makes visible: `match_manifest_source` attributes a citation to a source whose status is
IGNORED or UNSUPPORTED as well, though `manifest/models.py:118` says an ignored file is never evidence,
and of two sources with the same base name the first wins; names of webhook items and of security
schemes are not made distinct; a run with errors can converge in the loop ("converged" is about the
score's profile, `score/loop.py`); a plan without a title can score a pass.

### Grounding and OpenApiDerivation

`Grounding` is one strict run: `Verify` (every reference holds what it was made of), `Acquire` (the
fragments, of sources that may have changed: `Edit`), `Propose` (the bridge), `Reconciliation` and
`Decide`. A document is what its locators hold. `OpenApiDerivation` takes one claim path and the
references cited for it; `Bridge` groups them as the bridge does, `Adapter` proposes any derivation of
any of them, and the Core's `Verified` accepts or not. `Holds` reads the same fact from the document
itself, by the steps of the field's name and `$ref`, and not from the pointers. A document holds what
holds anything in it, so a pointer to a container can be cited too.

What the model makes visible: `_all_citations` (`shadow/bridge.py:1766`) leaves out four kinds of
entries that are projected into claims, so strict mode always rejects them (`Unlisted`); a superfluous
reference hides a derivation from the bridge; derivations about an operation, a response or a scheme
alone are not tied to the claim's own operation by the Core, so `Holds` does not speak of them; an
array below another field of a request body is named `box[].tags` by the Core and `box.tags[]` by the
extraction (`core/openapi_pointers.py:134`), which `DerivedHolds` leaves out (`NestedBodyArray`).

### RunPublication

A directory is its inode, `at` the name it stands under and `tree` its files with what they say. A
command begins (`Begin`), makes and fills a stage (`FillStage`, with everything `core/` may look like
after failed writes: `AssembledTrees`), verifies it, renames it without replacing (`Rename`, `Collide`),
and confirms that the name holds what it published (`Confirm`); otherwise it moves whatever stands
there to a quarantine name (`Distrust`, `Quarantine`). `Meddle` is an outside program that moves an
entry and may leave its own directory; `Crash` kills a command anywhere. `Eligibility` is what an
import makes of a run. `touched`, `asked` and `returned` are history variables.

What the model makes visible: the sink's fsync failing after its rename (`adapters/local.py:66`) moves
away an address another publisher has already reused and returned, which is why `ReturnedStands` ends
for a name at the first publication of it that could not be verified (`touched`).

### Conformance and FeedbackPromotion

`Conformance` is the judgement: `Assess`, `Propose`, the human's approval, `Compose` at a moment, with
releases that move and time that passes. `FeedbackPromotion` is the storage: `Begin` takes the locks,
`PublishCase` and `WriteDecision` write once, a promotion is `WriteAmendment`, `PublishAsset`,
`MovePointer`, `LinkPointer`, `RetirePointer`, and a failure undoes exactly the outputs it owns in
reverse order (`UnlinkPointer`, `RestorePointer`, `RemoveOutput`). `LateFailures` are steps reported as
failed after they happened. A reader reads the pointer, the asset and the normative base in turn.

What the model makes visible: with amendments A superseded by B superseded by C, B expiring first puts A
in force again, and a composition may be refused by the passage of time alone; a process that dies in a
promotion leaves an amendment that blocks its case for good (on purpose,
`effective_approval.py:212-215`); one that dies between moving the pointer and linking it leaves none,
and after its locks were removed the next promotion starts a lineage of its own, which is why the two
promises about lineages hold until locks were removed by hand. A late failure of the pointer's link is
the same as the one of the normative heads (finding 3) and left out of `LateFailures`.

### BenchmarkAssurance

A case directory is its sources, quality package, original, subset and contract; the digest that a
descriptor records tells contents apart, and a quality package is about one of these contents. The
harness runs one check after another over its cases, between any two of which the operator may `Edit`
a directory, also by making the package anew. A check of assembled sources refuses what the package is
not about (`IsAboutSources`); it compares them with nothing recorded, so on edited sources it may pass
or fail (`Unsettled`). Only the sanitized and the derived cases compare digests. The gate checks
hygiene, prerequisites, the suite and smoke; the attestation binds the revision, collects the harness'
report, derives each case's assurances and writes its outputs exclusively.

What the model makes visible: the attestation states pytest's exit code and never consults it, so an
interrupted harness can give a case `strict_local_passed` although some of its checks never ran, where
`docs/BENCHMARK_VALIDATION_PLAN.md:337` says that all of them did (`AssuranceIsEarned` asks for all of
them only in a report with exit code 0); `source_backed_executed` and a source-backed replay are
stated of edited sources too, when the operator has regenerated their package; an existing Markdown
output is refused after the JSON was written, though `docs/BENCHMARK_VALIDATION_PLAN.md:269` says that
a refusal leaves nothing that could be mistaken for a result; an edit of a source text that no reference cites passes the gate of the extraction.

### CoreService

One caller runs one command at a time: `Reserve` (with replay of a completed key, refusal of a live
one), a preflight that may hand the fence back, the port (`calling`), the result (`ready`), and
`Commit`, which may be applied, fail, or be applied and lose its acknowledgement. `reservation`
holds the fence; the caller stands for the uuid token it draws. `snapshot`, `events` and
`publications` are the unit of work's and the sink's state; `invoked` is a history variable, the
ports asked so far. Payloads (evidence versions, claim kinds, metadata, compilers) are members of
small sets; what is published is kept under its content, the contract and the compilers (`Address`); a command's operation key is its aggregate, action and payload, as `_operation_key`
digests them. The preconditions of each command are written in the order of its early returns.

What the model makes visible: the stages `stale`, `superseded` and `revoked` are in the graph but no
use case reaches them; a contract whose decision is `reject` has no way on; an approved aggregate
without projections cannot be published.

### FoundryApproval

`file` maps each head to its content and inode; identities are compared as `head_io.py` compares
them. A process takes the catalog lock, then the docset lock (`ApproveBegin`, `LockDocset`;
`RegisterBegin`), captures the heads and checks that they agree (`CheckApproval`,
`CheckRegistration`), publishes the root (`PublishRoot`), and replaces head after head: `MoveHead`
to a quarantine name, `LinkHead` the new file, `RetireHead` the old one. Each of these may fail
(`StageFails`, `WriteRefused`, `LinkFails`, `VerifyFails`, `RetireFails`) and lead to the rollback
(`RestoreHead`, `RelinkHead` and their failures, `CleanUp`), which gives the locks back or, when
recovery is required, keeps them. `Crash` kills a process anywhere; `ClearLocks` is the operator.
A reader is four separate reads (`ReadPointer` to `ReadAsset`; `ReadsAreAtomic`). `served`, `seen`, `acked` and
`cleared` are history variables.

Abstracted: candidate validation, legacy reapproval, the expected base and score checks may only
refuse (`Refuse`); the eligibility and digest checks of the copied artifacts may only fail staging.
Other programs' files under `.foundry` are out of scope.

What the model makes visible: between `MoveHead` and `LinkHead` the shared catalog is absent, and
`list_docsets` (query.py:514) sees an empty one; a docset whose transaction died between two heads
stays refused after its locks are removed; when `begin_governance_transaction` cannot take the
docset lock and cannot give the catalog lock back either, the catalog stays locked
(store.py:257-260); when removing the docset lock succeeded, removing the catalog lock failed and
the rollback fails too, only the catalog lock remains as a guard; with one manual recovery and
further approvals an acknowledged asset can leave the lineage of the pointer, which is why
`AckedStaysInLineage` claims its lineage part only until locks were removed by hand.

### Importer

A directory of the docset's `candidates/` is its inode, and `at` says under which name it stands:
under a run's name, as a stage, a backup, a quarantined backup (`prune`), a recovery or a tombstone
(nothing is ever unlinked). `import_run` is one action per namespace operation: `ReadPrior`,
`CollectLeftovers` (quarantines an earlier import left), `StageCandidate`, `QuarantineBackup`,
`MoveAside`, `PublishStage`, `Close`. Any of them may fail without effect (`StepFails`), and the moves
in `LateFailures` also after they happened. The rollback is `Reconcile`, `UndoPublication`, `PutBack`,
`RestoreBackup`, `Release`; a directory it does not know is moved aside (`Surrender`) and the locks
stay, as they do when a step of the rollback fails or the process dies (`Abandon`). After the commit
`RetireQuarantine` works without the locks, beside the next import. `SaveBegin` and `SaveDecision`
are a request of the workbench whose write makes the directory again while its name is free. The two
lock directories are one here; FoundryApproval has both.

What the model makes visible: a backup whose move to quarantine was reported failed after it happened
is not recorded (importer.py:211-218) and so not put back, unlike the predecessor, for which
`_reconcile_backup_for_rollback` looks (with `"quarantine"` in `LateFailures`, TLC refutes
`FailureRestoresBackups`); the next import of the run takes what an overwrite that died had
quarantined for leftovers of a committed one (importer.py:244) and retires it, which is why
`CommittedIsKept` claims the predecessor only until locks were removed by hand.

### ReviewWorkflow

`Sessions` are request threads: the web adapter is a `ThreadingHTTPServer` whose handlers take no
lock. A request takes a snapshot in five steps, `ReadCandidate` (findings), `ReadCurrent` (base
asset), `ReadBaseline` (its artifacts), `DigestCandidate` (binding) and `ReadDecision` (which also
compares the saved decision, validates the draft or compares the fresh binding, as
`_snapshot`, `_validate_draft` and `approve_review` do). A save truncates the decision file and then
writes it; an approval takes a second snapshot, digests the decision and calls `approve_candidate`,
one step here, because FoundryApproval shows that it happens wholly or not at all and under locks.
`ImportRun` (an overwrite) and `ApproveElsewhere` are other processes. An import makes another
directory: a thread that opened the decision file before writes to the retired one (`edition`).

What the model makes visible: a decision that is stale or cut short blocks every later open and save
of its candidate (workflow.py:217) until `foundry import --overwrite`; the adapter's snapshot is
refreshed by saves only, so after a change of base the workbench must be started again
(web.py:87, 145); `foundry approve` outside the workbench bundles whatever decision file is there.

`MCHumanDecisions` takes this workbench, the feedback of a scope and the candidates of a docset as
three stores side by side; they are different directories and no step of one touches another.

## 3. Runs

| Run | Module, config | Properties | Instance | Shows |
|---|---|---|---|---|
| `core_service` | `CoreService`, `CoreService.cfg` | `TypeOK` `FenceExclusive` `CommitNeverRefused` `NoRepeatedEffect` `AuditTrailIsPath` `AnswersAreReceipts` `RuntimeNeverApproves` `PublicationsAreApproved` `RejectionIsFinal` `HistoryAppendOnly` `ImplementsLedger` `CallsReturn` | 2 callers, 1 aggregate, payload alternatives, an approver that is also a runtime | the use cases under interleaving, failures and retries implement the ledger; calls return |
| `foundry_heads` | `MCFoundryHeads`, `FoundryApproval.cfg` | `LocksExclude` `QuiescentHeadsAgree` `AckedStaysInLineage` `NoOrphanRoots` `ReadsAreAtomic` | "heads": 2 docsets, 2 processes, 3 assets; "approvals" and "registrations": 1 docset, 1 process, 1 reader, 2 assets or an asset and 2 titles; no locks removed | approval and registration under failures and crashes, with the catalog shared; lock-free reads |
| `foundry_faults` | `MCFoundryApproval`, `FoundryFaults.cfg` | `LineageIntact` `TransactionsEnd` | failing stats, 2 assets, 1 removal of locks | no approval is built on a broken docset; transactions end |
| `human_decisions` | `MCHumanDecisions`, `HumanDecisions.cfg` | `ApprovedAsBound` `ReviewedMeansAccepted` `BundledDecisionIsApprovers` `PromotionIsAllOrNothing` `PromotedStaysInLineage` `RecordedStays` `ServedWasCurrent` `FailureRestoresCandidate` `FailureRestoresBackups` `OneBackupAtCommit` `ForeignKeepsLocks` `CommittedIsKept` | workbench: 1 thread, 6 imports, 2 assets; feedback: 2 processes, 2 cases, 1 reader, 2 releases, 1 removal of locks; import: 2 processes, 5 directories and 1 removal, or 4 and 2 | what is approved is what was reviewed; a promotion is whole or nothing; a failed import restores, a commit keeps the predecessor |
| `pipeline` | `MCPipeline`, `Pipeline.cfg` | `ReturnedStands` `NameHoldsWholeRun` `StrictNeverPassesAsLegacy` `OverridesAreWarranted` `CandidateIsGrounded` `DerivedHolds` `BridgeFindsDerivation` `PassedMeansSupported` `AssuranceIsEarned` | seven parts, below | from an extraction to a named run, and what is said of it |
| `core_unknown_outcome` | `CoreService`, `CoreServiceUnknown.cfg` | `UnknownOutcomeNotReissued` (violated) | 1 caller | finding 1 |
| `foundry_uncertain` | `MCFoundryApproval`, `FoundryUncertain.cfg` | `UncertaintyStaysLocked` (violated) | 1 failing stat | finding 3 |
| `review_swapped_decision` | `ReviewWorkflow`, `ReviewSwap.cfg` | `BundledDecisionIsApprovers` (violated) | 2 threads | finding 4 |
| `review_torn_snapshot` | `ReviewWorkflow`, `ReviewShown.cfg` | `ApprovedAsShown` (violated) | 1 thread | finding 5 |
| `import_overlapping_names` | `MCImporter`, `ImporterOverlap.cfg` | `PredecessorRetained` (violated) | 2 runs, 1 process, no fault | finding 6 |
| `strict_blocked_eligible` | `RunPublication`, `StrictBlocked.cfg` | `BlockedIsRefused` (violated) | 1 strict assemble, writes may fail | finding 2 |
| `webhook_swapped_details` | `MCWebhooks`, `WebhookDetails.cfg` | `WebhookKeepsItsDetail` (violated) | 2 webhooks of one page | finding 7 |

A composed run chooses its part in the initial state and runs that part alone. Each part's state
space is the one it would have by itself; the parts are in one run because they share the faults and
the vocabulary of a larger component, not because they interact.

**The parts of `pipeline`.** *race*: two commands, three directories and one outside move, in legacy
mode, where `core/` is not written. *modes*: one assemble into one directory in each mode, every
write of `core/` failing or torn, which is where `StrictNeverPassesAsLegacy` can break. *feedback*:
four kinds of targets (a status, a field, a sensitive one, one that is not documented), two releases,
two amendments, two moments: a supersession, an expiry and a moved release can all happen between an
approval and its composition. *strict*: plans of two entries over every kind of reference (whole,
vague, text, pointer, cell) with sources edited after their check. *derive*: claims about
the operations, responses and schemas of two small OpenAPI documents that refer through arrays and
inline objects, one property of which is named `items`, with one to three references to a field, to
what holds it, or elsewhere, in one document or both.
*plan*: a contract that passes, with the sources of one or two of its parts replaced (by another page,
a URL, a note, a vague one or none) or one thing wrong with its shape, and two webhooks of one page. *benchmarks*: the
gate and the attestation in their modes over two cases, whole, with one asset missing or with edited
sources and a package about them, one regression and one edit at any point. The bounds of *feedback*
stay below an expiry that revives an amendment and below most moves of a release: those rest on
`OverridesWarranted`, which is proved for any number of releases, amendments and moments.

**Bounds.** *Core*: two callers are every interleaving of a command with another one; each payload
has an alternative, so a retry with another payload occurs at every stage. Aggregates share nothing
but the sink, which is keyed by aggregate, so one suffices for TLC; the proofs cover any number.
*Foundry*: three assets are a chain with a predecessor that is neither first nor
current; the second docset is an entry of the catalog the transaction does not own. In
`foundry_faults` one removal of locks lets transactions follow a crash or an abandoned rollback (locks are removed only when no
process is inside a transaction: an operator who removes the locks of a running one breaks the
protocol, not the code). *Import*: five directories are three generations of a candidate, a failed
stage and what a late save makes; the second process is the next import that meets the first one's
clean-up. Runs share nothing but the lock unless their names overlap (`Overlaps`). `LateFailures`
leaves out `"quarantine"`, whose failure the code does not recover from (section 2). *Feedback*: two
cases are a promotion over another one's; two releases, a base that moves between them; a lineage of
three has an asset that is neither first nor current. *Review*: six imports let the contents go back
and forth at each of the three snapshots of an approval; two assets are a base that changes under a
review. The thread of `human_decisions` is interleaved with everything outside the workbench. Two
threads are checked where they break something (`review_swapped_decision`); for any number of threads
`ApprovedAsBound` is proved. `ReviewedMeansAccepted` is not claimed for several threads: with an
overwrite to and fro inside each snapshot and a save of another thread into the new directory it can
be broken. *Publication*: three directories are one for each command and one of the outside program;
the proofs cover any number.

**Deadlock.** Checked for the Core. Off where the system may stop for good: a foundry whose locks are
all stale and without an operator, an importer without fresh directories, a workbench or a feedback
store whose bounds are used up, and judgements that end with a verdict.

**Fairness.** `CoreService!FairSpec`: weak fairness of a caller's steps inside a command; a call is
straight-line code whose ports return or raise. `FoundryApproval!FairSpec`: weak fairness of a
process inside a transaction; every step is a file-system call that succeeds or fails, and there is
no waiting for a lock (acquisition fails at once). No fairness is assumed of starting commands, of
crashes, of retries or of operators. The other components promise safety only: each is one call that
returns or raises, and nothing in them waits for anything.

**Mutants.** Each property of a passing run has a mutant, a definition with a comment `Mutant:` in the
module of the code it changes, that alters one mapped definition the way a bug would; TLC finds the
property violated with it.

## 4. Findings

1. `core_unknown_outcome`: docs/ARCHITECTURE.md:37 promises that an unknown outcome of a port stays
   fenced; the service releases the fence on every exception (core/service.py:165) and the next call
   asks the port again. tests/core/test_service_persistence.py tests that retry.
2. `strict_blocked_eligible`: `execution.json` says that the candidate is eligible and is written first;
   when a later write fails, writing it again is refused (`O_EXCL`, agentcli/strict.py:266), so neither
   the blocked marker nor `error.json` is there, and a run of status `blocked` passes
   `require_eligible_strict_candidate` when the six candidate files are whole. README.md:872 says it is
   blocked.
3. `foundry_uncertain`: a failing stat (foundry/head_io.py:88, 109, 144) is not treated as a failed
   ownership verification; the locks are released over heads that disagree
   (docs/DESIGN_DECISIONS.md:265 says they remain).
4. `review_swapped_decision`: the digest of the decision is taken after the last comparison
   (review/workflow.py:118); another thread's save, even its truncated file, is bundled.
5. `review_torn_snapshot`: findings and digests are read separately (review/workflow.py:173, 193).
6. `import_overlapping_names`: older backups are found by a prefix of their names
   (foundry/importer.py:202-205); overwriting the run `pay` retires the retained predecessor of the run
   `pay-backup-2`. No fault is needed.
7. `webhook_swapped_details`: details without a path are paired by page and in the order of files
   (plan/builder.py:448), so two webhooks of one page exchange their responses when the files stand in
   the other order; agentcli/cross_file.py:10-12 says that generation keys on the summary.

## 5. Proofs

TLAPS proves, for every value of the constants:

* `CoreServiceProofs!TypeSafety`, from `TypeCorrect`: `TypeOK` is not inductive as it stands, a
  command's caller must be known to hold the snapshot of its own aggregate (`HeldKnown`) and receipts
  to lie under the keys of their aggregate (`ReceiptsMatchKeys`).
* `Fencing` (`FenceExclusive`) and `CommitNeverLosesRace`: the strengthening `FenceInv` adds that a
  reservation names the command of its token (`FenceKeyed`) and that what a caller holds inside is the
  aggregate's current snapshot (`HeldIsCurrent`): only the owner of the fence commits, so nobody
  changes the snapshot under it, hence the compare-and-set cannot lose.
* `HistoryIsAppendOnly` (`HistoryAppendOnly`) and, with it, `AnswersHold` (`AnswersAreReceipts`):
  receipts only grow, so an answer stays what the aggregate keeps.
* The second part of `CoreServiceProofs` proves the Core's other invariants from one inductive invariant,
  `LifecycleInv`: stages and actions have ranks (`Rank`, `Turn`), and `SnapshotsStaged` says that
  nothing of an aggregate is set ahead of its stage and that its release says what its stage says;
  `CommandsFit` that a caller past its checks still has a snapshot they hold of; `StoredFirst` that
  artifacts are in the sink before the commit that points at them. A command that passed preflight
  is then of the rank after its aggregate's (`InTurn`), and every draft a command body can make of
  such a snapshot is one the unit of work accepts (`DraftSound`, one lemma per command). Hence
  `CommitsAreApplied` (`CommitNeverRefused`), `EffectsAreNotRepeated` (`NoRepeatedEffect`: a receipt
  has at most the rank of the stage, new work has more), `AuditIsPath` (`AuditTrailIsPath`),
  `RuntimesNeverApprove` (`RuntimeNeverApproves`), `SinkHoldsApproved` (`PublicationsAreApproved`)
  and `RejectionStands` (`RejectionIsFinal`).
* `CoreServiceProofs!LedgerImplemented` (`ImplementsLedger`): under the mapping of `CoreService`, an
  applied commit is one `Execute` of `IdempotentLedger` and every other step leaves the ledger alone;
  `LastReceipt` ties the last record's stage to the aggregate's.
* `FoundryProofs!Exclusion` (`LocksExclude`): `LockInv` says at most one transaction is
  active, an active one keeps the catalog lock, and an approval keeps its docset's lock unless its own
  close has removed it. `ClearLocks` is what makes it more than a mutex: it may happen only when no
  process of the foundry is inside a transaction.
* `FoundryProofs!SupersedesNeverDangles` (`LineageIntact`) and `AckedRootsAreKept` (the first
  half of `AckedStaysInLineage`: no rollback retires the root of an approval that returned), with
  verification failures and locks removed by hand, from one inductive invariant, `LineageInv`. `OwnRoot`
  says of the root of a running approval that nothing descends from it and nobody was told of it, so
  retiring it breaks no lineage; `RootOf` that what it will supersede was a root of the docset when the
  coherence check saw it, and no other transaction can retire it before it is named. `PointerFits` says
  that every pointer on disk or captured names its docset by a manifest. `Withdrawn` says which published
  heads have been taken back; that a relinked head is not taken for the published one rests on
  `FreshIsNew`: a new file's inode differs from every one a transaction may compare.
* The rest of `FoundryProofs`, which builds on `LineageInv`, proves the other promises of the foundry.
  `Types` is the type invariant, with every fault. The rest has the hypothesis that verifications of
  identities do not fail (`IdentityFaults = FALSE`): with a failing stat the promises are false, as
  finding 3 shows, and so the theorem `UncertainHeadsStayLocked` says that this is the only way to
  break `UncertaintyStaysLocked`.
  * `NobodyFindsThemApart` (`QuiescentHeadsAgree`). `HeadsInv` says that heads at rest agree, and of a
    transaction at each step what its heads hold: before anything is moved, what was captured
    (`Baseline`); afterwards, a head that was published holds the new content, one that is being
    replaced is absent or moved aside, one still to come is as it was (`HeadsFit`, `PubFits`,
    `PhaseFits`); in a rollback the same, in the order of the restores. The shared catalog is the
    difficulty: a transaction on one docset replaces the entries of all, and what makes it harmless is
    that an entry it does not own is copied from the capture.
  * `ApprovalsAreNeverLost` (`AckedStaysInLineage`) and `NoRootIsOrphaned` (`NoOrphanRoots`), from
    `DescentInv`: pointers on disk and captured ones descend from every root except the running
    approval's own. `Reaches` is stated with sets closed under supersession, not by recursion, so that
    a new root, which nothing descends from, provably changes nothing of what older ones reach.
  * `ReadersSeeOneInstant` (`ReadsAreAtomic`). `ServedInv` ties what the heads said together at
    earlier instants to the phase of the transaction (`TurnFits`, `Amid`); `ReaderFits` says of
    a reader whose pointer was not what the heads said at any instant so far that it has the docset or
    the catalog yet to read, and that these refuse it already (`Refused`) or will make its pointer the
    truth before they could accept it (`Pending`): the order of the reads (pointer, docset, catalog,
    asset) against the order of the writes is what the proof is about.
* `HumanDecisionsProofs!PublishedAsBound` (`ApprovedAsBound`), for any number of request threads:
  `BoundInv` adds that a request past the comparison of snapshots has its draft's binding in its view
  (`DraftsBound`), which stays so because assets are only appended and a binding's diff compares
  assets that exist (`ViewsOfAssets`), and that the baseline was not read before the base
  (`BaselineNotOlder`): an approval whose base is still the current asset therefore also compared
  against it.
* `HumanDecisionsProofs!ReviewedWasAccepted` (`ReviewedMeansAccepted`) and `BundledIsTheApprovers`
  (`BundledDecisionIsApprovers`), from `ThreadInv`, under `OneThread`: the workbench serves one request
  at a time, while imports and approvals of others happen between any two of its steps. With two threads
  the second promise is false (finding 4), and the first loses its argument: another thread's save may be
  what completes the set an approval is bound to. `FreshFits` says that a request that has saved finds its
  own decision or none, since an import takes it away, and that while it is there the candidate is the one
  whose findings the request has loaded; `StageFits` that only such a request binds a digest. `Bases`
  says that an asset's base is older than the asset, so a later asset changes no earlier one's differences.
* `RunPublicationProofs!ReturnedStandsAlways` (`ReturnedStands`) and `NameHoldsWholeRunAlways`
  (`NameHoldsWholeRun`: once no command has the run's name left to confirm, it holds a whole run or
  nothing), for any number of commands, directories and outside moves. `PublicationInv`
  adds that a final name has one directory (`FinalsUnique`: no rename replaces), that a stage is filled
  before it is renamed (`StagesFilled`), that one command at a time has a name left to confirm and
  something stands there (`ClaimsUnique`, `ClaimsOccupied`), that under a clean name this is the
  command's own stage or an empty directory (`ClaimsHoldStage`), and that a run without its marker
  under the name is one some command has yet to confirm or take away (`PartialIsClaimed`).
* `RunPublicationProofs!StrictNeverLegacy` (`StrictNeverPassesAsLegacy`), from `ModesMatch`: whichever
  writes of `core/` fail, the descriptor of a tree names the mode it was assembled in.
* `FeedbackPromotionProofs!RecordedStaysAlways`, from `DecisionInv`: one process is inside the locks,
  and what it owns, hence may remove when it fails, is a decision nobody was told of.
* `FeedbackPromotionProofs!ServedWasCurrentAlways`, from `ReadingInv`: no base is ahead of the release
  that is current, so a reader that compares the base it read with one it reads later has read a
  current one.
* `FeedbackPromotionProofs!PromotionsAreWhole` (`PromotionIsAllOrNothing`) and `PromotedStays`
  (`PromotedStaysInLineage`), from `WholeInv`, with crashes and every late failure but the pointer's
  (finding 3). `Whole` says that the assets form one chain under the pointer, stated with sets closed
  under supersession (`Spine`), that nothing supersedes the pointer's asset, and that the amendments are
  the chain's. `Additions` says of a promotion at every step that what it owns is there, comes on top of
  a `Whole` lineage it found and can be removed again; `PromotionFits` what the pointer is meanwhile.
  That a promotion never takes over an asset that is there already, which its rollback could not remove,
  follows from the free tip: no asset names the pointer's as the one it replaces.
* `ImporterProofs` proves `Importer!TypeOK`, `FailureRestoresCandidate`, `OneBackupAtCommit` and
  `ForeignKeepsLocks` (`LockedInside`, `CandidateIsRestored`, `PredecessorIsTheBackup`,
  `ForeignKeepsTheLocks`) from one inductive invariant, `ImportInv`, with moves that fail late,
  names that overlap, crashes and locks removed by hand. `FoundStands` says, for every step of the
  import and of its rollback, whether the directory that was found under the candidate's name still
  stands there or is the backup the rollback knows of; `Reconcile` is what makes this true again after
  a move whose failure was reported late. `NoneFound` is its counterpart for a first import: a late
  save makes a directory, never a complete run. `Known` keeps the stage and the quarantined backups
  apart from the predecessor, so the rollback cannot retire or rename it; `ForeignLocked` says that
  a recovery name exists only under stale locks or while its import is about to leave them.
  What goes on beside a transaction (clean-ups after a commit, late saves) touches none of this
  (`Bystander`).
* `ImporterProofs!BackupsAreRestored` (`FailureRestoresBackups`), from `BackupsInv`, where a quarantine
  reported as failed has not happened (section 2, Importer). `QuarantineFits` says that the list of an
  import is where its backups are: each found backup still has its name, or is on the list once, under a
  quarantine name and with the name to give back, so that the list, taken back from its end until it is
  empty, restores them all. `Retiring` are the directories some committed import has yet to retire, which
  it does without the locks; `OwnApart` says that no directory an import found or made is one of them,
  and a list that took up such a one by its hidden name would give it back only that name.
* `ImporterProofs!CommittedIsNeverRetired` (`CommittedIsKept`), from `KeptInv`, with the further hypothesis
  that no run's hidden names begin with another's backup prefix; with such names it is false, as
  finding 6 shows. `LatestKept` says where the candidate committed last is (under its name, found by the
  running import, or, where one died, under its name or the backup's) until locks were removed a second
  time; `PredecessorKept` says the same of the backup. Every step of an import leaves the directories
  of other runs alone and retires nothing it found (`Spares`).

* `HumanDecisionsProofs` carries the theorems about feedback and import over to the composition
  `MCHumanDecisions`, whose properties the run checks: a behaviour of `MCSpec` is about one store
  (`StoreStays`) and is one of that store's specification (`FeedbackAlone`, `ImportAlone`,
  `CrashesAlone`). The assumptions of `MCHumanDecisions` give the theorems their hypotheses, but for one:
  that a pointer's move reported as failed has not happened stays a hypothesis of `PromotedWhole` and
  `PromotedForGood`.

* `PlanningProofs!RunsSupported` (`PassedMeansSupported`), from `PlanningInv`, which says of each stage of
  a run what the draft has from the extraction. While files are merged (`Merging`): every sound entry of
  the inventory still has an entry of its operation (`Present`); every entry with responses comes from a
  file written for its operation (`Founded`); and each file is still to be merged, or an entry of its
  operation has all that it states and, while no item is unverified, the file is attributed (`Merged`).
  Merging and collapsing only add (`Carries`, `Grown`). `Entries` ties the entries to the list of
  doubts: while no item is unverified no entry is, so a file that is not attributed either raises its
  entry to unverified and is reported, or meets an entry that was reported before. The collapse
  leaves one entry of each operation (`Apart`), so the document's paths are the entries' (`PlanOf`). Of
  the judgement the proof uses that a report that passes has no unverified item, no operation without
  responses, no path parameter that is not in the path, and no error but unscored ones (`Clean`).

* `PipelineProofs` is about the judgements. A behaviour of `MCSpec` keeps to one part, so the theorem
  about a part is its own invariant's and says of the others that they have nothing to judge.
  * `OverridesWarranted` (`OverridesAreWarranted`), from `FeedbackInv`: `SoundlyJudged` says that each
    contradiction of an assessment is what all attempts of its observation answered, that those of one
    target state one value, and that only what is documented is to be amended; `Warranted` says the
    same of every proposal, hence of every amendment; and what is effective is the composition, at its
    moment, of the amendments there are.
  * `CandidateGrounded` (`CandidateIsGrounded`), from `GroundingInv`: the supports are those that the
    plan and the evidence give and the claims those that the supports give, although each is computed
    in a step of its own, and `CutOut` says that no whole document is an exact fragment.
  * `DerivationFound` (`BridgeFindsDerivation`): whatever the Core accepts of the references cited for
    a claim, the bridge proposes too. The bridge tries the groupings of the references in order
    and stops at the first that yields anything, so the proof shows that this one has a single
    member and that it is the accepted one: one reference, a pair, or the three of a hop through
    an array, which can be told apart by their pointers (`HopHasTwoNames`, `HopsInOrder`). Two
    cases the proof made explicit: the fragments of a proposal are
    distinct (domain/evidence.py:226-229), and a scheme's name supports a claim about any
    scheme of that name (`SchemeOfAnother`, core/openapi_derivation.py:383-388).
  * `DerivationsHold` (`DerivedHolds`), from `AcceptedInv`: what the Core accepted of the cited
    references is in the document, for names and pointers of every length. A derivation compares the
    segments of a pointer with the steps of a field's name, `Holds` walks from the claim's schema by
    these steps and through `$ref`; `WalkReaches` says that the two agree, by induction on the
    number of steps. That a document holds what holds anything in it is the one thing assumed.
  * `PassingRunsSupported` (`PassedMeansSupported`) carries `RunsSupported` over to the composition. The
    proofs of planning are about an instance of their own, `PP`, and `SamePlanning` and `SamePassing`
    say that its steps and its property are those of the instance the run checks.
  * `AssuranceEarned` (`AssuranceIsEarned`), from `AssuranceInv`: `Finding` remembers on which contents
    a check passed although the directories change, `Awaiting` that the harness has a result of each
    check of each case or waits for it, until it is interrupted, and `Earned` that a report repeats what
    the checks found. That the sources of a case are the recorded ones is no part of it, except where
    a sanitized or a derived case compares digests.

Assumptions: the named assumptions of the modules on their constants (in `Pipeline`: that the `None`s
differ from the names, and what inputs look like, `AttemptsStated`, `PlansStated`, `DocumentsStated`,
`CitationsStated`, `ClaimsStated`, `StartsStated`, `ExtractionsStated` and `ManifestsStated`: lists are
sequences, and an endpoint or its file has the fields its model gives it), and, as hypotheses of the
theorems about publication, feedback and import, that the values `None` and the names of directories
and locks are different (`NoneApart`, `DistinctNone`, `LockNamesApart`), which TLC evaluates for the instances of the runs.

Only model-checked: `CallsReturn` and `TransactionsEnd`, because liveness and everything with ENABLED
is beyond the prover. Every other property of the passing runs is stated by a theorem.
The library's induction theorems take an operator as a parameter, which the provers cannot instantiate;
inductions over numbers (`SetInduction`) rest on its theorem that the naturals are well-founded, which
does not. The modules proved about declare nothing RECURSIVE.

## 6. Not modelled

* **Text and bytes.** Parsers and converters (HTML, DOCX, Markdown, tables, CSV), the source-fact
  scanner and the focus gate's package, redaction, rendering of Markdown and HTML, command lines and
  network fetches turn one input into one output and keep nothing. A document in `Grounding` is what its
  locators hold; a digest is the identity of what it was taken of. `privacy.py:224` (windows of a card
  number) is of this kind.
* **Governance scans and diff.** One pass over the network or over two runs, with a report.
* **Planning** leaves out tags, media types, the contents of examples, the wiring of request signatures
  (validate/integration.py:155) and the OpenAPI schema's own validator. A webhook's details are outside
  `PassedMeansSupported`, because finding 7 refutes it for them. The loop's verdict is an operator; its
  comparisons of scores (score/loop.py:56) are made with two scores and two rounds.
* **BenchmarkAssurance** leaves out checks that name no case, the scanners of egress and file access, the
  report's schema and rendering, what the smoke scenarios contain and `scripts/release.py`.
  Prerequisites are one step and the suite runs at one instant: no directory is edited inside a check.
* **Other programs' files.** Path, symlink and namespace checks of the foundry guard against them; only
  `RunPublication` has an outside program, because `atomic_publish.py` handles one.
* **FeedbackPromotion**: a lineage ends at 1000 assets (effective_binding.py:221); the model has the same
  limit, smaller, but nothing is claimed of a scope that has reached it.
* **The comparison report** of the bridge in shadow mode, which decides nothing.

Seen while reading, and not claimed by a run: `request.schema_ref` of an endpoint is never written as a
`$ref`; a reference with a pointer of two segments, cited beside two linked references to array items,
raises an IndexError in the bridge (shadow/bridge.py:1081), which makes the strict run an error
(`BridgeRaises`; shadow/runner.py:106); the binding of an attestation is taken before the harness starts, so a commit
between them is not noticed; a loop that has "converged" is described as having met
the quality bar (skills/loop-apidoc/reference/assemble-and-correction.md:196), also when its report has
errors.

## 7. What is left

1. An abstract `GovernedCurrent` (one current asset per docset, changed atomically) that
   `FoundryApproval` implements at quiescence; `ReviewWorkflow` already builds on it.
2. The fact scanner and the cells of tables against a reference definition.
