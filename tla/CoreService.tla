----------------------------- MODULE CoreService -----------------------------
(***************************************************************************)
(* EvidenceToContractService (core/service.py) over the unit of work it    *)
(* was written for (adapters/memory.py): any number of callers issue       *)
(* lifecycle commands against source-set aggregates.  A command reserves   *)
(* the aggregate (a fence with a token), preflights, calls one external    *)
(* port, commits a compare-and-set update and, on any exception, releases  *)
(* the fence.  Ports may raise, commits may fail at any boundary, the      *)
(* acknowledgement of an applied commit may be lost, and callers interleave*)
(* between all of these steps.                                             *)
(*                                                                         *)
(* A caller runs one command at a time and a token lives no longer than    *)
(* the command it was made for, so the caller stands for its uuid token.   *)
(***************************************************************************)
EXTENDS Lifecycle, Sequences, Functions

CONSTANTS
  Callers,      \* concurrent callers of the service
  SourceSets,   \* aggregate identities
  Versions,     \* versions a source set may be registered with
  ClaimKinds,   \* payloads of request_claim_proposals
  Metadata,     \* payloads of build_contract
  Compilers,    \* projection compilers validate may be given
  Runtimes,     \* identities the runtime port may answer with
  Approvers,    \* actor ids the approval port may answer with
  None

VARIABLES
  snapshot,     \* SourceSets -> the durable aggregate, None when unregistered
  events,       \* SourceSets -> the audit events committed for it, in order
  reservation,  \* SourceSets -> the active fence [key, token], or None
  publications, \* what the artifact sink holds
  invoked,      \* history: the <<source set, action>> pairs a port has run for
  pc,           \* Callers -> where the caller is in its command
  cmd,          \* Callers -> the command being run, None between calls
  held,         \* Callers -> the snapshot captured with the fence
  draft,        \* Callers -> the update about to be committed
  reply         \* Callers -> what the last call returned or raised

store  == <<snapshot, events, reservation>>
ports  == <<publications, invoked>>
vars   == <<snapshot, events, reservation, publications, invoked,
            pc, cmd, held, draft, reply>>

-----------------------------------------------------------------------------
(* Commands.  _operation_key hashes the payload into the idempotency key,  *)
(* so a key and the command it names are the same thing.                   *)

Actions == {"register", "acquire", "propose", "reconcile", "build",
            "validate", "approve", "publish"}

Payload(action) ==
  CASE action = "register" -> Versions
    [] action = "propose"  -> ClaimKinds
    [] action = "build"    -> Metadata
    [] action = "validate" -> SUBSET Compilers
    [] OTHER               -> {None}

Keys == UNION {[ss: SourceSets, action: {a}, payload: Payload(a)] : a \in Actions}

(* The stage a command preflights, the kind of its actor and the artifacts *)
(* it supplies.                                                            *)
Target(action) ==
  CASE action = "acquire"   -> "acquired"
    [] action = "propose"   -> "claims_proposed"
    [] action = "reconcile" -> "reconciled"
    [] action = "build"     -> "contract_built"
    [] action = "validate"  -> "validated"
    [] action = "approve"   -> "approved"
    [] action = "publish"   -> "published"
    [] OTHER                -> "registered"

ActorOf(action) ==
  CASE action = "propose"  -> "runtime"
    [] action = "validate" -> "policy"
    [] action = "approve"  -> "approver"
    [] action = "publish"  -> "publisher"
    [] OTHER               -> "system"

Supplies(action) ==
  CASE action = "acquire"   -> {"evidence_bundle"}
    [] action = "propose"   -> {"runtime_result"}
    [] action = "reconcile" -> {"grounded_claims"}
    [] action = "build"     -> {"contract"}
    [] action = "validate"  -> {"validation_decision"}
    [] OTHER                -> {}

-----------------------------------------------------------------------------
(* The aggregate (CoreSnapshot), its release and its receipts.             *)

Verdicts == {"accept", "review", "reject"}

NewSnapshot(key) ==
  [version     |-> key.payload,
   wf          |-> [state |-> "registered", artifacts |-> {"source_set"},
                    keys |-> {key}, runtimes |-> {}],
   evidence    |-> None,   runtimeResult |-> None,  claims   |-> None,
   contract    |-> None,   decision      |-> None,  projections |-> None,
   release     |-> None,   current       |-> None,  receipts |-> <<>>]

(* The result a committed command leaves behind for its retries.           *)
Receipt(key, snap) ==
  [key |-> key, stage |-> snap.wf.state, decision |-> snap.decision,
   release |-> snap.release]

ReceiptKeys(snap) == {r.key : r \in Range(snap.receipts)}

(* reserve: a committed key is replayed from its receipt.                  *)
\* Mutant: the committed keys are not consulted.
NeverProcessed(s, key) == FALSE

Processed(s, key) ==
  snapshot[s] # None /\ key \in snapshot[s].wf.keys

\* Mutant: a retry is answered from the latest snapshot.
ReplayedLatest(s, key) == Receipt(key, snapshot[s])

Replayed(s, key) ==
  CHOOSE r \in Range(snapshot[s].receipts) : r.key = key

(* make_candidate_release, approve_release, publish_release.               *)
MakeCandidate(h, verdict) ==
  [status |-> "candidate", contract |-> h.contract, verdict |-> verdict,
   runtimes |-> h.wf.runtimes, approvedBy |-> None, refs |-> None]

Approvals == [id: Approvers, kind: ActorKinds, approved: BOOLEAN]

\* Mutant: the approver's identity is not compared with the runtimes'.
MayApproveOwnOutput(release, approval) ==
  release.status = "candidate" /\ approval.approved /\ approval.kind # "runtime"

MayApprove(release, approval) ==
  /\ release.status = "candidate"
  /\ approval.approved
  /\ approval.kind # "runtime"
  /\ approval.id \notin release.runtimes

ApproveRelease(release, approval) ==
  [release EXCEPT !.status = "approved", !.approvedBy = approval.id]

(* projection_content_address: a publication is stored under its contents, *)
(* what the compilers made of the contract, whichever aggregate it is of.  *)
Address(h) == [contract |-> h.contract, compilers |-> h.projections]

(* InMemoryArtifactSink.publish raises for these two reasons only.         *)
SinkAccepts(h) == h.release.status = "approved" /\ h.projections # {}

PublishRelease(release, refs) ==
  [release EXCEPT !.status = "published", !.refs = refs]

-----------------------------------------------------------------------------
(* What a command's body may hand to the commit, given the snapshot it     *)
(* reserved: one draft per answer its port may give, none when it raises.  *)

Draft(snap, path) == [snap |-> snap, path |-> path]

Advance(h, key) == Transition(h.wf, Target(key.action), key, Supplies(key.action))

RegisterDrafts(key) == {Draft(NewSnapshot(key), <<"registered">>)}

(* The bundle must be the one of the registered source set and version.    *)
AcquireDrafts(key, h) ==
  {Draft([h EXCEPT !.evidence = v, !.wf = Advance(h, key)], <<"acquired">>) :
     v \in Versions \cap {h.version}}

ProposeDrafts(key, h) ==
  {Draft([h EXCEPT !.runtimeResult = r,
                   !.wf = [Advance(h, key) EXCEPT !.runtimes = {r}]],
         <<"claims_proposed">>) : r \in Runtimes}

ReconcileDrafts(key, h) ==
  {Draft([h EXCEPT !.claims = h.runtimeResult, !.wf = Advance(h, key)],
         <<"reconciled">>)}

BuildDrafts(key, h) ==
  {Draft([h EXCEPT !.contract = key.payload, !.wf = Advance(h, key)],
         <<"contract_built">>)}

(* A rejected contract stays at "validated" without a release; any other   *)
(* verdict is routed on under the same key, with the candidate release and *)
(* the projections of exactly the compilers the caller passed.             *)
\* Mutant: a rejected contract is routed to review with a candidate.
RejectDraftRouted(key, h) ==
  LET wf == Transition(h.wf, "validated", key,
              {"validation_decision", "candidate_release", "projections"})
  IN Draft([h EXCEPT !.decision = "reject", !.projections = key.payload,
                     !.release  = MakeCandidate(h, "reject"),
                     !.wf = Transition(wf, "review_required", key, {})],
           <<"validated", "review_required">>)

RejectDraft(key, h) ==
  Draft([h EXCEPT !.decision = "reject", !.wf = Advance(h, key)], <<"validated">>)

Route(verdict) == IF verdict = "review" THEN "review_required" ELSE "approval_ready"

CandidateDraft(key, h, verdict) ==
  LET validated == Transition(h.wf, "validated", key,
                     {"validation_decision", "candidate_release", "projections"})
  IN Draft([h EXCEPT !.decision    = verdict,
                     !.projections = key.payload,
                     !.release     = MakeCandidate(h, verdict),
                     !.wf = Transition(validated, Route(verdict), key, {})],
           <<"validated", Route(verdict)>>)

ValidateDrafts(key, h) ==
  {RejectDraft(key, h)} \cup {CandidateDraft(key, h, v) : v \in Verdicts \ {"reject"}}

ApproveDrafts(key, h) ==
  {Draft([h EXCEPT !.release = ApproveRelease(h.release, a), !.wf = Advance(h, key)],
         <<"approved">>) :
     a \in {a \in Approvals : MayApprove(h.release, a)}}

PublishDrafts(key, h) ==
  LET published == PublishRelease(h.release, Address(h))
  IN IF SinkAccepts(h)
     THEN {Draft([h EXCEPT !.release = published,
                           !.current = [contract |-> published.contract,
                                        status   |-> published.status],
                           !.wf      = Advance(h, key)], <<"published">>)}
     ELSE {}

(* The inputs a body insists on (_require) before it does anything.        *)
Inputs(key, h) ==
  CASE key.action = "propose"   -> h.evidence # None
    [] key.action = "reconcile" -> h.runtimeResult # None /\ h.evidence # None
    [] key.action = "build"     -> h.claims # None
    [] key.action = "validate"  -> h.contract # None /\ h.evidence # None
    [] key.action = "approve"   -> h.release # None
    [] key.action = "publish"   -> h.release # None /\ h.projections # None
    [] OTHER                    -> TRUE

Drafts(key, h) ==
  IF ~Inputs(key, h) THEN {}
  ELSE CASE key.action = "register"  -> RegisterDrafts(key)
         [] key.action = "acquire"   -> AcquireDrafts(key, h)
         [] key.action = "propose"   -> ProposeDrafts(key, h)
         [] key.action = "reconcile" -> ReconcileDrafts(key, h)
         [] key.action = "build"     -> BuildDrafts(key, h)
         [] key.action = "validate"  -> ValidateDrafts(key, h)
         [] key.action = "approve"   -> ApproveDrafts(key, h)
         [] key.action = "publish"   -> PublishDrafts(key, h)

-----------------------------------------------------------------------------
(* The unit of work's own checks on a change (_append_command_receipt and  *)
(* _validate_change).                                                      *)

\* Mutant: only the latest receipt is kept.
LatestReceiptOnly(key, snap) == [snap EXCEPT !.receipts = <<Receipt(key, snap)>>]

WithReceipt(key, snap) ==
  [snap EXCEPT !.receipts = Append(@, Receipt(key, snap))]

OnceSet == {"version", "evidence", "runtimeResult", "claims", "contract",
            "decision", "projections"}

ReleaseMoves ==
  {<<"candidate", "approved">>, <<"approved", "published">>,
   <<"published", "stale">>, <<"published", "superseded">>,
   <<"published", "revoked">>, <<"stale", "superseded">>, <<"stale", "revoked">>}

OnceSetKept(expected, updated) ==
  \A f \in OnceSet : expected[f] # None => updated[f] = expected[f]

ReleaseMoved(expected, updated) ==
  \/ expected.release \in {None, updated.release}
  \/ updated.release = None
  \/ <<expected.release.status, updated.release.status>> \in ReleaseMoves

CurrentCoherent(updated) ==
  LET published == updated.release # None /\ updated.release.status = "published"
  IN IF updated.current = None
     THEN ~published
     ELSE /\ published
          /\ updated.current = [contract |-> updated.release.contract,
                               status   |-> "published"]

ValidChange(s, key, expected, d) ==
  /\ d.snap.receipts = IF expected = None THEN <<>> ELSE expected.receipts
  /\ key \in d.snap.wf.keys
  /\ key \notin ReceiptKeys(d.snap)
  /\ ReceiptKeys(d.snap) \cup {key} = d.snap.wf.keys
  /\ \A stage \in Range(d.path) : [key |-> key, stage |-> stage] \notin Range(events[s])
  /\ CurrentCoherent(d.snap)
  /\ expected # None =>
       /\ OnceSetKept(expected, d.snap)
       /\ ReleaseMoved(expected, d.snap)
       /\ expected.current # None => d.snap.current = expected.current

(* The full fence, key and token, must match.                              *)
\* Mutant: whatever fence is there counts as one's own.
AnyFence(s, key, c) == reservation[s] # None

OwnsFence(s, key, c) == reservation[s] = [key |-> key, token |-> c]

(* The decision commit takes under its lock.                               *)
CommitOutcome(s, key, c) ==
  IF ~OwnsFence(s, key, c)
  THEN IF Processed(s, key) THEN "already_committed" ELSE "not_fenced"
  ELSE IF snapshot[s] # held[c]
  THEN IF Processed(s, key) THEN "already_committed" ELSE "conflict"
  ELSE IF ValidChange(s, key, held[c], draft[c]) THEN "applied" ELSE "invalid"

-----------------------------------------------------------------------------
(* The steps of a call.                                                    *)

Answer(key, receipt) == [kind |-> "answered", key |-> key, receipt |-> receipt]
Error(kind) == [kind |-> kind, key |-> None, receipt |-> None]

\* Mutant: the finished command is not cleared.
GoIdleKeepingCommand(c, r) ==
  /\ pc'    = [pc EXCEPT ![c] = "idle"]
  /\ reply' = [reply EXCEPT ![c] = r]
  /\ held'  = [held EXCEPT ![c] = None]
  /\ draft' = [draft EXCEPT ![c] = None]
  /\ UNCHANGED cmd

GoIdle(c, r) ==
  /\ pc'    = [pc EXCEPT ![c] = "idle"]
  /\ reply' = [reply EXCEPT ![c] = r]
  /\ cmd'   = [cmd EXCEPT ![c] = None]
  /\ held'  = [held EXCEPT ![c] = None]
  /\ draft' = [draft EXCEPT ![c] = None]

Goto(c, label) ==
  /\ pc' = [pc EXCEPT ![c] = label]
  /\ UNCHANGED <<cmd, held, reply>>

\* Mutant: a live command does not keep another one out.
NeverFenced(s) == FALSE

Fenced(s) == reservation[s] # None

(* reserve finds the key committed: the stored receipt is the answer.      *)
Replay(c, key) ==
  /\ pc[c] = "idle"
  /\ Processed(key.ss, key)
  /\ GoIdle(c, Answer(key, Replayed(key.ss, key)))
  /\ UNCHANGED <<store, ports>>

(* reserve finds the aggregate fenced: CommandInProgressError.             *)
Refuse(c, key) ==
  /\ pc[c] = "idle"
  /\ ~Processed(key.ss, key)
  /\ Fenced(key.ss)
  /\ GoIdle(c, Error("in_progress"))
  /\ UNCHANGED <<store, ports>>

(* A command other than register gives up at once when the aggregate is    *)
(* not registered.                                                         *)
Entered(key) ==
  IF key.action # "register" /\ snapshot[key.ss] = None THEN "failing" ELSE "reserved"

(* reserve fences the aggregate and captures its snapshot.                 *)
Reserve(c, key) ==
  /\ pc[c] = "idle"
  /\ ~Processed(key.ss, key)
  /\ ~Fenced(key.ss)
  /\ reservation' = [reservation EXCEPT ![key.ss] = [key |-> key, token |-> c]]
  /\ cmd'  = [cmd EXCEPT ![c] = key]
  /\ held' = [held EXCEPT ![c] = snapshot[key.ss]]
  /\ pc'   = [pc EXCEPT ![c] = Entered(key)]
  /\ reply' = [reply EXCEPT ![c] = None]
  /\ UNCHANGED <<snapshot, events, ports, draft>>

(* The checks a command makes before its port, on the captured snapshot.   *)
Admitted(key, h) ==
  IF key.action = "register"
  THEN h = None
  ELSE Preflight(h.wf, Target(key.action), ActorOf(key.action), key,
                 Supplies(key.action))

CheckCommand(c) ==
  /\ pc[c] = "reserved"
  /\ Goto(c, IF Admitted(cmd[c], held[c]) THEN "calling" ELSE "failing")
  /\ UNCHANGED <<store, ports, draft>>

(* The external port (source, runtime, approver, artifact sink) or, for    *)
(* the other commands, the pure computation.                               *)
PortActions == {"acquire", "propose", "approve", "publish"}

Invoke(key) ==
  invoked' = IF key.action \in PortActions
             THEN invoked \cup {<<key.ss, key.action>>} ELSE invoked

\* Mutant: the artifacts are not stored before the pointer is committed.
PublishesLater(key, h) == FALSE

Publishes(key, h) == key.action = "publish" /\ SinkAccepts(h)

PortAnswers(c) ==
  LET key == cmd[c]
      h   == held[c]
  IN /\ pc[c] = "calling"
     /\ \E d \in Drafts(key, h) : draft' = [draft EXCEPT ![c] = d]
     /\ publications' = IF Publishes(key, h)
                        THEN publications \cup {Address(h)} ELSE publications
     /\ Invoke(key)
     /\ Goto(c, "ready")
     /\ UNCHANGED store

(* The port raises, or its answer is refused (a denied approval, a release *)
(* without projections).  A sink may raise after it stored the content.    *)
PortRaises(c) ==
  LET key == cmd[c]
      h   == held[c]
  IN /\ pc[c] = "calling"
     /\ key.action # "register"
     /\ \/ UNCHANGED publications
        \/ /\ Publishes(key, h)
           /\ publications' = publications \cup {Address(h)}
     /\ Invoke(key)
     /\ Goto(c, "failing")
     /\ UNCHANGED <<store, draft>>

(* The commit applies payload, workflow, pointer, events and receipt and   *)
(* drops the fence; its acknowledgement reaches the caller or is lost, in  *)
(* which case the caller goes on to release.                               *)
Apply(c) ==
  LET key == cmd[c]
      s   == key.ss
      d   == draft[c]
  IN /\ snapshot'    = [snapshot EXCEPT ![s] = WithReceipt(key, d.snap)]
     /\ events'      = [events EXCEPT ![s] =
                          @ \o [i \in 1..Len(d.path) |-> [key |-> key, stage |-> d.path[i]]]]
     /\ reservation' = [reservation EXCEPT ![s] = None]

CommitAcked(c) ==
  LET key     == cmd[c]
      s       == key.ss
      applied == CommitOutcome(s, key, c) = "applied"
  IN /\ pc[c] = "ready"
     /\ CommitOutcome(s, key, c) \in {"applied", "already_committed"}
     /\ IF applied
        THEN Apply(c)
        ELSE /\ reservation' = [reservation EXCEPT ![s] =
                                 IF OwnsFence(s, key, c) THEN None ELSE @]
             /\ UNCHANGED <<snapshot, events>>
     /\ GoIdle(c, Answer(key, Receipt(key, IF applied THEN draft[c].snap
                                                      ELSE snapshot[s])))
     /\ UNCHANGED ports

CommitAckLost(c) ==
  /\ pc[c] = "ready"
  /\ CommitOutcome(cmd[c].ss, cmd[c], c) = "applied"
  /\ Apply(c)
  /\ Goto(c, "failing")
  /\ UNCHANGED <<ports, draft>>

(* A storage failure at any boundary before the change becomes visible, or *)
(* a refusal of the unit of work.                                          *)
\* Mutant: the failure strikes between the payload and the events.
CommitFailsTorn(c) ==
  /\ pc[c] = "ready"
  /\ snapshot' = [snapshot EXCEPT ![cmd[c].ss] = WithReceipt(cmd[c], draft[c].snap)]
  /\ Goto(c, "failing")
  /\ UNCHANGED <<events, reservation, ports, draft>>

\* Mutant: the failure is swallowed and the caller told that it succeeded.
CommitFailsSwallowed(c) ==
  /\ pc[c] = "ready"
  /\ reservation' = [reservation EXCEPT ![cmd[c].ss] = None]
  /\ GoIdle(c, Answer(cmd[c], Receipt(cmd[c], draft[c].snap)))
  /\ UNCHANGED <<snapshot, events, ports>>

CommitFails(c) ==
  /\ pc[c] = "ready"
  /\ CommitOutcome(cmd[c].ss, cmd[c], c) # "already_committed"
  /\ Goto(c, "failing")
  /\ UNCHANGED <<store, ports, draft>>

(* Every exception ends here: the fence is dropped if it is still this one.*)
\* Mutant: a caller whose fence is gone waits for it.
ReleaseOnlyOwned(c) ==
  /\ pc[c] = "failing"
  /\ OwnsFence(cmd[c].ss, cmd[c], c)
  /\ reservation' = [reservation EXCEPT ![cmd[c].ss] = None]
  /\ GoIdle(c, Error("raised"))
  /\ UNCHANGED <<snapshot, events, ports>>

Release(c) ==
  /\ pc[c] = "failing"
  /\ reservation' = [reservation EXCEPT ![cmd[c].ss] =
                        IF OwnsFence(cmd[c].ss, cmd[c], c) THEN None ELSE @]
  /\ GoIdle(c, Error("raised"))
  /\ UNCHANGED <<snapshot, events, ports>>

-----------------------------------------------------------------------------
Init ==
  /\ snapshot     = [s \in SourceSets |-> None]
  /\ events       = [s \in SourceSets |-> <<>>]
  /\ reservation  = [s \in SourceSets |-> None]
  /\ publications = {}
  /\ invoked      = {}
  /\ pc    = [c \in Callers |-> "idle"]
  /\ cmd   = [c \in Callers |-> None]
  /\ held  = [c \in Callers |-> None]
  /\ draft = [c \in Callers |-> None]
  /\ reply = [c \in Callers |-> None]

Call(c) == \E key \in Keys : Replay(c, key) \/ Refuse(c, key) \/ Reserve(c, key)

(* What a caller inside a command does next.                               *)
Continue(c) ==
  \/ CheckCommand(c)
  \/ PortAnswers(c)
  \/ PortRaises(c)
  \/ CommitAcked(c)
  \/ CommitAckLost(c)
  \/ CommitFails(c)
  \/ Release(c)

Next == \E c \in Callers : Call(c) \/ Continue(c)

Spec == Init /\ [][Next]_vars

(* A caller inside a command keeps executing: ports return or raise.       *)
FairSpec == Spec /\ \A c \in Callers : WF_vars(Continue(c))

-----------------------------------------------------------------------------
(* Types.                                                                  *)

Options(S) == S \cup {None}

Workflows == [state: Stages, artifacts: SUBSET Artifacts, keys: SUBSET Keys,
              runtimes: SUBSET Runtimes]

Addresses == [contract: Options(Metadata), compilers: Options(SUBSET Compilers)]

Releases == [status: {"candidate", "approved", "published"}, contract: Metadata,
             verdict: Verdicts, runtimes: SUBSET Runtimes,
             approvedBy: Options(Approvers), refs: Options(Addresses)]

Receipts == [key: Keys, stage: Stages, decision: Options(Verdicts),
             release: Options(Releases)]

Pointers == [contract: Metadata, status: {"published"}]

Snapshots == [version: Versions, wf: Workflows, evidence: Options(Versions),
              runtimeResult: Options(Runtimes), claims: Options(Runtimes),
              contract: Options(Metadata), decision: Options(Verdicts),
              projections: Options(SUBSET Compilers), release: Options(Releases),
              current: Options(Pointers), receipts: Seq(Receipts)]

Labels == {"idle", "reserved", "calling", "ready", "failing"}

Replies == [kind: {"answered"}, key: Keys, receipt: Receipts]
             \cup {Error("in_progress"), Error("raised")}

(* None is not a value of any other kind.                                  *)
ASSUME NoneAssumption ==
  /\ None \notin Approvers \cup Runtimes \cup Metadata \cup Verdicts
  /\ None \notin Keys
  /\ None \notin Releases \cup Pointers
  /\ None \notin Snapshots
  /\ None \notin [key: Keys, token: Callers]

(* Every variable has its type, and a caller holds a command exactly while *)
(* it is inside a call.                                                    *)
TypeOK ==
  /\ snapshot \in [SourceSets -> Options(Snapshots)]
  /\ events \in [SourceSets -> Seq([key: Keys, stage: Stages])]
  /\ reservation \in [SourceSets -> Options([key: Keys, token: Callers])]
  /\ publications \subseteq Addresses
  /\ invoked \subseteq SourceSets \X PortActions
  /\ pc \in [Callers -> Labels]
  /\ cmd \in [Callers -> Options(Keys)]
  /\ held \in [Callers -> Options(Snapshots)]
  /\ draft \in [Callers -> Options([snap: Snapshots, path: Seq(Stages)])]
  /\ reply \in [Callers -> Options(Replies)]
  /\ \A c \in Callers : cmd[c] = None <=> pc[c] = "idle"

-----------------------------------------------------------------------------
(* Properties.                                                             *)

Inside == {"reserved", "calling", "ready"}

(* From its reservation to its commit a command owns the aggregate's fence *)
(* alone, and no fence outlives the call that made it: whatever fails, the *)
(* aggregate is handed back (service.py releases on every exception).      *)
FenceExclusive ==
  /\ \A c \in Callers : pc[c] \in Inside => OwnsFence(cmd[c].ss, cmd[c], c)
  /\ \A s \in SourceSets : reservation[s] # None =>
       /\ pc[reservation[s].token] # "idle"
       /\ cmd[reservation[s].token] = reservation[s].key

(* Under the fence the compare-and-set never loses a race and the unit of  *)
(* work never finds the update incoherent: a commit that reaches storage   *)
(* is applied, whatever other callers did since the snapshot was captured. *)
CommitNeverRefused ==
  \A c \in Callers :
    pc[c] = "ready" => CommitOutcome(cmd[c].ss, cmd[c], c) = "applied"

(* A port is never asked for work the aggregate already holds, not by a    *)
(* retry after a lost acknowledgement and not by another payload.          *)
NoRepeatedEffect ==
  \A c \in Callers :
    pc[c] = "calling" /\ snapshot[cmd[c].ss] # None =>
      \A r \in Range(snapshot[cmd[c].ss].receipts) : r.key.action # cmd[c].action

(* The audit events of an aggregate are one path through the lifecycle     *)
(* graph that starts at its registration and ends at its stage, and they   *)
(* name exactly the commands it committed.                                 *)
AuditTrailIsPath ==
  \A s \in SourceSets :
    LET log == events[s]
    IN IF snapshot[s] = None
       THEN log = <<>>
       ELSE /\ Len(log) > 0 /\ log[1].stage = "registered"
            /\ \A i \in 1..(Len(log) - 1) : log[i + 1].stage \in Allowed(log[i].stage)
            /\ log[Len(log)].stage = snapshot[s].wf.state
            /\ {e.key : e \in Range(log)} = snapshot[s].wf.keys

(* Whatever a caller was answered is the receipt the aggregate keeps for   *)
(* its key, even when the aggregate has moved on since.                    *)
AnswersAreReceipts ==
  \A c \in Callers :
    reply[c] # None /\ reply[c].kind = "answered" =>
      /\ snapshot[reply[c].key.ss] # None
      /\ reply[c].receipt \in Range(snapshot[reply[c].key.ss].receipts)
      /\ reply[c].receipt.key = reply[c].key

(* A release leaves the candidate state only on the word of someone who    *)
(* did not produce its evidence.                                           *)
RuntimeNeverApproves ==
  \A s \in SourceSets :
    snapshot[s] # None /\ snapshot[s].release # None
      /\ snapshot[s].release.status \in {"approved", "published"} =>
        snapshot[s].release.approvedBy \notin
          {None, snapshot[s].runtimeResult} \cup snapshot[s].wf.runtimes

(* What the artifact sink holds is the contract and the projections of an  *)
(* approved release, also when the publication was orphaned by a failed    *)
(* commit; a published release finds its artifacts in the sink.            *)
PublicationsAreApproved ==
  /\ \A p \in publications : \E s \in SourceSets :
       /\ snapshot[s] # None /\ snapshot[s].release # None
       /\ snapshot[s].release.status \in {"approved", "published"}
       /\ p = Address(snapshot[s])
  /\ \A s \in SourceSets : snapshot[s] # None /\ snapshot[s].current # None =>
       snapshot[s].release.refs \in publications

(* A rejected contract is final: no later command changes the aggregate.   *)
RejectionIsFinal ==
  [][\A s \in SourceSets : snapshot[s] # None /\ snapshot[s].decision = "reject"
       => snapshot'[s] = snapshot[s]]_vars

(* Receipts, events and recorded payloads are never rewritten.             *)
HistoryAppendOnly ==
  [][\A s \in SourceSets : snapshot[s] # None =>
       /\ snapshot'[s] # None
       /\ OnceSetKept(snapshot[s], snapshot'[s])
       /\ SubSeq(snapshot'[s].receipts, 1, Len(snapshot[s].receipts)) = snapshot[s].receipts
       /\ SubSeq(events'[s], 1, Len(events[s])) = events[s]]_vars

(* Every call returns or raises.                                           *)
CallsReturn == \A c \in Callers : pc[c] # "idle" ~> pc[c] = "idle"

(* docs/ARCHITECTURE.md: "an unknown source/runtime/approval outcome       *)
(* remains fenced rather than being reissued automatically", so that none  *)
(* of these ports is asked a second time for an aggregate.                 *)
UnknownOutcomeNotReissued ==
  [][\A c \in Callers :
       pc[c] = "calling" /\ pc'[c] # "calling" /\ cmd[c].action \in {"acquire", "propose", "approve"}
         => <<cmd[c].ss, cmd[c].action>> \notin invoked]_vars

-----------------------------------------------------------------------------
(* The service implements the idempotent ledger.                           *)

Steps(stage) ==
  CASE stage = "unregistered"   -> {"registered"}
    [] stage = "contract_built" -> {"validated", "review_required", "approval_ready"}
    [] stage = "validated"      -> {}
    [] stage \in {"review_required", "approval_ready"} -> {"approved"}
    [] stage = "approved"       -> {"published"}
    [] stage = "published"      -> {}
    [] OTHER                    -> Allowed(stage)

KeysOf(s) == {key \in Keys : key.ss = s}

Record(receipt) == [key |-> receipt.key, stage |-> receipt.stage]

LedgerOf(s) ==
  IF snapshot[s] = None THEN <<>>
  ELSE [i \in DOMAIN snapshot[s].receipts |-> Record(snapshot[s].receipts[i])]

AnswerOf(c) ==
  IF reply[c] # None /\ reply[c].kind = "answered" THEN Record(reply[c].receipt) ELSE None

Ledger == INSTANCE IdempotentLedger WITH
  Clients    <- Callers,
  Aggregates <- SourceSets,
  Commands   <- KeysOf,
  Successors <- Steps,
  NoAnswer   <- None,
  ledger     <- [s \in SourceSets |-> LedgerOf(s)],
  answer     <- [c \in Callers |-> AnswerOf(c)]

ImplementsLedger == Ledger!Spec
=============================================================================
