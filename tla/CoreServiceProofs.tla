-------------------------- MODULE CoreServiceProofs --------------------------
(***************************************************************************)
(* Proofs about CoreService for every set of callers, aggregates and       *)
(* payloads: types, the fence and the history first; then what the service *)
(* keeps right about the lifecycle itself: the unit of work refuses no     *)
(* commit, no port works twice, the audit events are a path, releases are  *)
(* approved by somebody else, the sink holds approved releases only, and   *)
(* the service implements the idempotent ledger.                           *)
(***************************************************************************)
EXTENDS CoreService, TLAPS, SequenceTheorems

-----------------------------------------------------------------------------
(* Typing of the data a command computes.                                  *)

DraftType == [snap: Snapshots, path: Seq(Stages)]

LEMMA KeyTypes ==
  ASSUME NEW key \in Keys
  PROVE  /\ key.ss \in SourceSets
         /\ key.action \in Actions
         /\ key.payload \in Payload(key.action)
BY DEF Keys

LEMMA TargetTypes ==
  ASSUME NEW action \in Actions
  PROVE  Target(action) \in Stages /\ Supplies(action) \subseteq Artifacts
BY DEF Actions, Target, Supplies, Stages, Artifacts

LEMMA TransitionType ==
  ASSUME NEW wf \in Workflows, NEW stage \in Stages, NEW key \in Keys,
         NEW supplied \in SUBSET Artifacts
  PROVE  Transition(wf, stage, key, supplied) \in Workflows
BY DEF Transition, Workflows

LEMMA AdvanceType ==
  ASSUME NEW key \in Keys, NEW h \in Snapshots
  PROVE  Advance(h, key) \in Workflows
<1>1. h.wf \in Workflows
  BY DEF Snapshots
<1> QED
  BY <1>1, KeyTypes, TargetTypes, TransitionType DEF Advance

LEMMA ReceiptType ==
  ASSUME NEW key \in Keys, NEW snap \in Snapshots
  PROVE  /\ Receipt(key, snap) \in Receipts
         /\ WithReceipt(key, snap) \in Snapshots
<1>1. Receipt(key, snap) \in Receipts
  BY DEF Receipt, Receipts, Snapshots, Workflows
<1>2. Append(snap.receipts, Receipt(key, snap)) \in Seq(Receipts)
  BY <1>1 DEF Snapshots
<1> QED
  BY <1>1, <1>2 DEF WithReceipt, Snapshots

LEMMA RegisterDraftType ==
  ASSUME NEW key \in Keys, key.action = "register"
  PROVE  RegisterDrafts(key) \subseteq DraftType
<1>1. key.payload \in Versions
  BY KeyTypes DEF Payload
<1>2. [state |-> "registered", artifacts |-> {"source_set"},
       keys |-> {key}, runtimes |-> {}] \in Workflows
  BY DEF Workflows, Stages, Artifacts
<1>3. NewSnapshot(key) \in Snapshots
  BY <1>1, <1>2 DEF NewSnapshot, Snapshots, Options
<1>4. <<"registered">> \in Seq(Stages)
  BY DEF Stages
<1> QED
  BY <1>3, <1>4 DEF RegisterDrafts, Draft, DraftType

LEMMA AcquireDraftType ==
  ASSUME NEW key \in Keys, NEW h \in Snapshots
  PROVE  AcquireDrafts(key, h) \subseteq DraftType
<1>1. Advance(h, key) \in Workflows
  BY AdvanceType
<1>2. ASSUME NEW v \in Versions
      PROVE  [h EXCEPT !.evidence = v, !.wf = Advance(h, key)] \in Snapshots
  BY <1>1 DEF Snapshots, Options
<1>3. <<"acquired">> \in Seq(Stages)
  BY DEF Stages
<1>4. ASSUME NEW d \in AcquireDrafts(key, h)
      PROVE  d \in DraftType
  <2>1. PICK v \in Versions :
          d = [snap |-> [h EXCEPT !.evidence = v, !.wf = Advance(h, key)],
               path |-> <<"acquired">>]
    BY DEF AcquireDrafts, Draft
  <2> QED
    BY <1>2, <1>3, <2>1 DEF DraftType
<1> QED
  BY <1>4

LEMMA ProposeDraftType ==
  ASSUME NEW key \in Keys, NEW h \in Snapshots
  PROVE  ProposeDrafts(key, h) \subseteq DraftType
<1>1. ASSUME NEW r \in Runtimes
      PROVE  [h EXCEPT !.runtimeResult = r,
                       !.wf = [Advance(h, key) EXCEPT !.runtimes = {r}]] \in Snapshots
  <2>1. [Advance(h, key) EXCEPT !.runtimes = {r}] \in Workflows
    BY AdvanceType DEF Workflows
  <2> QED
    BY <2>1 DEF Snapshots, Options
<1>2. <<"claims_proposed">> \in Seq(Stages)
  BY DEF Stages
<1>3. ASSUME NEW d \in ProposeDrafts(key, h)
      PROVE  d \in DraftType
  <2>1. PICK r \in Runtimes :
          d = [snap |-> [h EXCEPT !.runtimeResult = r,
                           !.wf = [Advance(h, key) EXCEPT !.runtimes = {r}]],
               path |-> <<"claims_proposed">>]
    BY DEF ProposeDrafts, Draft
  <2> QED
    BY <1>1, <1>2, <2>1 DEF DraftType
<1> QED
  BY <1>3

LEMMA ReconcileDraftType ==
  ASSUME NEW key \in Keys, NEW h \in Snapshots
  PROVE  ReconcileDrafts(key, h) \subseteq DraftType
<1>1. [h EXCEPT !.claims = h.runtimeResult, !.wf = Advance(h, key)] \in Snapshots
  BY AdvanceType DEF Snapshots
<1>2. <<"reconciled">> \in Seq(Stages)
  BY DEF Stages
<1> QED
  BY <1>1, <1>2 DEF ReconcileDrafts, Draft, DraftType

LEMMA BuildDraftType ==
  ASSUME NEW key \in Keys, NEW h \in Snapshots, key.action = "build"
  PROVE  BuildDrafts(key, h) \subseteq DraftType
<1>1. key.payload \in Metadata
  BY KeyTypes DEF Payload
<1>2. [h EXCEPT !.contract = key.payload, !.wf = Advance(h, key)] \in Snapshots
  BY <1>1, AdvanceType DEF Snapshots, Options
<1>3. <<"contract_built">> \in Seq(Stages)
  BY DEF Stages
<1> QED
  BY <1>2, <1>3 DEF BuildDrafts, Draft, DraftType

LEMMA CandidateType ==
  ASSUME NEW h \in Snapshots, h.contract # None, NEW verdict \in Verdicts
  PROVE  MakeCandidate(h, verdict) \in Releases
BY DEF MakeCandidate, Releases, Snapshots, Options, Workflows

LEMMA ValidateDraftType ==
  ASSUME NEW key \in Keys, NEW h \in Snapshots, key.action = "validate",
         h.contract # None
  PROVE  ValidateDrafts(key, h) \subseteq DraftType
<1>1. key.payload \in SUBSET Compilers
  BY KeyTypes DEF Payload
<1>2. RejectDraft(key, h) \in DraftType
  <2>1. [h EXCEPT !.decision = "reject", !.wf = Advance(h, key)] \in Snapshots
    BY AdvanceType DEF Snapshots, Options, Verdicts
  <2>2. <<"validated">> \in Seq(Stages)
    BY DEF Stages
  <2> QED
    BY <2>1, <2>2 DEF RejectDraft, Draft, DraftType
<1>3. ASSUME NEW v \in Verdicts
      PROVE  CandidateDraft(key, h, v) \in DraftType
  <2> DEFINE art  == {"validation_decision", "candidate_release", "projections"}
             wf1  == Transition(h.wf, "validated", key, art)
             wf2  == Transition(wf1, Route(v), key, {})
             snap == [h EXCEPT !.decision = v, !.projections = key.payload,
                               !.release = MakeCandidate(h, v), !.wf = wf2]
  <2>1. "validated" \in Stages /\ Route(v) \in Stages
    BY DEF Stages, Route
  <2>2. art \in SUBSET Artifacts /\ {} \in SUBSET Artifacts /\ h.wf \in Workflows
    BY DEF Artifacts, Snapshots
  <2>3. wf1 \in Workflows
    BY <2>1, <2>2, TransitionType
  <2> HIDE DEF wf1
  <2>4. wf2 \in Workflows
    BY <2>1, <2>2, <2>3, TransitionType
  <2> HIDE DEF wf2
  <2>5. snap \in Snapshots
    BY <1>1, <2>4, CandidateType DEF Snapshots, Options
  <2>6. <<"validated", Route(v)>> \in Seq(Stages)
    BY <2>1
  <2>7. CandidateDraft(key, h, v) = [snap |-> snap, path |-> <<"validated", Route(v)>>]
    BY DEF CandidateDraft, Draft, wf1, wf2
  <2> QED
    BY <2>5, <2>6, <2>7 DEF DraftType
<1> QED
  BY <1>2, <1>3 DEF ValidateDrafts

LEMMA ApproveDraftType ==
  ASSUME NEW key \in Keys, NEW h \in Snapshots, h.release # None
  PROVE  ApproveDrafts(key, h) \subseteq DraftType
<1>1. ASSUME NEW d \in ApproveDrafts(key, h)
      PROVE  d \in DraftType
  <2>1. PICK a \in Approvals :
          d = [snap |-> [h EXCEPT !.release = ApproveRelease(h.release, a),
                                  !.wf = Advance(h, key)],
               path |-> <<"approved">>]
    BY DEF ApproveDrafts, Draft
  <2>2. h.release \in Releases
    BY DEF Snapshots, Options
  <2>3. ApproveRelease(h.release, a) \in Releases
    BY <2>2 DEF ApproveRelease, Releases, Approvals, Options
  <2>4. [h EXCEPT !.release = ApproveRelease(h.release, a), !.wf = Advance(h, key)]
          \in Snapshots
    BY <2>3, AdvanceType DEF Snapshots, Options
  <2>5. <<"approved">> \in Seq(Stages)
    BY DEF Stages
  <2> QED
    BY <2>1, <2>4, <2>5 DEF DraftType
<1> QED
  BY <1>1

LEMMA AddressType ==
  ASSUME NEW h \in Snapshots
  PROVE  Address(h) \in Addresses
BY DEF Address, Addresses, Snapshots

LEMMA PublishDraftType ==
  ASSUME NEW key \in Keys, NEW h \in Snapshots, h.release # None
  PROVE  PublishDrafts(key, h) \subseteq DraftType
<1> DEFINE rel  == PublishRelease(h.release, Address(h))
           ptr  == [contract |-> rel.contract, status |-> rel.status]
           snap == [h EXCEPT !.release = rel, !.current = ptr, !.wf = Advance(h, key)]
<1>1. h.release \in Releases
  BY DEF Snapshots, Options
<1>2. rel \in Releases /\ ptr \in Pointers
  BY <1>1, AddressType DEF PublishRelease, Releases, Pointers, Options
<1> HIDE DEF rel, ptr
<1>3. snap \in Snapshots
  BY <1>2, AdvanceType DEF Snapshots, Options
<1>4. <<"published">> \in Seq(Stages)
  BY DEF Stages
<1>5. PublishDrafts(key, h) \subseteq {[snap |-> snap, path |-> <<"published">>]}
  BY DEF PublishDrafts, Draft, rel, ptr
<1> HIDE DEF snap
<1>6. [snap |-> snap, path |-> <<"published">>] \in DraftType
  BY <1>3, <1>4 DEF DraftType
<1> QED
  BY <1>5, <1>6

LEMMA DraftTypes ==
  ASSUME NEW key \in Keys, NEW h,
         h \in Snapshots \/ key.action = "register"
  PROVE  Drafts(key, h) \subseteq DraftType
<1>1. CASE key.action = "register"
  BY <1>1, RegisterDraftType DEF Drafts, Inputs
<1>2. CASE key.action # "register"
  <2> h \in Snapshots
    BY <1>2
  <2>1. AcquireDrafts(key, h) \subseteq DraftType
    BY AcquireDraftType
  <2>2. ProposeDrafts(key, h) \subseteq DraftType
    BY ProposeDraftType
  <2>3. ReconcileDrafts(key, h) \subseteq DraftType
    BY ReconcileDraftType
  <2>4. key.action = "build" => BuildDrafts(key, h) \subseteq DraftType
    BY BuildDraftType
  <2>5. key.action = "validate" /\ Inputs(key, h) => ValidateDrafts(key, h) \subseteq DraftType
    BY ValidateDraftType DEF Inputs
  <2>6. key.action = "approve" /\ Inputs(key, h) => ApproveDrafts(key, h) \subseteq DraftType
    BY ApproveDraftType DEF Inputs
  <2>7. key.action = "publish" /\ Inputs(key, h) => PublishDrafts(key, h) \subseteq DraftType
    BY PublishDraftType DEF Inputs
  <2>8. key.action \in Actions
    BY KeyTypes
  <2>9. CASE ~Inputs(key, h)
    BY <2>9 DEF Drafts
  <2>10. CASE Inputs(key, h)
    <3>1. CASE key.action = "acquire"
      BY <2>10, <3>1, <2>1 DEF Drafts
    <3>2. CASE key.action = "propose"
      BY <2>10, <3>2, <2>2 DEF Drafts
    <3>3. CASE key.action = "reconcile"
      BY <2>10, <3>3, <2>3 DEF Drafts
    <3>4. CASE key.action = "build"
      BY <2>10, <3>4, <2>4 DEF Drafts
    <3>5. CASE key.action = "validate"
      BY <2>10, <3>5, <2>5 DEF Drafts
    <3>6. CASE key.action = "approve"
      BY <2>10, <3>6, <2>6 DEF Drafts
    <3>7. CASE key.action = "publish"
      BY <2>10, <3>7, <2>7 DEF Drafts
    <3> QED
      BY <1>2, <2>8, <3>1, <3>2, <3>3, <3>4, <3>5, <3>6, <3>7 DEF Actions
  <2> QED
    BY <2>9, <2>10
<1> QED
  BY <1>1, <1>2

-----------------------------------------------------------------------------
(* The type invariant.  Three facts make it inductive: a command that is   *)
(* past its reservation has a snapshot unless it registers, a command that *)
(* is ready to commit has a draft, and the receipts of an aggregate name   *)
(* exactly its committed keys, so that a replay finds the one it needs.    *)

HeldKnown ==
  \A c \in Callers :
    /\ pc[c] \in {"reserved", "calling"} => held[c] \in Snapshots \/ cmd[c].action = "register"
    /\ pc[c] = "ready" => draft[c] \in DraftType

ReceiptsMatchKeys ==
  \A s \in SourceSets : snapshot[s] # None => ReceiptKeys(snapshot[s]) = snapshot[s].wf.keys

TypeInv == TypeOK /\ HeldKnown /\ ReceiptsMatchKeys

StoreInv ==
  /\ snapshot \in [SourceSets -> Options(Snapshots)]
  /\ events \in [SourceSets -> Seq([key: Keys, stage: Stages])]
  /\ reservation \in [SourceSets -> Options([key: Keys, token: Callers])]
  /\ ReceiptsMatchKeys

PortsInv ==
  /\ publications \subseteq Addresses
  /\ invoked \subseteq SourceSets \X PortActions

CallerInv ==
  /\ pc \in [Callers -> Labels]
  /\ cmd \in [Callers -> Options(Keys)]
  /\ held \in [Callers -> Options(Snapshots)]
  /\ draft \in [Callers -> Options(DraftType)]
  /\ reply \in [Callers -> Options(Replies)]
  /\ \A c \in Callers : cmd[c] = None <=> pc[c] = "idle"
  /\ HeldKnown

LEMMA TypeInvParts == TypeInv <=> StoreInv /\ PortsInv /\ CallerInv
BY DEF TypeInv, TypeOK, StoreInv, PortsInv, CallerInv, DraftType

LEMMA InitTypeInv == Init => TypeInv
<1> SUFFICES ASSUME Init PROVE StoreInv /\ PortsInv /\ CallerInv
  BY TypeInvParts
<1>1. StoreInv
  BY DEF Init, StoreInv, ReceiptsMatchKeys, Options
<1>2. PortsInv
  BY DEF Init, PortsInv
<1>3. CallerInv
  BY DEF Init, CallerInv, HeldKnown, Options, Labels
<1> QED
  BY <1>1, <1>2, <1>3

(* A replay answers with a receipt of the aggregate for that very key.     *)
LEMMA ReplayedIsReceipt ==
  ASSUME TypeInv, NEW s \in SourceSets, NEW key \in Keys, Processed(s, key)
  PROVE  /\ Replayed(s, key) \in Range(snapshot[s].receipts)
         /\ Replayed(s, key) \in Receipts
         /\ Replayed(s, key).key = key
<1>1. snapshot[s] \in Snapshots /\ snapshot[s] # None
  BY DEF TypeInv, TypeOK, Options, Processed
<1>2. key \in ReceiptKeys(snapshot[s])
  BY <1>1 DEF TypeInv, ReceiptsMatchKeys, Processed
<1>3. \E r \in Range(snapshot[s].receipts) : r.key = key
  BY <1>2 DEF ReceiptKeys
<1>4. Replayed(s, key) \in Range(snapshot[s].receipts) /\ Replayed(s, key).key = key
  BY <1>3 DEF Replayed
<1>5. snapshot[s].receipts \in Seq(Receipts)
  BY <1>1 DEF Snapshots
<1> QED
  BY <1>4, <1>5 DEF Range

(* The committed snapshot names its new receipt's key and no other new one.*)
LEMMA RangeOfAppend ==
  ASSUME NEW S, NEW seq \in Seq(S), NEW e \in S
  PROVE  Range(Append(seq, e)) = Range(seq) \cup {e}
<1> DEFINE new == Append(seq, e)
<1>1. /\ new \in Seq(S) /\ Len(new) = Len(seq) + 1
      /\ \A i \in 1..Len(seq) : new[i] = seq[i]
      /\ new[Len(seq) + 1] = e
  BY AppendProperties
<1>2. /\ DOMAIN new = 1..Len(new) /\ DOMAIN seq = 1..Len(seq)
      /\ Len(seq) \in Nat
  BY <1>1
<1> HIDE DEF new
<1>3. \A x \in Range(new) : x \in Range(seq) \cup {e}
  BY <1>1, <1>2 DEF Range
<1>4. \A x \in Range(seq) : x \in Range(new)
  BY <1>1, <1>2 DEF Range
<1>5. e \in Range(new)
  BY <1>1, <1>2 DEF Range
<1> QED
  BY <1>3, <1>4, <1>5 DEF new

LEMMA WithReceiptKeys ==
  ASSUME NEW snap \in Snapshots, NEW key \in Keys
  PROVE  /\ ReceiptKeys(WithReceipt(key, snap)) = ReceiptKeys(snap) \cup {key}
         /\ WithReceipt(key, snap).wf = snap.wf
<1> DEFINE new == Append(snap.receipts, Receipt(key, snap))
<1>1. snap.receipts \in Seq(Receipts) /\ Receipt(key, snap) \in Receipts
  BY ReceiptType DEF Snapshots
<1>2. Range(new) = Range(snap.receipts) \cup {Receipt(key, snap)}
  BY <1>1, RangeOfAppend
<1>3. WithReceipt(key, snap).receipts = new /\ WithReceipt(key, snap).wf = snap.wf
  BY DEF WithReceipt, Snapshots
<1>4. Receipt(key, snap).key = key
  BY DEF Receipt
<1> QED
  BY <1>2, <1>3, <1>4 DEF ReceiptKeys

LEMMA GoIdleCaller ==
  ASSUME CallerInv, NEW c \in Callers, NEW r \in Options(Replies), GoIdle(c, r)
  PROVE  CallerInv'
BY DEF CallerInv, GoIdle, HeldKnown, Options, Labels

LEMMA ErrorTypes ==
  Error("in_progress") \in Options(Replies) /\ Error("raised") \in Options(Replies)
BY DEF Replies, Options

LEMMA AnswerType ==
  ASSUME NEW key \in Keys, NEW r \in Receipts
  PROVE  Answer(key, r) \in Options(Replies)
BY DEF Answer, Replies, Options

(* A caller inside a call runs a key.                                      *)
LEMMA CommandKnown ==
  ASSUME CallerInv, NEW c \in Callers, pc[c] # "idle"
  PROVE  cmd[c] \in Keys /\ cmd[c].ss \in SourceSets
<1>1. cmd[c] \in Keys
  BY DEF CallerInv, Options
<1> QED
  BY <1>1, KeyTypes

LEMMA ReplayType ==
  ASSUME TypeInv, NEW c \in Callers, NEW key \in Keys, Replay(c, key)
  PROVE  TypeInv'
<1>1. key.ss \in SourceSets
  BY KeyTypes
<1>2. Replayed(key.ss, key) \in Receipts
  BY <1>1, ReplayedIsReceipt DEF Replay
<1>3. CallerInv'
  BY <1>2, AnswerType, GoIdleCaller, TypeInvParts DEF Replay
<1>4. StoreInv' /\ PortsInv'
  BY TypeInvParts DEF Replay, store, ports, StoreInv, PortsInv, ReceiptsMatchKeys
<1> QED
  BY <1>3, <1>4, TypeInvParts DEF TypeInv, TypeOK, StoreInv, PortsInv, CallerInv, DraftType

LEMMA RefuseType ==
  ASSUME TypeInv, NEW c \in Callers, NEW key \in Keys, Refuse(c, key)
  PROVE  TypeInv'
<1>1. CallerInv'
  BY ErrorTypes, GoIdleCaller, TypeInvParts DEF Refuse
<1>2. StoreInv' /\ PortsInv'
  BY TypeInvParts DEF Refuse, store, ports, StoreInv, PortsInv, ReceiptsMatchKeys
<1> QED
  BY <1>1, <1>2 DEF TypeInv, TypeOK, StoreInv, PortsInv, CallerInv, DraftType

LEMMA ReserveType ==
  ASSUME TypeInv, NEW c \in Callers, NEW key \in Keys, Reserve(c, key)
  PROVE  TypeInv'
<1> USE TypeInvParts
<1>1. key.ss \in SourceSets
  BY KeyTypes
<1>2. snapshot[key.ss] \in Options(Snapshots)
  BY <1>1 DEF StoreInv
<1>3. Entered(key) \in Labels \ {"idle", "calling", "ready"}
  BY DEF Entered, Labels
<1>4. Entered(key) = "reserved" => snapshot[key.ss] \in Snapshots \/ key.action = "register"
  BY <1>2 DEF Entered, Options
<1>5. StoreInv'
  <2>1. [key |-> key, token |-> c] \in [key: Keys, token: Callers]
    OBVIOUS
  <2>2. reservation' \in [SourceSets -> Options([key: Keys, token: Callers])]
    BY <2>1, <1>1 DEF Reserve, StoreInv, Options
  <2> QED
    BY <2>2 DEF Reserve, StoreInv, ReceiptsMatchKeys
<1>6. PortsInv'
  BY DEF Reserve, ports, PortsInv
<1>7. CallerInv'
  <2>1. /\ pc' \in [Callers -> Labels]
        /\ cmd' \in [Callers -> Options(Keys)]
        /\ held' \in [Callers -> Options(Snapshots)]
        /\ draft' \in [Callers -> Options(DraftType)]
        /\ reply' \in [Callers -> Options(Replies)]
    BY <1>2, <1>3 DEF Reserve, CallerInv, Options
  <2>2. \A d \in Callers : cmd'[d] = None <=> pc'[d] = "idle"
    BY <1>3, NoneAssumption DEF Reserve, CallerInv
  <2>3. HeldKnown'
    BY <1>3, <1>4 DEF Reserve, CallerInv, HeldKnown
  <2> QED
    BY <2>1, <2>2, <2>3 DEF CallerInv
<1> QED
  BY <1>5, <1>6, <1>7 DEF TypeInv, TypeOK, StoreInv, PortsInv, CallerInv, DraftType

LEMMA CheckCommandType ==
  ASSUME TypeInv, NEW c \in Callers, CheckCommand(c)
  PROVE  TypeInv'
<1> USE TypeInvParts
<1>1. StoreInv' /\ PortsInv'
  BY DEF CheckCommand, store, ports, StoreInv, PortsInv, ReceiptsMatchKeys
<1>2. CallerInv'
  BY DEF CheckCommand, Goto, CallerInv, HeldKnown, Labels
<1> QED
  BY <1>1, <1>2 DEF TypeInv, TypeOK, StoreInv, PortsInv, CallerInv, DraftType

(* A port that ran leaves the record of what it did well typed.            *)
LEMMA InvokeType ==
  ASSUME PortsInv, NEW key \in Keys, Invoke(key)
  PROVE  invoked' \subseteq SourceSets \X PortActions
<1>1. key.ss \in SourceSets
  BY KeyTypes
<1> QED
  BY <1>1 DEF PortsInv, Invoke

LEMMA PortAnswersType ==
  ASSUME TypeInv, NEW c \in Callers, PortAnswers(c)
  PROVE  TypeInv'
<1> USE TypeInvParts
<1>1. pc[c] = "calling" /\ cmd[c] \in Keys
  BY CommandKnown DEF PortAnswers
<1>2. held[c] \in Snapshots \/ cmd[c].action = "register"
  BY <1>1 DEF CallerInv, HeldKnown
<1>3. PICK d \in Drafts(cmd[c], held[c]) : draft' = [draft EXCEPT ![c] = d]
  BY DEF PortAnswers
<1>4. d \in DraftType
  BY <1>1, <1>2, <1>3, DraftTypes
<1>5. StoreInv'
  BY DEF PortAnswers, store, StoreInv, ReceiptsMatchKeys
<1>6. PortsInv'
  <2>1. Publishes(cmd[c], held[c]) => Address(held[c]) \in Addresses
    BY <1>1, <1>2, AddressType DEF Publishes
  <2>2. publications' \subseteq Addresses
    BY <2>1 DEF PortAnswers, PortsInv
  <2> QED
    BY <1>1, <2>2, InvokeType DEF PortAnswers, PortsInv
<1>7. CallerInv'
  BY <1>1, <1>3, <1>4 DEF PortAnswers, Goto, CallerInv, HeldKnown, Labels, Options
<1> QED
  BY <1>5, <1>6, <1>7 DEF TypeInv, TypeOK, StoreInv, PortsInv, CallerInv, DraftType

LEMMA PortRaisesType ==
  ASSUME TypeInv, NEW c \in Callers, PortRaises(c)
  PROVE  TypeInv'
<1> USE TypeInvParts
<1>1. pc[c] = "calling" /\ cmd[c] \in Keys
  BY CommandKnown DEF PortRaises
<1>2. held[c] \in Snapshots
  BY <1>1 DEF CallerInv, HeldKnown, PortRaises
<1>3. StoreInv'
  BY DEF PortRaises, store, StoreInv, ReceiptsMatchKeys
<1>4. PortsInv'
  <2>1. Address(held[c]) \in Addresses
    BY <1>1, <1>2, AddressType
  <2>2. publications' \subseteq Addresses
    BY <2>1 DEF PortRaises, PortsInv
  <2> QED
    BY <1>1, <2>2, InvokeType DEF PortRaises, PortsInv
<1>5. CallerInv'
  BY <1>1 DEF PortRaises, Goto, CallerInv, HeldKnown, Labels
<1> QED
  BY <1>3, <1>4, <1>5 DEF TypeInv, TypeOK, StoreInv, PortsInv, CallerInv, DraftType

(* An applied commit: the unit of work checked that the draft's keys and   *)
(* receipts agree.                                                         *)
LEMMA ApplyStore ==
  ASSUME TypeInv, NEW c \in Callers, pc[c] = "ready",
         CommitOutcome(cmd[c].ss, cmd[c], c) = "applied", Apply(c)
  PROVE  StoreInv'
<1> USE TypeInvParts
<1> DEFINE key == cmd[c]
           s   == key.ss
           d   == draft[c]
           new == WithReceipt(key, d.snap)
           log == [i \in 1..Len(d.path) |-> [key |-> key, stage |-> d.path[i]]]
<1>1. key \in Keys /\ s \in SourceSets
  BY CommandKnown
<1>2. d \in DraftType
  BY DEF CallerInv, HeldKnown
<1>3. d.snap \in Snapshots /\ d.path \in Seq(Stages)
  BY <1>2 DEF DraftType
<1>4. new \in Snapshots
  BY <1>1, <1>3, ReceiptType
<1>5. ValidChange(s, key, held[c], d)
  BY DEF CommitOutcome
<1>6. ReceiptKeys(new) = new.wf.keys
  BY <1>1, <1>3, <1>5, WithReceiptKeys DEF ValidChange
<1>7. snapshot' \in [SourceSets -> Options(Snapshots)]
  BY <1>1, <1>4 DEF Apply, StoreInv, Options
<1>8. ReceiptsMatchKeys'
  BY <1>1, <1>6 DEF Apply, StoreInv, ReceiptsMatchKeys, ReceiptKeys
<1>9. events' \in [SourceSets -> Seq([key: Keys, stage: Stages])]
  <2>1. log \in Seq([key: Keys, stage: Stages])
    BY <1>1, <1>3
  <2>2. events[s] \in Seq([key: Keys, stage: Stages])
    BY <1>1 DEF StoreInv
  <2>3. events[s] \o log \in Seq([key: Keys, stage: Stages])
    BY <2>1, <2>2
  <2>4. events' = [events EXCEPT ![s] = events[s] \o log]
    BY DEF Apply
  <2> QED
    BY <1>1, <2>3, <2>4 DEF StoreInv
<1>10. reservation' \in [SourceSets -> Options([key: Keys, token: Callers])]
  BY <1>1 DEF Apply, StoreInv, Options
<1> QED
  BY <1>7, <1>8, <1>9, <1>10 DEF StoreInv

LEMMA CommitAckedType ==
  ASSUME TypeInv, NEW c \in Callers, CommitAcked(c)
  PROVE  TypeInv'
<1> USE TypeInvParts
<1> DEFINE key == cmd[c]
           s   == key.ss
<1>1. pc[c] = "ready" /\ key \in Keys /\ s \in SourceSets
  BY CommandKnown DEF CommitAcked
<1>2. PortsInv'
  BY DEF CommitAcked, ports, PortsInv
<1>3. CASE CommitOutcome(s, key, c) = "applied"
  <2>1. StoreInv'
    BY <1>1, <1>3, ApplyStore DEF CommitAcked
  <2>2. draft[c].snap \in Snapshots
    BY <1>1 DEF CallerInv, HeldKnown, DraftType
  <2>3. Receipt(key, draft[c].snap) \in Receipts
    BY <1>1, <2>2, ReceiptType
  <2>4. Answer(key, Receipt(key, draft[c].snap)) \in Options(Replies)
    BY <1>1, <2>3, AnswerType
  <2>5. GoIdle(c, Answer(key, Receipt(key, draft[c].snap)))
    BY <1>3 DEF CommitAcked
  <2>6. CallerInv'
    BY <2>4, <2>5, GoIdleCaller
  <2> QED
    BY <1>2, <2>1, <2>6 DEF TypeInv, TypeOK, StoreInv, PortsInv, CallerInv, DraftType
<1>4. CASE CommitOutcome(s, key, c) = "already_committed"
  <2>1. StoreInv'
    BY <1>1, <1>4 DEF CommitAcked, StoreInv, ReceiptsMatchKeys, Options
  <2>2. snapshot[s] \in Snapshots
    BY <1>1, <1>4 DEF CommitOutcome, Processed, StoreInv, Options
  <2>3. Receipt(key, snapshot[s]) \in Receipts
    BY <1>1, <2>2, ReceiptType
  <2>4. Answer(key, Receipt(key, snapshot[s])) \in Options(Replies)
    BY <1>1, <2>3, AnswerType
  <2>5. GoIdle(c, Answer(key, Receipt(key, snapshot[s])))
    BY <1>4 DEF CommitAcked
  <2>6. CallerInv'
    BY <2>4, <2>5, GoIdleCaller
  <2> QED
    BY <1>2, <2>1, <2>6 DEF TypeInv, TypeOK, StoreInv, PortsInv, CallerInv, DraftType
<1> QED
  BY <1>3, <1>4 DEF CommitAcked

LEMMA CommitAckLostType ==
  ASSUME TypeInv, NEW c \in Callers, CommitAckLost(c)
  PROVE  TypeInv'
<1> USE TypeInvParts
<1>1. StoreInv'
  BY ApplyStore DEF CommitAckLost
<1>2. PortsInv'
  BY DEF CommitAckLost, ports, PortsInv
<1>3. CallerInv'
  BY DEF CommitAckLost, Goto, CallerInv, HeldKnown, Labels
<1> QED
  BY <1>1, <1>2, <1>3 DEF TypeInv, TypeOK, StoreInv, PortsInv, CallerInv, DraftType

LEMMA CommitFailsType ==
  ASSUME TypeInv, NEW c \in Callers, CommitFails(c)
  PROVE  TypeInv'
<1> USE TypeInvParts
<1>1. StoreInv' /\ PortsInv'
  BY DEF CommitFails, store, ports, StoreInv, PortsInv, ReceiptsMatchKeys
<1>2. CallerInv'
  BY DEF CommitFails, Goto, CallerInv, HeldKnown, Labels
<1> QED
  BY <1>1, <1>2 DEF TypeInv, TypeOK, StoreInv, PortsInv, CallerInv, DraftType

LEMMA ReleaseType ==
  ASSUME TypeInv, NEW c \in Callers, Release(c)
  PROVE  TypeInv'
<1> USE TypeInvParts
<1>1. cmd[c].ss \in SourceSets
  BY CommandKnown DEF Release
<1>2. StoreInv'
  BY <1>1 DEF Release, StoreInv, ReceiptsMatchKeys, Options
<1>3. PortsInv'
  BY DEF Release, ports, PortsInv
<1>4. CallerInv'
  BY ErrorTypes, GoIdleCaller DEF Release
<1> QED
  BY <1>2, <1>3, <1>4 DEF TypeInv, TypeOK, StoreInv, PortsInv, CallerInv, DraftType

LEMMA NextTypeInv == TypeInv /\ [Next]_vars => TypeInv'
<1> SUFFICES ASSUME TypeInv, [Next]_vars PROVE TypeInv'
  OBVIOUS
<1>1. CASE UNCHANGED vars
  BY <1>1 DEF vars, TypeInv, TypeOK, HeldKnown, ReceiptsMatchKeys
<1>2. ASSUME NEW c \in Callers, Call(c)
      PROVE  TypeInv'
  BY <1>2, ReplayType, RefuseType, ReserveType DEF Call
<1>3. ASSUME NEW c \in Callers, Continue(c)
      PROVE  TypeInv'
  BY <1>3, CheckCommandType, PortAnswersType, PortRaisesType, CommitAckedType,
     CommitAckLostType, CommitFailsType, ReleaseType DEF Continue
<1> QED
  BY <1>1, <1>2, <1>3 DEF Next

(* Every variable keeps its type, and a replay always finds the receipt of *)
(* the key it was asked for.                                               *)
THEOREM TypeCorrect == Spec => []TypeInv
<1> QED
  BY InitTypeInv, NextTypeInv, PTL DEF Spec

THEOREM TypeSafety == Spec => []TypeOK
<1>1. TypeInv => TypeOK
  BY DEF TypeInv
<1> QED
  BY <1>1, TypeCorrect, PTL

-----------------------------------------------------------------------------
(* The fence.  FenceExclusive is not inductive alone: a fence must also    *)
(* stand at the aggregate its key names, and the snapshot captured with it *)
(* must still be the stored one, which is what makes the compare-and-set   *)
(* unlosable.                                                              *)

FenceKeyed ==
  \A s \in SourceSets : reservation[s] # None => reservation[s].key.ss = s

HeldIsCurrent ==
  \A c \in Callers : pc[c] \in Inside => held[c] = snapshot[cmd[c].ss]

FenceInv == FenceExclusive /\ FenceKeyed /\ HeldIsCurrent

LEMMA InitFenceInv == Init => FenceInv
BY DEF Init, FenceInv, FenceExclusive, FenceKeyed, HeldIsCurrent, Inside

(* A record that is its owner's token and key is the owner's fence.        *)
LEMMA FenceOfCommand ==
  ASSUME TypeInv, FenceInv, NEW s \in SourceSets, reservation[s] # None
  PROVE  /\ reservation[s].token \in Callers
         /\ cmd[reservation[s].token].ss = s
         /\ OwnsFence(s, cmd[reservation[s].token], reservation[s].token)
<1>1. reservation[s] \in [key: Keys, token: Callers]
  BY DEF TypeInv, TypeOK, Options
<1>2. /\ cmd[reservation[s].token] = reservation[s].key
      /\ reservation[s].key.ss = s
  BY DEF FenceInv, FenceExclusive, FenceKeyed
<1> QED
  BY <1>1, <1>2 DEF OwnsFence

(* Two callers inside a call on one aggregate are the same caller.         *)
LEMMA OneOwner ==
  ASSUME TypeInv, FenceInv, NEW c \in Callers, NEW d \in Callers,
         pc[c] \in Inside, pc[d] \in Inside, cmd[c].ss = cmd[d].ss
  PROVE  c = d
<1>1. OwnsFence(cmd[c].ss, cmd[c], c) /\ OwnsFence(cmd[d].ss, cmd[d], d)
  BY DEF FenceInv, FenceExclusive
<1> QED
  BY <1>1 DEF OwnsFence

LEMMA ReserveFence ==
  ASSUME TypeInv, FenceInv, NEW c \in Callers, NEW key \in Keys, Reserve(c, key)
  PROVE  FenceInv'
<1> DEFINE new == [key |-> key, token |-> c]
<1>1. /\ pc[c] = "idle" /\ reservation[key.ss] = None
      /\ reservation' = [reservation EXCEPT ![key.ss] = new]
      /\ cmd' = [cmd EXCEPT ![c] = key]
      /\ held' = [held EXCEPT ![c] = snapshot[key.ss]]
      /\ pc' = [pc EXCEPT ![c] = Entered(key)]
      /\ snapshot' = snapshot
  BY DEF Reserve, Fenced
<1>2. key.ss \in SourceSets /\ Entered(key) # "idle"
  BY KeyTypes DEF Entered
<1>3. /\ reservation \in [SourceSets -> Options([key: Keys, token: Callers])]
      /\ pc \in [Callers -> Labels] /\ cmd \in [Callers -> Options(Keys)]
      /\ held \in [Callers -> Options(Snapshots)]
  BY DEF TypeInv, TypeOK
<1>4. new # None
  BY NoneAssumption
<1>5. FenceExclusive'
  <2>1. ASSUME NEW d \in Callers, pc'[d] \in Inside
        PROVE  OwnsFence(cmd[d].ss, cmd[d], d)'
    <3>1. CASE d = c
      BY <1>1, <1>2, <1>3, <3>1 DEF OwnsFence
    <3>2. CASE d # c
      <4>1. OwnsFence(cmd[d].ss, cmd[d], d) /\ pc[d] \in Inside
        BY <1>1, <1>3, <2>1, <3>2 DEF FenceInv, FenceExclusive
      <4>2. cmd[d] \in Keys /\ cmd[d].ss \in SourceSets
        BY <4>1, CommandKnown, TypeInvParts DEF Inside
      <4>3. reservation[cmd[d].ss] # None
        BY <4>1, <4>2, NoneAssumption DEF OwnsFence
      <4> QED
        BY <1>1, <1>3, <3>2, <4>1, <4>2, <4>3 DEF OwnsFence
    <3> QED
      BY <3>1, <3>2
  <2>2. ASSUME NEW s \in SourceSets, reservation'[s] # None
        PROVE  /\ pc'[reservation'[s].token] # "idle"
               /\ cmd'[reservation'[s].token] = reservation'[s].key
    <3>1. CASE s = key.ss
      BY <1>1, <1>2, <1>3, <3>1
    <3>2. CASE s # key.ss
      <4>1. reservation'[s] = reservation[s] /\ reservation[s] # None
        BY <1>1, <1>3, <2>2, <3>2
      <4>2. pc[reservation[s].token] # "idle" /\ reservation[s].token \in Callers
        BY <4>1, FenceOfCommand DEF FenceInv, FenceExclusive
      <4> QED
        BY <1>1, <1>3, <4>1, <4>2 DEF FenceInv, FenceExclusive
    <3> QED
      BY <3>1, <3>2
  <2> QED
    BY <2>1, <2>2 DEF FenceExclusive
<1>6. FenceKeyed'
  BY <1>1, <1>2, <1>3 DEF FenceInv, FenceKeyed
<1>7. HeldIsCurrent'
  BY <1>1, <1>3 DEF FenceInv, HeldIsCurrent
<1> QED
  BY <1>5, <1>6, <1>7 DEF FenceInv

(* A caller that moves on inside its call takes its fence along.           *)
LEMMA MoveFence ==
  ASSUME TypeInv, FenceInv, NEW c \in Callers, pc[c] \in Inside,
         NEW label, label # "idle", Goto(c, label), UNCHANGED store
  PROVE  FenceInv'
<1>1. /\ pc' = [pc EXCEPT ![c] = label]
      /\ UNCHANGED <<cmd, held, snapshot, reservation>>
      /\ pc \in [Callers -> Labels]
  BY DEF Goto, store, TypeInv, TypeOK
<1>2. FenceExclusive'
  <2>1. ASSUME NEW d \in Callers, pc'[d] \in Inside
        PROVE  OwnsFence(cmd[d].ss, cmd[d], d)'
    BY <1>1, <2>1 DEF FenceInv, FenceExclusive, OwnsFence
  <2>2. ASSUME NEW s \in SourceSets, reservation'[s] # None
        PROVE  /\ pc'[reservation'[s].token] # "idle"
               /\ cmd'[reservation'[s].token] = reservation'[s].key
    BY <1>1, <2>2, FenceOfCommand DEF FenceInv, FenceExclusive
  <2> QED
    BY <2>1, <2>2 DEF FenceExclusive
<1>3. FenceKeyed' /\ HeldIsCurrent'
  BY <1>1 DEF FenceInv, FenceKeyed, HeldIsCurrent
<1> QED
  BY <1>2, <1>3 DEF FenceInv

(* A caller that was not inside a call stays outside.                      *)
LEMMA StayIdleFence ==
  ASSUME TypeInv, FenceInv, NEW c \in Callers, pc[c] = "idle",
         NEW r, GoIdle(c, r), UNCHANGED store
  PROVE  FenceInv'
<1>1. /\ pc' = [pc EXCEPT ![c] = "idle"] /\ cmd' = [cmd EXCEPT ![c] = None]
      /\ held' = [held EXCEPT ![c] = None]
      /\ UNCHANGED <<snapshot, reservation>>
      /\ pc \in [Callers -> Labels] /\ cmd \in [Callers -> Options(Keys)]
      /\ held \in [Callers -> Options(Snapshots)]
  BY DEF GoIdle, store, TypeInv, TypeOK
<1>2. \A d \in Callers : pc'[d] \in Inside => d # c /\ pc[d] \in Inside
  BY <1>1 DEF Inside
<1>3. FenceExclusive'
  <2>1. ASSUME NEW d \in Callers, pc'[d] \in Inside
        PROVE  OwnsFence(cmd[d].ss, cmd[d], d)'
    BY <1>1, <1>2, <2>1 DEF FenceInv, FenceExclusive, OwnsFence
  <2>2. ASSUME NEW s \in SourceSets, reservation'[s] # None
        PROVE  /\ pc'[reservation'[s].token] # "idle"
               /\ cmd'[reservation'[s].token] = reservation'[s].key
    BY <1>1, <2>2, FenceOfCommand DEF FenceInv, FenceExclusive
  <2> QED
    BY <2>1, <2>2 DEF FenceExclusive
<1>4. FenceKeyed' /\ HeldIsCurrent'
  BY <1>1, <1>2 DEF FenceInv, FenceKeyed, HeldIsCurrent
<1> QED
  BY <1>3, <1>4 DEF FenceInv

(* An applied commit changes only the aggregate whose fence it drops, and  *)
(* nobody else is inside a call on it.                                     *)
LEMMA ApplyFence ==
  ASSUME TypeInv, FenceInv, NEW c \in Callers, pc[c] = "ready", Apply(c),
         NEW label \in {"idle", "failing"}, pc' = [pc EXCEPT ![c] = label],
         NEW k \in Options(Keys), cmd' = [cmd EXCEPT ![c] = k],
         NEW h, held' = [held EXCEPT ![c] = h]
  PROVE  FenceInv'
<1> DEFINE s == cmd[c].ss
<1>1. /\ pc \in [Callers -> Labels] /\ cmd \in [Callers -> Options(Keys)]
      /\ held \in [Callers -> Options(Snapshots)]
      /\ reservation \in [SourceSets -> Options([key: Keys, token: Callers])]
      /\ snapshot \in [SourceSets -> Options(Snapshots)]
  BY DEF TypeInv, TypeOK
<1>2. s \in SourceSets /\ pc[c] \in Inside
  BY CommandKnown, TypeInvParts DEF Inside
<1>3. /\ reservation' = [reservation EXCEPT ![s] = None]
      /\ \A z \in SourceSets \ {s} : snapshot'[z] = snapshot[z]
  BY <1>1 DEF Apply
<1>4. \A d \in Callers : pc'[d] \in Inside =>
        d # c /\ pc[d] \in Inside /\ cmd[d].ss \in SourceSets \ {s}
  <2>1. ASSUME NEW d \in Callers, pc'[d] \in Inside
        PROVE  d # c /\ pc[d] \in Inside /\ cmd[d].ss \in SourceSets \ {s}
    <3>1. d # c /\ pc[d] \in Inside
      BY <1>1, <2>1 DEF Inside
    <3>2. cmd[d].ss \in SourceSets
      BY <3>1, CommandKnown, TypeInvParts DEF Inside
    <3> QED
      BY <1>2, <3>1, <3>2, OneOwner
  <2> QED
    BY <2>1
<1>5. \A z \in SourceSets : reservation'[z] # None =>
        /\ z # s /\ reservation'[z] = reservation[z] /\ reservation[z].token \in Callers \ {c}
  <2>1. ASSUME NEW z \in SourceSets, reservation'[z] # None
        PROVE  /\ z # s /\ reservation'[z] = reservation[z]
               /\ reservation[z].token \in Callers \ {c}
    <3>1. z # s /\ reservation'[z] = reservation[z]
      BY <1>1, <1>3, <2>1
    <3>2. reservation[z].token \in Callers /\ cmd[reservation[z].token].ss = z
      BY <2>1, <3>1, FenceOfCommand
    <3> QED
      BY <3>1, <3>2
  <2> QED
    BY <2>1
<1>6. FenceExclusive'
  <2>1. ASSUME NEW d \in Callers, pc'[d] \in Inside
        PROVE  OwnsFence(cmd[d].ss, cmd[d], d)'
    <3>1. d # c /\ pc[d] \in Inside /\ cmd[d].ss \in SourceSets \ {s}
      BY <1>4, <2>1
    <3>2. OwnsFence(cmd[d].ss, cmd[d], d) /\ cmd'[d] = cmd[d]
      BY <1>1, <3>1 DEF FenceInv, FenceExclusive
    <3> QED
      BY <1>1, <1>3, <3>1, <3>2 DEF OwnsFence
  <2>2. ASSUME NEW z \in SourceSets, reservation'[z] # None
        PROVE  /\ pc'[reservation'[z].token] # "idle"
               /\ cmd'[reservation'[z].token] = reservation'[z].key
    <3>1. reservation'[z] = reservation[z] /\ reservation[z].token \in Callers \ {c}
      BY <1>5, <2>2
    <3>2. pc[reservation[z].token] # "idle" /\ cmd[reservation[z].token] = reservation[z].key
      BY <2>2, <3>1 DEF FenceInv, FenceExclusive
    <3> QED
      BY <1>1, <3>1, <3>2
  <2> QED
    BY <2>1, <2>2 DEF FenceExclusive
<1>7. FenceKeyed'
  BY <1>5 DEF FenceInv, FenceKeyed
<1>8. HeldIsCurrent'
  BY <1>1, <1>3, <1>4 DEF FenceInv, HeldIsCurrent
<1> QED
  BY <1>6, <1>7, <1>8 DEF FenceInv

LEMMA ReleaseFence ==
  ASSUME TypeInv, FenceInv, NEW c \in Callers, Release(c)
  PROVE  FenceInv'
<1> DEFINE s == cmd[c].ss
<1>1. /\ pc \in [Callers -> Labels] /\ cmd \in [Callers -> Options(Keys)]
      /\ held \in [Callers -> Options(Snapshots)]
      /\ reservation \in [SourceSets -> Options([key: Keys, token: Callers])]
  BY DEF TypeInv, TypeOK
<1>2. /\ pc[c] = "failing" /\ s \in SourceSets /\ snapshot' = snapshot
      /\ pc' = [pc EXCEPT ![c] = "idle"] /\ cmd' = [cmd EXCEPT ![c] = None]
      /\ held' = [held EXCEPT ![c] = None]
      /\ reservation' = [reservation EXCEPT ![s] =
                           IF OwnsFence(s, cmd[c], c) THEN None ELSE reservation[s]]
  BY CommandKnown, TypeInvParts DEF Release, GoIdle
<1>3. \A d \in Callers : pc'[d] \in Inside => d # c /\ pc[d] \in Inside
  BY <1>1, <1>2 DEF Inside
<1>4. \A z \in SourceSets : reservation'[z] # None =>
        reservation'[z] = reservation[z] /\ reservation[z].token \in Callers \ {c}
  <2>1. ASSUME NEW z \in SourceSets, reservation'[z] # None
        PROVE  reservation'[z] = reservation[z] /\ reservation[z].token \in Callers \ {c}
    <3>1. reservation'[z] = reservation[z]
      BY <1>1, <1>2, <2>1
    <3>2. /\ reservation[z].token \in Callers /\ cmd[reservation[z].token].ss = z
          /\ OwnsFence(z, cmd[reservation[z].token], reservation[z].token)
      BY <2>1, <3>1, FenceOfCommand
    <3>3. reservation[z].token = c => z = s /\ OwnsFence(s, cmd[c], c)
      BY <3>2
    <3> QED
      BY <1>1, <1>2, <2>1, <3>1, <3>2, <3>3
  <2> QED
    BY <2>1
<1>5. FenceExclusive'
  <2>1. ASSUME NEW d \in Callers, pc'[d] \in Inside
        PROVE  OwnsFence(cmd[d].ss, cmd[d], d)'
    <3>1. d # c /\ pc[d] \in Inside
      BY <1>3, <2>1
    <3>2. OwnsFence(cmd[d].ss, cmd[d], d) /\ cmd'[d] = cmd[d]
      BY <1>1, <1>2, <3>1 DEF FenceInv, FenceExclusive
    <3>3. ~(cmd[d].ss = s /\ OwnsFence(s, cmd[c], c))
      BY <3>1, <3>2 DEF OwnsFence
    <3>4. cmd[d].ss \in SourceSets
      BY <3>1, CommandKnown, TypeInvParts DEF Inside
    <3> QED
      BY <1>1, <1>2, <3>2, <3>3, <3>4 DEF OwnsFence
  <2>2. ASSUME NEW z \in SourceSets, reservation'[z] # None
        PROVE  /\ pc'[reservation'[z].token] # "idle"
               /\ cmd'[reservation'[z].token] = reservation'[z].key
    <3>1. reservation'[z] = reservation[z] /\ reservation[z].token \in Callers \ {c}
      BY <1>4, <2>2
    <3>2. pc[reservation[z].token] # "idle" /\ cmd[reservation[z].token] = reservation[z].key
      BY <2>2, <3>1 DEF FenceInv, FenceExclusive
    <3> QED
      BY <1>1, <1>2, <3>1, <3>2
  <2> QED
    BY <2>1, <2>2 DEF FenceExclusive
<1>6. FenceKeyed'
  BY <1>4 DEF FenceInv, FenceKeyed
<1>7. HeldIsCurrent'
  BY <1>1, <1>2, <1>3 DEF FenceInv, HeldIsCurrent
<1> QED
  BY <1>5, <1>6, <1>7 DEF FenceInv

(* A command that is ready to commit owns the fence over the snapshot it   *)
(* captured, so storage has only its content to judge.                     *)
LEMMA ReadyIsUnraced ==
  ASSUME FenceInv, NEW c \in Callers, pc[c] = "ready"
  PROVE  CommitOutcome(cmd[c].ss, cmd[c], c) \in {"applied", "invalid"}
BY DEF FenceInv, FenceExclusive, HeldIsCurrent, Inside, CommitOutcome

LEMMA CommitAckedFence ==
  ASSUME TypeInv, FenceInv, NEW c \in Callers, CommitAcked(c)
  PROVE  FenceInv'
<1>1. pc[c] = "ready" /\ CommitOutcome(cmd[c].ss, cmd[c], c) = "applied"
  BY ReadyIsUnraced DEF CommitAcked
<1>2. /\ Apply(c)
      /\ pc' = [pc EXCEPT ![c] = "idle"]
      /\ cmd' = [cmd EXCEPT ![c] = None] /\ held' = [held EXCEPT ![c] = None]
  BY <1>1 DEF CommitAcked, GoIdle
<1>3. None \in Options(Keys)
  BY DEF Options
<1> QED
  BY <1>1, <1>2, <1>3, ApplyFence

LEMMA CommitAckLostFence ==
  ASSUME TypeInv, FenceInv, NEW c \in Callers, CommitAckLost(c)
  PROVE  FenceInv'
<1>1. /\ pc[c] = "ready" /\ Apply(c) /\ pc' = [pc EXCEPT ![c] = "failing"]
      /\ UNCHANGED <<cmd, held>>
  BY DEF CommitAckLost, Goto
<1>2. /\ cmd \in [Callers -> Options(Keys)] /\ held \in [Callers -> Options(Snapshots)]
  BY DEF TypeInv, TypeOK
<1>3. /\ cmd' = [cmd EXCEPT ![c] = cmd[c]] /\ cmd[c] \in Options(Keys)
      /\ held' = [held EXCEPT ![c] = held[c]]
  BY <1>1, <1>2
<1> QED
  BY <1>1, <1>3, ApplyFence

LEMMA NextFenceInv == TypeInv /\ FenceInv /\ [Next]_vars => FenceInv'
<1> SUFFICES ASSUME TypeInv, FenceInv, [Next]_vars PROVE FenceInv'
  OBVIOUS
<1>1. CASE UNCHANGED vars
  BY <1>1 DEF vars, FenceInv, FenceExclusive, FenceKeyed, HeldIsCurrent, OwnsFence
<1>2. ASSUME NEW c \in Callers, NEW key \in Keys, Replay(c, key)
      PROVE  FenceInv'
  BY <1>2, StayIdleFence DEF Replay
<1>3. ASSUME NEW c \in Callers, NEW key \in Keys, Refuse(c, key)
      PROVE  FenceInv'
  BY <1>3, StayIdleFence DEF Refuse
<1>4. ASSUME NEW c \in Callers, Continue(c)
      PROVE  FenceInv'
  <2>1. CASE CheckCommand(c)
    <3>1. pc[c] \in Inside /\ UNCHANGED store
      BY <2>1 DEF CheckCommand, Inside
    <3>2. CASE Admitted(cmd[c], held[c])
      BY <2>1, <3>1, <3>2, MoveFence DEF CheckCommand
    <3>3. CASE ~Admitted(cmd[c], held[c])
      BY <2>1, <3>1, <3>3, MoveFence DEF CheckCommand
    <3> QED
      BY <3>2, <3>3
  <2>2. CASE PortAnswers(c)
    BY <2>2, MoveFence DEF PortAnswers, Inside
  <2>3. CASE PortRaises(c)
    BY <2>3, MoveFence DEF PortRaises, Inside
  <2>4. CASE CommitFails(c)
    BY <2>4, MoveFence DEF CommitFails, Inside
  <2> QED
    BY <1>4, <2>1, <2>2, <2>3, <2>4, CommitAckedFence, CommitAckLostFence,
       ReleaseFence DEF Continue
<1> QED
  BY <1>1, <1>2, <1>3, <1>4, ReserveFence DEF Next, Call

LEMMA FenceInvariant == Spec => [](TypeInv /\ FenceInv)
<1>1. Init => TypeInv /\ FenceInv
  BY InitTypeInv, InitFenceInv
<1>2. TypeInv /\ FenceInv /\ [Next]_vars => TypeInv' /\ FenceInv'
  BY NextTypeInv, NextFenceInv
<1> QED
  BY <1>1, <1>2, PTL DEF Spec

(* From its reservation to its commit a command owns the aggregate's fence *)
(* alone, and a fence belongs to a call that is still running, for any     *)
(* number of callers and aggregates.                                       *)
THEOREM Fencing == Spec => []FenceExclusive
<1>1. TypeInv /\ FenceInv => FenceExclusive
  BY DEF FenceInv
<1> QED
  BY <1>1, FenceInvariant, PTL

(* The compare-and-set of a commit is never lost to another caller: no     *)
(* "not fenced", no "conflict" and no "already committed" reaches a caller *)
(* that is ready.                                                          *)
CommitUnraced ==
  \A c \in Callers : pc[c] = "ready" =>
    CommitOutcome(cmd[c].ss, cmd[c], c) \in {"applied", "invalid"}

THEOREM CommitNeverLosesRace == Spec => []CommitUnraced
<1>1. TypeInv /\ FenceInv => CommitUnraced
  BY ReadyIsUnraced DEF CommitUnraced
<1> QED
  BY <1>1, FenceInvariant, PTL

-----------------------------------------------------------------------------
(* The history.  A commit appends to the receipts and the events and keeps *)
(* what was recorded; nothing else touches them.                           *)

Grows(s) ==
  /\ snapshot'[s] # None
  /\ OnceSetKept(snapshot[s], snapshot'[s])
  /\ SubSeq(snapshot'[s].receipts, 1, Len(snapshot[s].receipts)) = snapshot[s].receipts
  /\ SubSeq(events'[s], 1, Len(events[s])) = events[s]

LEMMA WholePrefix ==
  ASSUME NEW S, NEW seq \in Seq(S)
  PROVE  SubSeq(seq, 1, Len(seq)) = seq
OBVIOUS

LEMMA AppendPrefix ==
  ASSUME NEW S, NEW seq \in Seq(S), NEW e \in S
  PROVE  SubSeq(Append(seq, e), 1, Len(seq)) = seq
OBVIOUS

LEMMA ConcatPrefix ==
  ASSUME NEW S, NEW seq \in Seq(S), NEW tail \in Seq(S)
  PROVE  SubSeq(seq \o tail, 1, Len(seq)) = seq
OBVIOUS

LEMMA UnchangedGrows ==
  ASSUME TypeInv, NEW s \in SourceSets, snapshot[s] # None,
         snapshot'[s] = snapshot[s], events'[s] = events[s]
  PROVE  Grows(s)
<1>1. snapshot[s].receipts \in Seq(Receipts)
  BY DEF TypeInv, TypeOK, Options, Snapshots
<1>2. events[s] \in Seq([key: Keys, stage: Stages])
  BY DEF TypeInv, TypeOK
<1>3. SubSeq(snapshot[s].receipts, 1, Len(snapshot[s].receipts)) = snapshot[s].receipts
  BY <1>1, WholePrefix
<1>4. SubSeq(events[s], 1, Len(events[s])) = events[s]
  BY <1>2, WholePrefix
<1> QED
  BY <1>3, <1>4 DEF Grows, OnceSetKept

LEMMA ApplyGrows ==
  ASSUME TypeInv, NEW c \in Callers, pc[c] = "ready",
         CommitOutcome(cmd[c].ss, cmd[c], c) = "applied", Apply(c),
         NEW z \in SourceSets, snapshot[z] # None
  PROVE  Grows(z)
<1> DEFINE key == cmd[c]
           s   == key.ss
           d   == draft[c]
           new == WithReceipt(key, d.snap)
           log == [i \in 1..Len(d.path) |-> [key |-> key, stage |-> d.path[i]]]
<1>1. /\ key \in Keys /\ s \in SourceSets
      /\ d.snap \in Snapshots /\ d.path \in Seq(Stages)
      /\ snapshot \in [SourceSets -> Options(Snapshots)]
      /\ events \in [SourceSets -> Seq([key: Keys, stage: Stages])]
  BY CommandKnown, TypeInvParts DEF TypeInv, TypeOK, HeldKnown, DraftType
<1>2. /\ snapshot' = [snapshot EXCEPT ![s] = new]
      /\ events' = [events EXCEPT ![s] = events[s] \o log]
  BY DEF Apply
<1>3. CASE z # s
  BY <1>1, <1>2, <1>3, UnchangedGrows
<1>4. CASE z = s
  <2>1. snapshot[s] = held[c] /\ ValidChange(s, key, held[c], d)
    BY DEF CommitOutcome
  <2>2. /\ d.snap.receipts = snapshot[s].receipts
        /\ OnceSetKept(snapshot[s], d.snap)
    BY <1>4, <2>1 DEF ValidChange
  <2>3. new \in Snapshots /\ Receipt(key, d.snap) \in Receipts
    BY <1>1, ReceiptType
  <2>4. /\ new.receipts = Append(d.snap.receipts, Receipt(key, d.snap))
        /\ \A f \in OnceSet : new[f] = d.snap[f]
    BY <1>1 DEF WithReceipt, Snapshots, OnceSet
  <2>5. snapshot'[s] = new /\ events'[s] = events[s] \o log
    BY <1>1, <1>2
  <2> HIDE DEF new
  <2>6. snapshot'[s] # None /\ OnceSetKept(snapshot[s], snapshot'[s])
    BY <2>2, <2>3, <2>4, <2>5, NoneAssumption DEF OnceSetKept
  <2>7. d.snap.receipts \in Seq(Receipts)
    BY <1>1 DEF Snapshots
  <2>8. SubSeq(new.receipts, 1, Len(snapshot[s].receipts)) = snapshot[s].receipts
    BY <2>2, <2>3, <2>4, <2>7, AppendPrefix
  <2>9. log \in Seq([key: Keys, stage: Stages])
    BY <1>1
  <2>10. SubSeq(events[s] \o log, 1, Len(events[s])) = events[s]
    BY <1>1, <2>9, ConcatPrefix
  <2> QED
    BY <1>4, <2>5, <2>6, <2>8, <2>10 DEF Grows
<1> QED
  BY <1>3, <1>4

LEMMA NextGrows ==
  ASSUME TypeInv, [Next]_vars, NEW s \in SourceSets, snapshot[s] # None
  PROVE  Grows(s)
<1>1. CASE UNCHANGED <<snapshot, events>>
  BY <1>1, UnchangedGrows
<1>2. CASE \E c \in Callers : CommitAcked(c) \/ CommitAckLost(c)
  BY <1>1, <1>2, ApplyGrows DEF CommitAcked, CommitAckLost
<1>3. ASSUME NEW c \in Callers, Call(c)
      PROVE  UNCHANGED <<snapshot, events>>
  BY <1>3 DEF Call, Replay, Refuse, Reserve, store
<1>4. ASSUME NEW c \in Callers, Continue(c), ~CommitAcked(c), ~CommitAckLost(c)
      PROVE  UNCHANGED <<snapshot, events>>
  BY <1>4 DEF Continue, CheckCommand, PortAnswers, PortRaises, CommitFails, Release, store
<1>5. UNCHANGED vars => UNCHANGED <<snapshot, events>>
  BY DEF vars
<1> QED
  BY <1>1, <1>2, <1>3, <1>4, <1>5 DEF Next

(* Receipts, events and recorded payloads are never rewritten, by any      *)
(* number of callers whatever fails between their steps.                   *)
THEOREM HistoryIsAppendOnly == Spec => HistoryAppendOnly
<1>1. TypeInv /\ [Next]_vars =>
        [\A s \in SourceSets : snapshot[s] # None =>
           /\ snapshot'[s] # None
           /\ OnceSetKept(snapshot[s], snapshot'[s])
           /\ SubSeq(snapshot'[s].receipts, 1, Len(snapshot[s].receipts))
                = snapshot[s].receipts
           /\ SubSeq(events'[s], 1, Len(events[s])) = events[s]]_vars
  BY NextGrows DEF Grows
<1> QED
  BY <1>1, TypeCorrect, PTL DEF Spec, HistoryAppendOnly

-----------------------------------------------------------------------------
(* Answers.  Receipts are only added, and whoever is answered is answered  *)
(* with one.                                                               *)

AnswerHolds(c) ==
  reply[c] # None /\ reply[c].kind = "answered" =>
    /\ snapshot[reply[c].key.ss] # None
    /\ reply[c].receipt \in Range(snapshot[reply[c].key.ss].receipts)
    /\ reply[c].receipt.key = reply[c].key

LEMMA AppliedReceipts ==
  ASSUME TypeInv, NEW c \in Callers, pc[c] = "ready",
         CommitOutcome(cmd[c].ss, cmd[c], c) = "applied", Apply(c)
  PROVE  /\ snapshot' = [snapshot EXCEPT ![cmd[c].ss] = WithReceipt(cmd[c], draft[c].snap)]
         /\ WithReceipt(cmd[c], draft[c].snap) \in Snapshots
         /\ cmd[c] \in Keys /\ cmd[c].ss \in SourceSets
         /\ Range(WithReceipt(cmd[c], draft[c].snap).receipts) =
              Range(draft[c].snap.receipts) \cup {Receipt(cmd[c], draft[c].snap)}
         /\ snapshot[cmd[c].ss] # None =>
              draft[c].snap.receipts = snapshot[cmd[c].ss].receipts
<1> DEFINE new == WithReceipt(cmd[c], draft[c].snap)
<1>1. cmd[c] \in Keys /\ cmd[c].ss \in SourceSets /\ draft[c].snap \in Snapshots
  BY CommandKnown, TypeInvParts DEF TypeInv, HeldKnown, DraftType
<1>2. new \in Snapshots /\ Receipt(cmd[c], draft[c].snap) \in Receipts
  BY <1>1, ReceiptType
<1>3. new.receipts = Append(draft[c].snap.receipts, Receipt(cmd[c], draft[c].snap))
  BY <1>1 DEF WithReceipt, Snapshots
<1>4. draft[c].snap.receipts \in Seq(Receipts)
  BY <1>1 DEF Snapshots
<1>5. Range(new.receipts) = Range(draft[c].snap.receipts) \cup {Receipt(cmd[c], draft[c].snap)}
  BY <1>2, <1>3, <1>4, RangeOfAppend
<1>6. snapshot' = [snapshot EXCEPT ![cmd[c].ss] = new]
  BY DEF Apply
<1>7. snapshot[cmd[c].ss] # None => draft[c].snap.receipts = snapshot[cmd[c].ss].receipts
  BY DEF CommitOutcome, ValidChange
<1> QED
  BY <1>1, <1>2, <1>5, <1>6, <1>7

(* A caller whose reply stands still keeps a good one.                     *)
LEMMA AnswerPersists ==
  ASSUME TypeInv, NEW d \in Callers, AnswerHolds(d), reply'[d] = reply[d],
         \A s \in SourceSets : snapshot[s] # None =>
           /\ snapshot'[s] # None
           /\ Range(snapshot[s].receipts) \subseteq Range(snapshot'[s].receipts)
  PROVE  AnswerHolds(d)'
<1>1. reply[d] \in Options(Replies)
  BY DEF TypeInv, TypeOK
<1>2. reply[d] # None /\ reply[d].kind = "answered" => reply[d].key \in Keys
  BY <1>1 DEF Options, Replies, Error
<1>3. reply[d] # None /\ reply[d].kind = "answered" => reply[d].key.ss \in SourceSets
  BY <1>2, KeyTypes
<1> QED
  BY <1>3 DEF AnswerHolds

LEMMA AppliedKeeps ==
  ASSUME TypeInv, NEW c \in Callers, pc[c] = "ready",
         CommitOutcome(cmd[c].ss, cmd[c], c) = "applied", Apply(c)
  PROVE  \A s \in SourceSets : snapshot[s] # None =>
           /\ snapshot'[s] # None
           /\ Range(snapshot[s].receipts) \subseteq Range(snapshot'[s].receipts)
<1> DEFINE new == WithReceipt(cmd[c], draft[c].snap)
<1>1. /\ snapshot' = [snapshot EXCEPT ![cmd[c].ss] = new]
      /\ new \in Snapshots
      /\ Range(new.receipts) = Range(draft[c].snap.receipts) \cup {Receipt(cmd[c], draft[c].snap)}
      /\ snapshot[cmd[c].ss] # None =>
           draft[c].snap.receipts = snapshot[cmd[c].ss].receipts
  BY AppliedReceipts
<1>2. snapshot \in [SourceSets -> Options(Snapshots)] /\ new # None
  BY <1>1, NoneAssumption DEF TypeInv, TypeOK
<1> HIDE DEF new
<1>3. ASSUME NEW s \in SourceSets, snapshot[s] # None
      PROVE  /\ snapshot'[s] # None
             /\ Range(snapshot[s].receipts) \subseteq Range(snapshot'[s].receipts)
  <2>1. CASE s = cmd[c].ss
    <3>1. snapshot'[s] = new
      BY <1>1, <1>2, <2>1
    <3>2. Range(snapshot[s].receipts) \subseteq Range(new.receipts)
      BY <1>1, <1>3, <2>1
    <3> QED
      BY <1>2, <3>1, <3>2
  <2>2. CASE s # cmd[c].ss
    <3>1. snapshot'[s] = snapshot[s]
      BY <1>1, <1>2, <2>2
    <3> QED
      BY <1>3, <3>1
  <2> QED
    BY <2>1, <2>2
<1> QED
  BY <1>3

LEMMA GoIdleReply ==
  ASSUME TypeInv, NEW c \in Callers, NEW r, GoIdle(c, r)
  PROVE  /\ reply'[c] = r
         /\ \A d \in Callers \ {c} : reply'[d] = reply[d]
BY DEF GoIdle, TypeInv, TypeOK

LEMMA NextAnswers ==
  TypeInv /\ FenceInv /\ AnswersAreReceipts /\ [Next]_vars => AnswersAreReceipts'
<1> SUFFICES ASSUME TypeInv, FenceInv, AnswersAreReceipts, [Next]_vars,
                    NEW d \in Callers
             PROVE  AnswerHolds(d)'
  BY DEF AnswersAreReceipts, AnswerHolds
<1> DEFINE Kept == \A s \in SourceSets : snapshot[s] # None =>
             /\ snapshot'[s] # None
             /\ Range(snapshot[s].receipts) \subseteq Range(snapshot'[s].receipts)
<1>1. AnswerHolds(d)
  BY DEF AnswersAreReceipts, AnswerHolds
<1>2. snapshot' = snapshot => Kept
  OBVIOUS
<1> HIDE DEF Kept
<1>3. Kept /\ reply'[d] = reply[d] => AnswerHolds(d)'
  BY <1>1, AnswerPersists DEF Kept
<1>4. CASE UNCHANGED vars
  BY <1>2, <1>3, <1>4 DEF vars
<1>5. ASSUME NEW c \in Callers, NEW key \in Keys, Replay(c, key)
      PROVE  AnswerHolds(d)'
  <2>1. /\ snapshot' = snapshot /\ Processed(key.ss, key)
        /\ GoIdle(c, Answer(key, Replayed(key.ss, key)))
    BY <1>5 DEF Replay, store
  <2>2. /\ snapshot[key.ss] # None
        /\ Replayed(key.ss, key) \in Range(snapshot[key.ss].receipts)
        /\ Replayed(key.ss, key).key = key
    BY <2>1, KeyTypes, ReplayedIsReceipt DEF Processed
  <2>3. CASE d = c
    BY <2>1, <2>2, <2>3, GoIdleReply DEF AnswerHolds, Answer
  <2>4. CASE d # c
    BY <1>2, <1>3, <2>1, <2>4, GoIdleReply
  <2> QED
    BY <2>3, <2>4
<1>6. ASSUME NEW c \in Callers, NEW kind \in {"in_progress", "raised"},
             GoIdle(c, Error(kind)), snapshot' = snapshot
      PROVE  AnswerHolds(d)'
  <2>1. CASE d = c
    BY <1>6, <2>1, GoIdleReply DEF AnswerHolds, Error
  <2>2. CASE d # c
    BY <1>2, <1>3, <1>6, <2>2, GoIdleReply
  <2> QED
    BY <2>1, <2>2
<1>7. ASSUME NEW c \in Callers, NEW key \in Keys, Reserve(c, key)
      PROVE  AnswerHolds(d)'
  <2>1. reply' = [reply EXCEPT ![c] = None] /\ snapshot' = snapshot
        /\ reply \in [Callers -> Options(Replies)]
    BY <1>7 DEF Reserve, TypeInv, TypeOK
  <2>2. CASE d = c
    BY <2>1, <2>2 DEF AnswerHolds
  <2>3. CASE d # c
    BY <1>2, <1>3, <2>1, <2>3
  <2> QED
    BY <2>2, <2>3
<1>8. ASSUME NEW c \in Callers, CommitAcked(c)
      PROVE  AnswerHolds(d)'
  <2>1. pc[c] = "ready" /\ CommitOutcome(cmd[c].ss, cmd[c], c) = "applied"
    BY <1>8, ReadyIsUnraced DEF CommitAcked
  <2>2. Apply(c) /\ GoIdle(c, Answer(cmd[c], Receipt(cmd[c], draft[c].snap)))
    BY <1>8, <2>1 DEF CommitAcked
  <2>3. Kept
    BY <2>1, <2>2, AppliedKeeps DEF Kept
  <2>4. CASE d = c
    <3> DEFINE new == WithReceipt(cmd[c], draft[c].snap)
    <3>1. /\ snapshot' = [snapshot EXCEPT ![cmd[c].ss] = new] /\ new \in Snapshots
          /\ cmd[c] \in Keys /\ cmd[c].ss \in SourceSets
          /\ Receipt(cmd[c], draft[c].snap) \in Range(new.receipts)
      BY <2>1, <2>2, AppliedReceipts
    <3> HIDE DEF new
    <3>2. snapshot'[cmd[c].ss] = new /\ new # None
      BY <3>1, NoneAssumption DEF TypeInv, TypeOK
    <3>3. reply'[c] = Answer(cmd[c], Receipt(cmd[c], draft[c].snap))
      BY <2>2, GoIdleReply
    <3> QED
      BY <2>4, <3>1, <3>2, <3>3 DEF AnswerHolds, Answer, Receipt
  <2>5. CASE d # c
    BY <1>3, <2>2, <2>3, <2>5, GoIdleReply
  <2> QED
    BY <2>4, <2>5
<1>9. ASSUME NEW c \in Callers, CommitAckLost(c)
      PROVE  AnswerHolds(d)'
  <2>1. Kept
    BY <1>9, AppliedKeeps DEF CommitAckLost, Kept
  <2> QED
    BY <1>3, <1>9, <2>1 DEF CommitAckLost, Goto
<1>10. ASSUME NEW c \in Callers,
              CheckCommand(c) \/ PortAnswers(c) \/ PortRaises(c) \/ CommitFails(c)
       PROVE  AnswerHolds(d)'
  BY <1>2, <1>3, <1>10 DEF CheckCommand, PortAnswers, PortRaises, CommitFails, Goto, store
<1>11. ASSUME NEW c \in Callers, NEW key \in Keys, Refuse(c, key)
       PROVE  AnswerHolds(d)'
  BY <1>6, <1>11 DEF Refuse, store
<1>12. ASSUME NEW c \in Callers, Release(c)
       PROVE  AnswerHolds(d)'
  BY <1>6, <1>12 DEF Release
<1> QED
  BY <1>4, <1>5, <1>7, <1>8, <1>9, <1>10, <1>11, <1>12 DEF Next, Call, Continue

(* Whatever a caller was ever answered, as new work or as a retry, is the  *)
(* receipt the aggregate keeps for that very command.                      *)
THEOREM AnswersHold == Spec => []AnswersAreReceipts
<1>1. Init => AnswersAreReceipts
  BY DEF Init, AnswersAreReceipts
<1> QED
  BY <1>1, NextAnswers, FenceInvariant, PTL DEF Spec

-----------------------------------------------------------------------------
(* What an aggregate looks like at each stage.  A stage has a rank, and an *)
(* action the rank of the stages it leads to.                              *)

Reached == {"registered", "acquired", "claims_proposed", "reconciled", "contract_built", "validated",
            "review_required", "approval_ready", "approved", "published"}

Rank(stage) ==
  CASE stage = "registered"      -> 0
    [] stage = "acquired"        -> 1
    [] stage = "claims_proposed" -> 2
    [] stage = "reconciled"      -> 3
    [] stage = "contract_built"  -> 4
    [] stage = "approved"        -> 6
    [] stage = "published"       -> 7
    [] OTHER                     -> 5

Turn(action) ==
  CASE action = "register"  -> 0
    [] action = "acquire"   -> 1
    [] action = "propose"   -> 2
    [] action = "reconcile" -> 3
    [] action = "build"     -> 4
    [] action = "validate"  -> 5
    [] action = "approve"   -> 6
    [] OTHER                -> 7

\* Nothing is recorded ahead of its stage.
NotAhead(h) ==
  LET rank == Rank(h.wf.state) IN
  /\ \A k \in h.wf.keys : Turn(k.action) <= rank
  /\ rank < 1 => h.evidence = None
  /\ rank < 2 => h.runtimeResult = None /\ h.wf.runtimes = {}
  /\ rank >= 2 => h.wf.runtimes = {h.runtimeResult}
  /\ rank < 3 => h.claims = None
  /\ rank < 4 => h.contract = None
  /\ rank < 5 => h.decision = None /\ h.projections = None

\* The release says what its stage says, of the aggregate's own contract.
ReleaseStaged(h) ==
  LET state == h.wf.state IN
  /\ h.decision = "reject" <=> state = "validated"
  /\ h.release = None <=> Rank(state) < 5 \/ state = "validated"
  /\ h.release # None =>
       /\ h.release.status = (CASE state = "approved" -> "approved" [] state = "published" -> "published"
                                [] OTHER -> "candidate")
       /\ h.release.contract = h.contract
       /\ h.release.runtimes = h.wf.runtimes
       /\ h.release.status # "candidate" => h.release.approvedBy \in Approvers \ h.wf.runtimes
  /\ h.current = IF state = "published" THEN [contract |-> h.contract, status |-> "published"] ELSE None

Staged(h) == h.wf.state \in Reached /\ NotAhead(h) /\ ReleaseStaged(h)

\* One or two steps through the graph.
Leads(from, path, to) ==
  \/ path = <<to>> /\ to \in Allowed(from)
  \/ \E mid \in Stages : path = <<mid, to>> /\ mid \in Allowed(from) /\ to \in Allowed(mid)

\* A draft the unit of work has nothing to say against.
Sound(key, h, d) ==
  /\ Staged(d.snap) /\ Rank(d.snap.wf.state) = Turn(key.action)
  /\ d.snap.wf.keys = h.wf.keys \cup {key}
  /\ d.snap.receipts = h.receipts
  /\ OnceSetKept(h, d.snap) /\ ReleaseMoved(h, d.snap) /\ CurrentCoherent(d.snap)
  /\ h.current # None => d.snap.current = h.current
  /\ Leads(h.wf.state, d.path, d.snap.wf.state)

Fits(key, h) ==
  /\ key \in Keys /\ key.action # "register" /\ key \notin h.wf.keys
  /\ h \in Snapshots /\ Staged(h) /\ Admitted(key, h)

-----------------------------------------------------------------------------
(* Drafts.                                                                 *)

LEMMA Ranks ==
  ASSUME NEW x
  PROVE  Rank(x) \in 0..7 /\ Turn(x) \in 0..7
BY DEF Rank, Turn

\* What is new work is done in its turn.
LEMMA InTurn ==
  ASSUME NEW key, NEW h, Fits(key, h)
  PROVE  /\ Target(key.action) \in Allowed(h.wf.state)
         /\ Rank(h.wf.state) = Turn(key.action) - 1
<1>1. Target(key.action) \in Allowed(h.wf.state)
  BY DEF Fits, Admitted, Preflight, IsRetry
<1>2. key.action \in Actions \ {"register"} /\ h.wf.state \in Reached
  BY KeyTypes DEF Fits, Staged
<1>3. \/ key.action = "acquire" /\ h.wf.state = "registered"
      \/ key.action = "propose" /\ h.wf.state = "acquired"
      \/ key.action = "reconcile" /\ h.wf.state = "claims_proposed"
      \/ key.action = "build" /\ h.wf.state = "reconciled"
      \/ key.action = "validate" /\ h.wf.state = "contract_built"
      \/ key.action = "approve" /\ h.wf.state \in {"review_required", "approval_ready"}
      \/ key.action = "publish" /\ h.wf.state = "approved"
  BY <1>1, <1>2 DEF Actions, Reached, Target, Allowed
<1>4. /\ Rank("registered") = 0 /\ Rank("acquired") = 1 /\ Rank("claims_proposed") = 2
      /\ Rank("reconciled") = 3 /\ Rank("contract_built") = 4 /\ Rank("review_required") = 5
      /\ Rank("approval_ready") = 5 /\ Rank("approved") = 6
  BY DEF Rank
<1>5. /\ Turn("acquire") = 1 /\ Turn("propose") = 2 /\ Turn("reconcile") = 3
      /\ Turn("build") = 4 /\ Turn("validate") = 5 /\ Turn("approve") = 6 /\ Turn("publish") = 7
  BY DEF Turn
<1>6. Rank(h.wf.state) = Turn(key.action) - 1
  BY <1>3, <1>4, <1>5
<1> QED
  BY <1>1, <1>6

LEMMA OnceFields ==
  ASSUME NEW h \in Snapshots, NEW u \in Snapshots,
         h.version = u.version,
         h.evidence # None => u.evidence = h.evidence,
         h.runtimeResult # None => u.runtimeResult = h.runtimeResult,
         h.claims # None => u.claims = h.claims,
         h.contract # None => u.contract = h.contract,
         h.decision # None => u.decision = h.decision,
         h.projections # None => u.projections = h.projections
  PROVE  OnceSetKept(h, u)
BY DEF OnceSetKept, OnceSet

LEMMA AdvanceFields ==
  ASSUME NEW key \in Keys, NEW h \in Snapshots
  PROVE  /\ Advance(h, key).state = Target(key.action)
         /\ Advance(h, key).keys = h.wf.keys \cup {key}
         /\ Advance(h, key).runtimes = h.wf.runtimes
BY DEF Advance, Transition, Snapshots, Workflows

\* The commands before the validation leave the release alone.
LEMMA EarlySound ==
  ASSUME NEW key, NEW h, Fits(key, h), Turn(key.action) \in 1..4,
         NEW u \in Snapshots, NotAhead(u),
         u.wf.state = Target(key.action), u.wf.keys = h.wf.keys \cup {key},
         u.receipts = h.receipts, OnceSetKept(h, u),
         u.release = h.release, u.current = h.current, u.decision = h.decision
  PROVE  Sound(key, h, [snap |-> u, path |-> <<Target(key.action)>>])
<1>1. /\ Rank(h.wf.state) = Turn(key.action) - 1 /\ Target(key.action) \in Allowed(h.wf.state)
      /\ key.action \in Actions \ {"register"}
  BY InTurn, KeyTypes DEF Fits
<1>2. /\ Rank(h.wf.state) < 5 /\ h.wf.state # "validated" /\ h.wf.state # "published"
      /\ u.wf.state \in Reached \ {"validated", "published"} /\ Rank(u.wf.state) < 5
  BY <1>1 DEF Turn, Actions, Target, Rank, Reached
<1>3. h.release = None /\ h.current = None /\ h.decision # "reject"
  BY <1>2 DEF Fits, Staged, ReleaseStaged
<1>4. Staged(u)
  BY <1>2, <1>3 DEF Staged, ReleaseStaged
<1>5. ReleaseMoved(h, u)
  BY <1>3 DEF ReleaseMoved
<1>6. CurrentCoherent(u)
  BY <1>3 DEF CurrentCoherent
<1>7. Leads(h.wf.state, <<Target(key.action)>>, u.wf.state)
  BY <1>1 DEF Leads
<1>8. Rank(u.wf.state) = Turn(key.action)
  <2>1. \/ key.action = "acquire" /\ u.wf.state = "acquired"
        \/ key.action = "propose" /\ u.wf.state = "claims_proposed"
        \/ key.action = "reconcile" /\ u.wf.state = "reconciled"
        \/ key.action = "build" /\ u.wf.state = "contract_built"
    BY <1>1 DEF Turn, Actions, Target
  <2>2. /\ Rank("acquired") = 1 /\ Rank("claims_proposed") = 2
        /\ Rank("reconciled") = 3 /\ Rank("contract_built") = 4
    BY DEF Rank
  <2>3. Turn("acquire") = 1 /\ Turn("propose") = 2 /\ Turn("reconcile") = 3 /\ Turn("build") = 4
    BY DEF Turn
  <2> QED
    BY <2>1, <2>2, <2>3
<1> QED
  BY <1>3, <1>4, <1>5, <1>6, <1>7, <1>8 DEF Sound

LEMMA AcquireSound ==
  ASSUME NEW key, NEW h, Fits(key, h), key.action = "acquire", NEW d \in AcquireDrafts(key, h)
  PROVE  Sound(key, h, d)
<1> USE DEF Fits
<1>1. PICK v \in Versions :
        d = [snap |-> [h EXCEPT !.evidence = v, !.wf = Advance(h, key)], path |-> <<"acquired">>]
  BY DEF AcquireDrafts, Draft
<1> DEFINE u == d.snap
<1>2. u \in Snapshots
  BY AcquireDraftType DEF DraftType
<1>3. /\ u.wf = Advance(h, key) /\ u.version = h.version
      /\ u.runtimeResult = h.runtimeResult /\ u.claims = h.claims /\ u.contract = h.contract
      /\ u.decision = h.decision /\ u.projections = h.projections
      /\ u.release = h.release /\ u.current = h.current /\ u.receipts = h.receipts
      /\ d = [snap |-> u, path |-> <<"acquired">>]
  BY <1>1 DEF Snapshots
<1> HIDE DEF u
<1>4. /\ u.wf.state = "acquired" /\ u.wf.keys = h.wf.keys \cup {key} /\ u.wf.runtimes = h.wf.runtimes
      /\ Target(key.action) = "acquired" /\ Turn(key.action) = 1 /\ Rank("acquired") = 1
  BY <1>3, AdvanceFields DEF Target, Turn, Rank
<1>5. Rank(h.wf.state) = 0
  BY <1>4, InTurn
<1>6. NotAhead(u)
  <2>1. \A k \in u.wf.keys : Turn(k.action) <= Rank(u.wf.state)
    BY <1>4, <1>5, Ranks DEF Staged, NotAhead
  <2> QED
    BY <1>3, <1>4, <1>5, <2>1 DEF Staged, NotAhead
<1>7. OnceSetKept(h, u)
  BY <1>2, <1>3, <1>5, OnceFields DEF Staged, NotAhead
<1>8. Sound(key, h, [snap |-> u, path |-> <<Target(key.action)>>])
  BY <1>2, <1>3, <1>4, <1>6, <1>7, EarlySound
<1> QED
  BY <1>3, <1>4, <1>8

LEMMA ProposeSound ==
  ASSUME NEW key, NEW h, Fits(key, h), key.action = "propose", NEW d \in ProposeDrafts(key, h)
  PROVE  Sound(key, h, d)
<1> USE DEF Fits
<1>1. PICK r \in Runtimes :
        d = [snap |-> [h EXCEPT !.runtimeResult = r, !.wf = [Advance(h, key) EXCEPT !.runtimes = {r}]],
             path |-> <<"claims_proposed">>]
  BY DEF ProposeDrafts, Draft
<1> DEFINE u == d.snap
<1>2. u \in Snapshots
  BY ProposeDraftType DEF DraftType
<1>3. /\ u.wf = [Advance(h, key) EXCEPT !.runtimes = {r}] /\ u.version = h.version
      /\ u.runtimeResult = r /\ u.evidence = h.evidence /\ u.claims = h.claims /\ u.contract = h.contract
      /\ u.decision = h.decision /\ u.projections = h.projections
      /\ u.release = h.release /\ u.current = h.current /\ u.receipts = h.receipts
      /\ d = [snap |-> u, path |-> <<"claims_proposed">>]
  BY <1>1 DEF Snapshots
<1> HIDE DEF u
<1>4. /\ u.wf.state = "claims_proposed" /\ u.wf.keys = h.wf.keys \cup {key} /\ u.wf.runtimes = {r}
      /\ Target(key.action) = "claims_proposed" /\ Turn(key.action) = 2 /\ Rank("claims_proposed") = 2
  <2>1. Advance(h, key) \in Workflows
    BY AdvanceType
  <2> QED
    BY <1>3, <2>1, AdvanceFields DEF Target, Turn, Rank, Workflows
<1>5. Rank(h.wf.state) = 1
  BY <1>4, InTurn
<1>6. NotAhead(u)
  <2>1. \A k \in u.wf.keys : Turn(k.action) <= Rank(u.wf.state)
    BY <1>4, <1>5, Ranks DEF Staged, NotAhead
  <2> QED
    BY <1>3, <1>4, <1>5, <2>1 DEF Staged, NotAhead
<1>7. OnceSetKept(h, u)
  BY <1>2, <1>3, <1>5, OnceFields DEF Staged, NotAhead
<1>8. Sound(key, h, [snap |-> u, path |-> <<Target(key.action)>>])
  <2>1. /\ u.receipts = h.receipts /\ u.release = h.release
        /\ u.current = h.current /\ u.decision = h.decision
    BY <1>3
  <2>2. u.wf.state = Target(key.action) /\ u.wf.keys = h.wf.keys \cup {key} /\ Turn(key.action) \in 1..4
    BY <1>4
  <2> QED
    BY <1>2, <1>6, <1>7, <2>1, <2>2, EarlySound
<1> QED
  BY <1>3, <1>4, <1>8

LEMMA ReconcileSound ==
  ASSUME NEW key, NEW h, Fits(key, h), key.action = "reconcile", NEW d \in ReconcileDrafts(key, h)
  PROVE  Sound(key, h, d)
<1> USE DEF Fits
<1>1. d = [snap |-> [h EXCEPT !.claims = h.runtimeResult, !.wf = Advance(h, key)],
           path |-> <<"reconciled">>]
  BY DEF ReconcileDrafts, Draft
<1> DEFINE u == d.snap
<1>2. u \in Snapshots
  BY ReconcileDraftType DEF DraftType
<1>3. /\ u.wf = Advance(h, key) /\ u.version = h.version
      /\ u.runtimeResult = h.runtimeResult /\ u.evidence = h.evidence /\ u.contract = h.contract
      /\ u.decision = h.decision /\ u.projections = h.projections
      /\ u.release = h.release /\ u.current = h.current /\ u.receipts = h.receipts
      /\ d = [snap |-> u, path |-> <<"reconciled">>]
  BY <1>1 DEF Snapshots
<1> HIDE DEF u
<1>4. /\ u.wf.state = "reconciled" /\ u.wf.keys = h.wf.keys \cup {key} /\ u.wf.runtimes = h.wf.runtimes
      /\ Target(key.action) = "reconciled" /\ Turn(key.action) = 3 /\ Rank("reconciled") = 3
  BY <1>3, AdvanceFields DEF Target, Turn, Rank
<1>5. Rank(h.wf.state) = 2
  BY <1>4, InTurn
<1>6. NotAhead(u)
  <2>1. \A k \in u.wf.keys : Turn(k.action) <= Rank(u.wf.state)
    BY <1>4, <1>5, Ranks DEF Staged, NotAhead
  <2> QED
    BY <1>3, <1>4, <1>5, <2>1 DEF Staged, NotAhead
<1>7. OnceSetKept(h, u)
  BY <1>2, <1>3, <1>5, OnceFields DEF Staged, NotAhead
<1>8. Sound(key, h, [snap |-> u, path |-> <<Target(key.action)>>])
  BY <1>2, <1>3, <1>4, <1>6, <1>7, EarlySound
<1> QED
  BY <1>3, <1>4, <1>8

LEMMA BuildSound ==
  ASSUME NEW key, NEW h, Fits(key, h), key.action = "build", NEW d \in BuildDrafts(key, h)
  PROVE  Sound(key, h, d)
<1> USE DEF Fits
<1>1. d = [snap |-> [h EXCEPT !.contract = key.payload, !.wf = Advance(h, key)],
           path |-> <<"contract_built">>]
  BY DEF BuildDrafts, Draft
<1> DEFINE u == d.snap
<1>2. u \in Snapshots
  BY BuildDraftType DEF DraftType
<1>3. /\ u.wf = Advance(h, key) /\ u.version = h.version
      /\ u.runtimeResult = h.runtimeResult /\ u.evidence = h.evidence /\ u.claims = h.claims
      /\ u.decision = h.decision /\ u.projections = h.projections
      /\ u.release = h.release /\ u.current = h.current /\ u.receipts = h.receipts
      /\ d = [snap |-> u, path |-> <<"contract_built">>]
  BY <1>1 DEF Snapshots
<1> HIDE DEF u
<1>4. /\ u.wf.state = "contract_built" /\ u.wf.keys = h.wf.keys \cup {key} /\ u.wf.runtimes = h.wf.runtimes
      /\ Target(key.action) = "contract_built" /\ Turn(key.action) = 4 /\ Rank("contract_built") = 4
  BY <1>3, AdvanceFields DEF Target, Turn, Rank
<1>5. Rank(h.wf.state) = 3
  BY <1>4, InTurn
<1>6. NotAhead(u)
  <2>1. \A k \in u.wf.keys : Turn(k.action) <= Rank(u.wf.state)
    BY <1>4, <1>5, Ranks DEF Staged, NotAhead
  <2> QED
    BY <1>3, <1>4, <1>5, <2>1 DEF Staged, NotAhead
<1>7. OnceSetKept(h, u)
  BY <1>2, <1>3, <1>5, OnceFields DEF Staged, NotAhead
<1>8. Sound(key, h, [snap |-> u, path |-> <<Target(key.action)>>])
  BY <1>2, <1>3, <1>4, <1>6, <1>7, EarlySound
<1> QED
  BY <1>3, <1>4, <1>8

\* A rejection ends the work: there is no release and no further stage.
LEMMA RejectSound ==
  ASSUME NEW key, NEW h, Fits(key, h), key.action = "validate"
  PROVE  Sound(key, h, RejectDraft(key, h))
<1> USE DEF Fits
<1> DEFINE u == [h EXCEPT !.decision = "reject", !.wf = Advance(h, key)]
<1>1. RejectDraft(key, h) = [snap |-> u, path |-> <<"validated">>]
  BY DEF RejectDraft, Draft
<1>2. u \in Snapshots
  BY AdvanceType DEF Snapshots, Options, Verdicts
<1>3. /\ u.wf = Advance(h, key) /\ u.version = h.version /\ u.decision = "reject"
      /\ u.runtimeResult = h.runtimeResult /\ u.evidence = h.evidence /\ u.claims = h.claims
      /\ u.contract = h.contract /\ u.projections = h.projections
      /\ u.release = h.release /\ u.current = h.current /\ u.receipts = h.receipts
  BY DEF Snapshots
<1> HIDE DEF u
<1>4. /\ u.wf.state = "validated" /\ u.wf.keys = h.wf.keys \cup {key} /\ u.wf.runtimes = h.wf.runtimes
      /\ Target(key.action) = "validated" /\ Turn(key.action) = 5 /\ Rank("validated") = 5
  BY <1>3, AdvanceFields DEF Target, Turn, Rank
<1>5. Rank(h.wf.state) = 4 /\ "validated" \in Allowed(h.wf.state)
  BY <1>4, InTurn
<1>6. NotAhead(u)
  <2>1. \A k \in u.wf.keys : Turn(k.action) <= Rank(u.wf.state)
    BY <1>4, <1>5, Ranks DEF Staged, NotAhead
  <2> QED
    BY <1>3, <1>4, <1>5, <2>1 DEF Staged, NotAhead
<1>7. OnceSetKept(h, u)
  BY <1>2, <1>3, <1>5, OnceFields DEF Staged, NotAhead
<1>8. h.release = None /\ h.current = None
  BY <1>5 DEF Staged, ReleaseStaged, Rank
<1>9. Staged(u)
  BY <1>3, <1>4, <1>6, <1>8 DEF Staged, ReleaseStaged, Reached
<1>10. ReleaseMoved(h, u) /\ CurrentCoherent(u)
  BY <1>3, <1>8 DEF ReleaseMoved, CurrentCoherent
<1>11. Leads(h.wf.state, <<"validated">>, u.wf.state)
  BY <1>4, <1>5 DEF Leads
<1> QED
  BY <1>1, <1>3, <1>4, <1>7, <1>8, <1>9, <1>10, <1>11 DEF Sound

\* Any other verdict makes a candidate and is routed on at once.
LEMMA CandidateSound ==
  ASSUME NEW key, NEW h, Fits(key, h), key.action = "validate", h.contract # None,
         NEW v \in Verdicts \ {"reject"}
  PROVE  Sound(key, h, CandidateDraft(key, h, v))
<1> USE DEF Fits
<1> DEFINE art  == {"validation_decision", "candidate_release", "projections"}
           wf1  == Transition(h.wf, "validated", key, art)
           wf2  == Transition(wf1, Route(v), key, {})
           rel  == MakeCandidate(h, v)
           u    == [h EXCEPT !.decision = v, !.projections = key.payload, !.release = rel, !.wf = wf2]
<1>1. CandidateDraft(key, h, v) = [snap |-> u, path |-> <<"validated", Route(v)>>]
  BY DEF CandidateDraft, Draft
<1>2. u \in Snapshots
  BY <1>1, ValidateDraftType DEF ValidateDrafts, DraftType
<1>3. rel \in Releases
  BY CandidateType
<1>4. /\ rel.status = "candidate" /\ rel.contract = h.contract /\ rel.runtimes = h.wf.runtimes
      /\ rel # None
  BY <1>3, NoneAssumption DEF MakeCandidate
<1>5. /\ wf2.state = Route(v) /\ wf2.keys = h.wf.keys \cup {key} /\ wf2.runtimes = h.wf.runtimes
  BY DEF Transition, Snapshots, Workflows
<1> HIDE DEF wf2, rel
<1>6. /\ u.wf = wf2 /\ u.version = h.version /\ u.decision = v
      /\ u.runtimeResult = h.runtimeResult /\ u.evidence = h.evidence /\ u.claims = h.claims
      /\ u.contract = h.contract /\ u.release = rel /\ u.current = h.current /\ u.receipts = h.receipts
  BY DEF Snapshots
<1> HIDE DEF u
<1>7. /\ Target(key.action) = "validated" /\ Turn(key.action) = 5
      /\ Route(v) \in {"review_required", "approval_ready"} /\ Rank(Route(v)) = 5
  BY DEF Target, Turn, Rank, Route
<1>8. Rank(h.wf.state) = 4 /\ "validated" \in Allowed(h.wf.state)
  BY <1>7, InTurn
<1>9. NotAhead(u)
  <2>1. \A k \in u.wf.keys : Turn(k.action) <= Rank(u.wf.state)
    BY <1>5, <1>6, <1>7, <1>8, Ranks DEF Staged, NotAhead
  <2> QED
    BY <1>5, <1>6, <1>7, <1>8, <2>1 DEF Staged, NotAhead
<1>10. OnceSetKept(h, u)
  BY <1>2, <1>6, <1>8, OnceFields DEF Staged, NotAhead
<1>11. h.release = None /\ h.current = None
  BY <1>8 DEF Staged, ReleaseStaged, Rank
<1>12. ReleaseStaged(u)
  BY <1>4, <1>5, <1>6, <1>7, <1>11 DEF ReleaseStaged
<1>13. Staged(u)
  BY <1>5, <1>6, <1>7, <1>9, <1>12 DEF Staged, Reached
<1>14. ReleaseMoved(h, u) /\ CurrentCoherent(u)
  BY <1>4, <1>6, <1>11 DEF ReleaseMoved, CurrentCoherent
<1>15. Leads(h.wf.state, <<"validated", Route(v)>>, u.wf.state)
  <2>1. "validated" \in Stages /\ Route(v) \in Allowed("validated") /\ u.wf.state = Route(v)
    BY <1>5, <1>6, <1>7 DEF Stages, Allowed
  <2> QED
    BY <1>8, <2>1 DEF Leads
<1> QED
  BY <1>1, <1>5, <1>6, <1>7, <1>10, <1>11, <1>13, <1>14, <1>15 DEF Sound

LEMMA ApproveSound ==
  ASSUME NEW key, NEW h, Fits(key, h), key.action = "approve", h.release # None,
         NEW d \in ApproveDrafts(key, h)
  PROVE  Sound(key, h, d)
<1> USE DEF Fits
<1>1. PICK a \in Approvals :
        /\ MayApprove(h.release, a)
        /\ d = [snap |-> [h EXCEPT !.release = ApproveRelease(h.release, a), !.wf = Advance(h, key)],
                path |-> <<"approved">>]
  BY DEF ApproveDrafts, Draft
<1> DEFINE u == d.snap
<1>2. u \in Snapshots
  BY ApproveDraftType DEF DraftType
<1>3. /\ u.wf = Advance(h, key) /\ u.version = h.version /\ u.decision = h.decision
      /\ u.runtimeResult = h.runtimeResult /\ u.evidence = h.evidence /\ u.claims = h.claims
      /\ u.contract = h.contract /\ u.projections = h.projections
      /\ u.release = ApproveRelease(h.release, a) /\ u.current = h.current /\ u.receipts = h.receipts
      /\ d = [snap |-> u, path |-> <<"approved">>]
  BY <1>1 DEF Snapshots
<1> HIDE DEF u
<1>4. /\ u.wf.state = "approved" /\ u.wf.keys = h.wf.keys \cup {key} /\ u.wf.runtimes = h.wf.runtimes
      /\ Target(key.action) = "approved" /\ Turn(key.action) = 6 /\ Rank("approved") = 6
  BY <1>3, AdvanceFields DEF Target, Turn, Rank
<1>5. Rank(h.wf.state) = 5 /\ "approved" \in Allowed(h.wf.state)
  BY <1>4, InTurn
<1>6. h.wf.state \in {"review_required", "approval_ready"}
  BY <1>5 DEF Staged, Reached, Rank, Allowed
<1>7. NotAhead(u)
  <2>1. \A k \in u.wf.keys : Turn(k.action) <= Rank(u.wf.state)
    BY <1>4, <1>5, Ranks DEF Staged, NotAhead
  <2> QED
    BY <1>3, <1>4, <1>5, <2>1 DEF Staged, NotAhead
<1>8. OnceSetKept(h, u)
  BY <1>2, <1>3, OnceFields
<1>9. h.release \in Releases
  BY DEF Snapshots, Options
<1>10. /\ h.release.status = "candidate" /\ h.release.contract = h.contract
       /\ h.release.runtimes = h.wf.runtimes /\ h.current = None /\ h.decision # "reject"
  BY <1>6 DEF Staged, ReleaseStaged
<1>11. /\ u.release \in Releases /\ u.release.status = "approved" /\ u.release.contract = h.contract
       /\ u.release.runtimes = h.wf.runtimes /\ u.release.approvedBy \in Approvers \ h.wf.runtimes
  BY <1>1, <1>3, <1>9, <1>10 DEF ApproveRelease, MayApprove, Releases, Approvals, Options
<1>12. u.release # None
  BY <1>11, NoneAssumption
<1>13. ReleaseStaged(u)
  BY <1>3, <1>4, <1>10, <1>11, <1>12 DEF ReleaseStaged
<1>14. ReleaseMoved(h, u) /\ CurrentCoherent(u)
  BY <1>3, <1>10, <1>11 DEF ReleaseMoved, CurrentCoherent, ReleaseMoves
<1>15. Leads(h.wf.state, <<"approved">>, u.wf.state)
  BY <1>4, <1>5 DEF Leads
<1>16. Staged(u)
  BY <1>4, <1>7, <1>13 DEF Staged, Reached
<1> QED
  BY <1>3, <1>4, <1>8, <1>14, <1>15, <1>16 DEF Sound

LEMMA PublishSound ==
  ASSUME NEW key, NEW h, Fits(key, h), key.action = "publish", h.release # None,
         NEW d \in PublishDrafts(key, h)
  PROVE  /\ Sound(key, h, d)
         /\ h.wf.state = "approved" /\ SinkAccepts(h)
         /\ d.snap.release.refs = Address(h)
         /\ d.snap.contract = h.contract /\ d.snap.projections = h.projections
<1> USE DEF Fits
<1> DEFINE rel == PublishRelease(h.release, Address(h))
<1>1. /\ SinkAccepts(h)
      /\ d = [snap |-> [h EXCEPT !.release = rel,
                                 !.current = [contract |-> rel.contract, status |-> rel.status],
                                 !.wf      = Advance(h, key)],
              path |-> <<"published">>]
  BY DEF PublishDrafts, Draft
<1> DEFINE u == d.snap
<1>2. u \in Snapshots
  BY PublishDraftType DEF DraftType
<1>3. /\ u.wf = Advance(h, key) /\ u.version = h.version /\ u.decision = h.decision
      /\ u.runtimeResult = h.runtimeResult /\ u.evidence = h.evidence /\ u.claims = h.claims
      /\ u.contract = h.contract /\ u.projections = h.projections
      /\ u.release = rel /\ u.current = [contract |-> rel.contract, status |-> rel.status]
      /\ u.receipts = h.receipts /\ d = [snap |-> u, path |-> <<"published">>]
  BY <1>1 DEF Snapshots
<1> HIDE DEF u
<1>4. /\ u.wf.state = "published" /\ u.wf.keys = h.wf.keys \cup {key} /\ u.wf.runtimes = h.wf.runtimes
      /\ Target(key.action) = "published" /\ Turn(key.action) = 7 /\ Rank("published") = 7
  BY <1>3, AdvanceFields DEF Target, Turn, Rank
<1>5. Rank(h.wf.state) = 6 /\ "published" \in Allowed(h.wf.state)
  BY <1>4, InTurn
<1>6. h.wf.state = "approved"
  BY <1>5 DEF Staged, Reached, Rank
<1>7. NotAhead(u)
  <2>1. \A k \in u.wf.keys : Turn(k.action) <= Rank(u.wf.state)
    BY <1>4, <1>5, Ranks DEF Staged, NotAhead
  <2> QED
    BY <1>3, <1>4, <1>5, <2>1 DEF Staged, NotAhead
<1>8. OnceSetKept(h, u)
  BY <1>2, <1>3, OnceFields
<1>9. h.release \in Releases
  BY DEF Snapshots, Options
<1>10. /\ h.release.status = "approved" /\ h.release.contract = h.contract
       /\ h.release.runtimes = h.wf.runtimes /\ h.current = None /\ h.decision # "reject"
       /\ h.release.approvedBy \in Approvers \ h.wf.runtimes
  BY <1>6 DEF Staged, ReleaseStaged
<1>11. /\ rel \in Releases /\ rel.status = "published" /\ rel.contract = h.contract
       /\ rel.runtimes = h.wf.runtimes /\ rel.approvedBy \in Approvers \ h.wf.runtimes
       /\ rel.refs = Address(h)
  BY <1>9, <1>10, AddressType DEF PublishRelease, Releases, Options
<1>12. rel # None
  BY <1>11, NoneAssumption
<1> HIDE DEF rel
<1>13. ReleaseStaged(u)
  BY <1>3, <1>4, <1>10, <1>11, <1>12 DEF ReleaseStaged
<1>14. ReleaseMoved(h, u)
  BY <1>3, <1>10, <1>11 DEF ReleaseMoved, ReleaseMoves
<1>15. CurrentCoherent(u)
  <2>1. rel.contract \in Metadata
    BY <1>11 DEF Releases
  <2>2. u.current \in Pointers
    BY <1>3, <1>11, <2>1 DEF Pointers
  <2>3. u.current # None
    BY <2>2, NoneAssumption
  <2> QED
    BY <1>3, <1>11, <1>12, <2>3 DEF CurrentCoherent
<1>16. Leads(h.wf.state, <<"published">>, u.wf.state)
  BY <1>4, <1>5 DEF Leads
<1>17. Staged(u)
  BY <1>4, <1>7, <1>13 DEF Staged, Reached
<1> QED
  BY <1>1, <1>3, <1>4, <1>6, <1>8, <1>10, <1>11, <1>14, <1>15, <1>16, <1>17 DEF Sound, u

LEMMA DraftSound ==
  ASSUME NEW key, NEW h, Fits(key, h), NEW d \in Drafts(key, h)
  PROVE  Sound(key, h, d)
<1> Inputs(key, h)
  BY DEF Drafts
<1>1. CASE key.action = "acquire"
  BY <1>1, AcquireSound DEF Drafts
<1>2. CASE key.action = "propose"
  BY <1>2, ProposeSound DEF Drafts
<1>3. CASE key.action = "reconcile"
  BY <1>3, ReconcileSound DEF Drafts
<1>4. CASE key.action = "build"
  BY <1>4, BuildSound DEF Drafts
<1>5. CASE key.action = "validate"
  <2>1. h.contract # None /\ d \in ValidateDrafts(key, h)
    BY <1>5 DEF Drafts, Inputs
  <2> QED
    BY <1>5, <2>1, RejectSound, CandidateSound DEF ValidateDrafts
<1>6. CASE key.action = "approve"
  <2>1. h.release # None /\ d \in ApproveDrafts(key, h)
    BY <1>6 DEF Drafts, Inputs
  <2> QED
    BY <1>6, <2>1, ApproveSound
<1>7. CASE key.action = "publish"
  <2>1. h.release # None /\ d \in PublishDrafts(key, h)
    BY <1>7 DEF Drafts, Inputs
  <2> QED
    BY <1>7, <2>1, PublishSound
<1> QED
  BY <1>1, <1>2, <1>3, <1>4, <1>5, <1>6, <1>7, KeyTypes DEF Fits, Actions

LEMMA RegisterSound ==
  ASSUME NEW key \in Keys, key.action = "register", NEW h, NEW d \in Drafts(key, h)
  PROVE  /\ Staged(d.snap) /\ CurrentCoherent(d.snap)
         /\ d.snap.wf.keys = {key} /\ d.snap.receipts = <<>>
         /\ d.snap.decision = None /\ d.snap.current = None /\ d.snap.release = None
         /\ d.snap.wf.state = "registered" /\ d.path = <<"registered">>
<1>1. d = [snap |-> NewSnapshot(key), path |-> <<"registered">>]
  BY DEF Drafts, Inputs, RegisterDrafts, Draft
<1> DEFINE u == d.snap
<1>2. /\ u.wf.state = "registered" /\ u.wf.keys = {key} /\ u.wf.runtimes = {} /\ u.receipts = <<>>
      /\ u.evidence = None /\ u.runtimeResult = None /\ u.claims = None /\ u.contract = None
      /\ u.decision = None /\ u.projections = None /\ u.release = None /\ u.current = None
      /\ d.path = <<"registered">>
  BY <1>1 DEF NewSnapshot
<1> HIDE DEF u
<1>3. Rank("registered") = 0 /\ Turn(key.action) = 0
  BY DEF Rank, Turn
<1>4. NotAhead(u)
  BY <1>2, <1>3 DEF NotAhead
<1>5. ReleaseStaged(u)
  BY <1>2, <1>3, NoneAssumption DEF ReleaseStaged, Verdicts
<1> QED
  BY <1>2, <1>4, <1>5 DEF Staged, Reached, CurrentCoherent, u

-----------------------------------------------------------------------------
(* The invariant.                                                          *)

SnapshotsStaged == \A s \in SourceSets : snapshot[s] # None => Staged(snapshot[s])

\* What a caller has found out on its way holds of the snapshot it captured.
CommandsFit ==
  \A c \in Callers :
    /\ pc[c] \in Inside /\ held[c] # None => cmd[c] \notin held[c].wf.keys
    /\ pc[c] \in Inside /\ cmd[c].action # "register" => held[c] # None
    /\ pc[c] \in {"calling", "ready"} => Admitted(cmd[c], held[c])
    /\ pc[c] = "ready" => draft[c] \in Drafts(cmd[c], held[c])

\* The artifacts of a publication are stored before it is committed.
StoredFirst ==
  \A c \in Callers :
    pc[c] = "ready" /\ cmd[c].action = "publish" => Address(held[c]) \in publications

LifecycleInv ==
  /\ TypeInv /\ FenceInv /\ SnapshotsStaged /\ CommandsFit
  /\ AuditTrailIsPath /\ PublicationsAreApproved /\ StoredFirst

LEMMA InsideFits ==
  ASSUME LifecycleInv, NEW c \in Callers, pc[c] \in {"calling", "ready"}
  PROVE  /\ cmd[c] \in Keys /\ cmd[c].ss \in SourceSets
         /\ held[c] = snapshot[cmd[c].ss]
         /\ cmd[c].action # "register" => Fits(cmd[c], held[c])
         /\ cmd[c].action = "register" => held[c] = None
<1>1. cmd[c] \in Keys /\ cmd[c].ss \in SourceSets /\ pc[c] \in Inside
  BY CommandKnown, TypeInvParts DEF LifecycleInv, Inside
<1>2. held[c] = snapshot[cmd[c].ss]
  BY <1>1 DEF LifecycleInv, FenceInv, HeldIsCurrent
<1>3. cmd[c].action = "register" => held[c] = None
  BY DEF LifecycleInv, CommandsFit, Admitted
<1>4. held[c] # None => held[c] \in Snapshots /\ Staged(held[c])
  BY <1>1, <1>2 DEF LifecycleInv, TypeInv, TypeOK, Options, SnapshotsStaged
<1>5. cmd[c].action # "register" => Fits(cmd[c], held[c])
  BY <1>1, <1>4 DEF LifecycleInv, CommandsFit, Fits
<1> QED
  BY <1>1, <1>2, <1>3, <1>5

LEMMA WithReceiptFields ==
  ASSUME NEW key, NEW snap \in Snapshots
  PROVE  LET new == WithReceipt(key, snap) IN
         /\ new.wf = snap.wf /\ new.evidence = snap.evidence /\ new.runtimeResult = snap.runtimeResult
         /\ new.claims = snap.claims /\ new.contract = snap.contract /\ new.decision = snap.decision
         /\ new.projections = snap.projections /\ new.release = snap.release /\ new.current = snap.current
         /\ Staged(snap) => Staged(new)
<1> DEFINE new == WithReceipt(key, snap)
<1>1. /\ new.wf = snap.wf /\ new.evidence = snap.evidence /\ new.runtimeResult = snap.runtimeResult
      /\ new.claims = snap.claims /\ new.contract = snap.contract /\ new.decision = snap.decision
      /\ new.projections = snap.projections /\ new.release = snap.release /\ new.current = snap.current
  BY DEF WithReceipt, Snapshots
<1> HIDE DEF new
<1>2. Staged(snap) => Staged(new)
  BY <1>1 DEF Staged, NotAhead, ReleaseStaged
<1> QED
  BY <1>1, <1>2 DEF new

-----------------------------------------------------------------------------
(* A commit is never refused.                                              *)

LEMMA ReadyIsValid ==
  ASSUME LifecycleInv, NEW c \in Callers, pc[c] = "ready"
  PROVE  ValidChange(cmd[c].ss, cmd[c], held[c], draft[c])
<1> DEFINE key == cmd[c]
           h   == held[c]
           d   == draft[c]
           s   == cmd[c].ss
<1>1. /\ key \in Keys /\ s \in SourceSets /\ h = snapshot[s] /\ d \in Drafts(key, h)
      /\ key.action # "register" => Fits(key, h)
      /\ key.action = "register" => h = None
  BY InsideFits DEF LifecycleInv, CommandsFit
<1>2. CASE key.action = "register"
  <2>1. /\ CurrentCoherent(d.snap) /\ d.snap.wf.keys = {key} /\ d.snap.receipts = <<>> /\ h = None
    BY <1>1, <1>2, RegisterSound
  <2>2. events[s] = <<>>
    BY <1>1, <2>1 DEF LifecycleInv, AuditTrailIsPath
  <2>3. ReceiptKeys(d.snap) = {} /\ Range(events[s]) = {}
    BY <2>1, <2>2 DEF ReceiptKeys, Range
  <2> QED
    BY <2>1, <2>3 DEF ValidChange
<1>3. CASE key.action # "register"
  <2>1. Fits(key, h) /\ Sound(key, h, d) /\ h # None
    BY <1>1, <1>3, DraftSound, NoneAssumption DEF Fits
  <2>2. ReceiptKeys(h) = h.wf.keys /\ key \notin h.wf.keys
    BY <1>1, <2>1 DEF LifecycleInv, TypeInv, ReceiptsMatchKeys, Fits
  <2>3. ReceiptKeys(d.snap) = ReceiptKeys(h)
    BY <2>1 DEF ReceiptKeys, Sound
  <2>4. {e.key : e \in Range(events[s])} = h.wf.keys
    BY <1>1, <2>1 DEF LifecycleInv, AuditTrailIsPath
  <2>5. \A stage : [key |-> key, stage |-> stage] \notin Range(events[s])
    BY <2>2, <2>4
  <2> QED
    BY <2>1, <2>2, <2>3, <2>5 DEF ValidChange, Sound
<1> QED
  BY <1>2, <1>3

LEMMA ReadyApplies ==
  ASSUME LifecycleInv, NEW c \in Callers, pc[c] = "ready"
  PROVE  CommitOutcome(cmd[c].ss, cmd[c], c) = "applied"
<1>1. OwnsFence(cmd[c].ss, cmd[c], c) /\ snapshot[cmd[c].ss] = held[c]
  BY DEF LifecycleInv, FenceInv, FenceExclusive, HeldIsCurrent, Inside
<1> QED
  BY <1>1, ReadyIsValid DEF CommitOutcome

-----------------------------------------------------------------------------
(* The steps.  A commit is the only one that changes an aggregate.         *)

Trail(log, wf) ==
  /\ Len(log) > 0 /\ log[1].stage = "registered"
  /\ \A i \in 1..(Len(log) - 1) : log[i + 1].stage \in Allowed(log[i].stage)
  /\ log[Len(log)].stage = wf.state
  /\ {e.key : e \in Range(log)} = wf.keys

AuditOf(s) == IF snapshot[s] = None THEN events[s] = <<>> ELSE Trail(events[s], snapshot[s].wf)

LEMMA Audits == AuditTrailIsPath <=> \A s \in SourceSets : AuditOf(s)
BY DEF AuditTrailIsPath, AuditOf, Trail

Entries(key, path) == [i \in 1..Len(path) |-> [key |-> key, stage |-> path[i]]]

LEMMA EntriesOf ==
  ASSUME NEW key \in Keys, NEW path \in Seq(Stages), Len(path) > 0
  PROVE  /\ Entries(key, path) \in Seq([key: Keys, stage: Stages])
         /\ Len(Entries(key, path)) = Len(path)
         /\ \A i \in 1..Len(path) : Entries(key, path)[i].stage = path[i]
         /\ {e.key : e \in Range(Entries(key, path))} = {key}
<1>1. Entries(key, path) \in Seq([key: Keys, stage: Stages]) /\ Len(Entries(key, path)) = Len(path)
  BY DEF Entries
<1>2. \A i \in 1..Len(path) : Entries(key, path)[i] = [key |-> key, stage |-> path[i]]
  BY DEF Entries
<1>3. DOMAIN Entries(key, path) = 1..Len(path)
  BY DEF Entries
<1>4. \A e \in Range(Entries(key, path)) : e.key = key
  BY <1>2, <1>3 DEF Range
<1>5. Entries(key, path)[1] \in Range(Entries(key, path)) /\ Entries(key, path)[1].key = key
  <2>1. 1 \in 1..Len(path)
    OBVIOUS
  <2> QED
    BY <2>1, <1>2, <1>3 DEF Range
<1>6. {e.key : e \in Range(Entries(key, path))} = {key}
  BY <1>4, <1>5
<1>7. ASSUME NEW i \in 1..Len(path)
      PROVE  Entries(key, path)[i].stage = path[i]
  <2> DEFINE entry == [key |-> key, stage |-> path[i]]
  <2>1. Entries(key, path)[i] = entry
    BY <1>2
  <2>2. entry.stage = path[i]
    OBVIOUS
  <2> QED
    BY <2>1, <2>2
<1> QED
  BY <1>1, <1>6, <1>7

\* A trail goes on where it ended.
LEMMA TrailGoesOn ==
  ASSUME NEW log \in Seq([key: Keys, stage: Stages]), NEW tail \in Seq([key: Keys, stage: Stages]),
         Len(log) > 0, Len(tail) > 0, log[1].stage = "registered",
         \A i \in 1..(Len(log) - 1) : log[i + 1].stage \in Allowed(log[i].stage),
         tail[1].stage \in Allowed(log[Len(log)].stage),
         \A i \in 1..(Len(tail) - 1) : tail[i + 1].stage \in Allowed(tail[i].stage)
  PROVE  LET new == log \o tail IN
         /\ Len(new) > 0 /\ new[1].stage = "registered"
         /\ \A i \in 1..(Len(new) - 1) : new[i + 1].stage \in Allowed(new[i].stage)
         /\ new[Len(new)] = tail[Len(tail)]
         /\ Range(new) = Range(log) \cup Range(tail)
<1> DEFINE new == log \o tail
<1>1. /\ new \in Seq([key: Keys, stage: Stages]) /\ Len(new) = Len(log) + Len(tail)
      /\ \A i \in 1..Len(log) : new[i] = log[i]
      /\ \A i \in 1..Len(tail) : new[Len(log) + i] = tail[i]
      /\ Len(log) \in Nat /\ Len(tail) \in Nat
  BY ConcatProperties
<1>2. DOMAIN new = 1..Len(new) /\ DOMAIN log = 1..Len(log) /\ DOMAIN tail = 1..Len(tail)
  OBVIOUS
<1> HIDE DEF new
<1>3. new[1].stage = "registered" /\ new[Len(new)] = tail[Len(tail)]
  BY <1>1
<1>4. ASSUME NEW i \in 1..(Len(new) - 1)
      PROVE  new[i + 1].stage \in Allowed(new[i].stage)
  <2>1. CASE i < Len(log)
    <3>1. i \in 1..(Len(log) - 1) /\ i \in 1..Len(log) /\ i + 1 \in 1..Len(log)
      BY <1>1, <2>1
    <3> QED
      BY <1>1, <3>1
  <2>2. CASE i = Len(log)
    <3>1. 1 \in 1..Len(tail) /\ i \in 1..Len(log)
      BY <1>1, <2>2
    <3>2. new[i + 1] = tail[1] /\ new[i] = log[Len(log)]
      BY <1>1, <2>2, <3>1
    <3> QED
      BY <3>2
  <2>3. CASE i > Len(log)
    <3> DEFINE j == i - Len(log)
    <3>1. j \in 1..(Len(tail) - 1) /\ j \in 1..Len(tail) /\ j + 1 \in 1..Len(tail)
          /\ i = Len(log) + j /\ i + 1 = Len(log) + (j + 1)
      BY <1>1, <2>3
    <3> HIDE DEF j
    <3>2. new[i] = tail[j] /\ new[i + 1] = tail[j + 1]
      BY <1>1, <3>1
    <3> QED
      BY <3>1, <3>2
  <2> QED
    BY <1>1, <2>1, <2>2, <2>3
<1>5. Range(new) = Range(log) \cup Range(tail)
  <2>1. ASSUME NEW x \in Range(new)
        PROVE  x \in Range(log) \cup Range(tail)
    <3>1. PICK i \in 1..Len(new) : x = new[i]
      BY <1>2 DEF Range
    <3>2. CASE i \in 1..Len(log)
      BY <1>1, <1>2, <3>1, <3>2 DEF Range
    <3>3. CASE i \notin 1..Len(log)
      <4> DEFINE j == i - Len(log)
      <4>1. j \in 1..Len(tail) /\ i = Len(log) + j
        BY <1>1, <3>3
      <4> HIDE DEF j
      <4> QED
        BY <1>1, <1>2, <3>1, <4>1 DEF Range
    <3> QED
      BY <3>2, <3>3
  <2>2. ASSUME NEW x \in Range(log)
        PROVE  x \in Range(new)
    <3>1. PICK i \in 1..Len(log) : x = log[i]
      BY <1>2 DEF Range
    <3>2. i \in 1..Len(new)
      BY <1>1
    <3> QED
      BY <1>1, <1>2, <3>1, <3>2 DEF Range
  <2>3. ASSUME NEW x \in Range(tail)
        PROVE  x \in Range(new)
    <3>1. PICK i \in 1..Len(tail) : x = tail[i]
      BY <1>2 DEF Range
    <3>2. Len(log) + i \in 1..Len(new)
      BY <1>1
    <3> QED
      BY <1>1, <1>2, <3>1, <3>2 DEF Range
  <2> QED
    BY <2>1, <2>2, <2>3
<1> QED
  BY <1>1, <1>3, <1>4, <1>5 DEF new

LEMMA TrailStarts ==
  ASSUME NEW key \in Keys, NEW path, path = <<"registered">>,
         NEW wf, wf.state = "registered", wf.keys = {key}
  PROVE  Trail(<<>> \o Entries(key, path), wf)
<1> DEFINE log == Entries(key, path)
<1>1. path \in Seq(Stages) /\ Len(path) = 1 /\ Len(path) > 0 /\ path[1] = "registered"
  BY DEF Stages
<1>2. /\ log \in Seq([key: Keys, stage: Stages]) /\ Len(log) = 1
      /\ \A i \in 1..Len(path) : log[i].stage = path[i]
      /\ {e.key : e \in Range(log)} = {key}
  BY <1>1, EntriesOf
<1>3. log[1].stage = "registered"
  BY <1>1, <1>2
<1>4. <<>> \o log = log
  BY <1>2, ConcatEmptySeq
<1> HIDE DEF log
<1>5. Trail(log, wf)
  BY <1>2, <1>3 DEF Trail
<1> QED
  BY <1>4, <1>5 DEF log

LEMMA PathOf ==
  ASSUME NEW from, NEW path, NEW to \in Stages, Leads(from, path, to)
  PROVE  /\ path \in Seq(Stages) /\ Len(path) > 0 /\ path[1] \in Allowed(from) /\ path[Len(path)] = to
         /\ \A i \in 1..(Len(path) - 1) : path[i + 1] \in Allowed(path[i])
<1>1. CASE path = <<to>> /\ to \in Allowed(from)
  BY <1>1
<1>2. ASSUME NEW mid \in Stages, path = <<mid, to>>, mid \in Allowed(from), to \in Allowed(mid)
      PROVE  /\ path \in Seq(Stages) /\ Len(path) > 0 /\ path[1] \in Allowed(from) /\ path[Len(path)] = to
             /\ \A i \in 1..(Len(path) - 1) : path[i + 1] \in Allowed(path[i])
  <2>1. Len(path) = 2 /\ path[1] = mid /\ path[2] = to /\ path \in Seq(Stages)
    BY <1>2
  <2> QED
    BY <1>2, <2>1
<1> QED
  BY <1>1, <1>2 DEF Leads

LEMMA TrailAppends ==
  ASSUME NEW log \in Seq([key: Keys, stage: Stages]), NEW key \in Keys, NEW wf, NEW next, NEW path,
         Trail(log, wf), next.state \in Stages, Leads(wf.state, path, next.state),
         next.keys = wf.keys \cup {key}
  PROVE  Trail(log \o Entries(key, path), next)
<1> DEFINE tail == Entries(key, path)
<1>1. /\ path \in Seq(Stages) /\ Len(path) > 0 /\ path[1] \in Allowed(wf.state)
      /\ path[Len(path)] = next.state
      /\ \A i \in 1..(Len(path) - 1) : path[i + 1] \in Allowed(path[i])
  BY PathOf
<1>2. /\ tail \in Seq([key: Keys, stage: Stages]) /\ Len(tail) = Len(path)
      /\ \A i \in 1..Len(path) : tail[i].stage = path[i]
      /\ {e.key : e \in Range(tail)} = {key}
  BY <1>1, EntriesOf
<1> HIDE DEF tail
<1>3. Len(path) \in Nat /\ 1 \in 1..Len(path) /\ Len(path) \in 1..Len(path)
  BY <1>1
<1>4. tail[1].stage \in Allowed(log[Len(log)].stage) /\ tail[Len(tail)].stage = next.state
  BY <1>1, <1>2, <1>3 DEF Trail
<1>5. ASSUME NEW i \in 1..(Len(tail) - 1)
      PROVE  tail[i + 1].stage \in Allowed(tail[i].stage)
  <2>1. i \in 1..Len(path) /\ i + 1 \in 1..Len(path) /\ i \in 1..(Len(path) - 1)
    BY <1>2, <1>3
  <2> QED
    BY <1>1, <1>2, <2>1
<1>6. /\ log \in Seq([key: Keys, stage: Stages]) /\ Len(log) > 0 /\ log[1].stage = "registered"
      /\ \A i \in 1..(Len(log) - 1) : log[i + 1].stage \in Allowed(log[i].stage)
      /\ log[Len(log)].stage = wf.state /\ {e.key : e \in Range(log)} = wf.keys
  BY DEF Trail
<1>8. Len(tail) > 0
  BY <1>1, <1>2
<1>9. /\ Len(log \o tail) > 0 /\ (log \o tail)[1].stage = "registered"
      /\ \A i \in 1..(Len(log \o tail) - 1) : (log \o tail)[i + 1].stage \in Allowed((log \o tail)[i].stage)
      /\ (log \o tail)[Len(log \o tail)] = tail[Len(tail)]
      /\ Range(log \o tail) = Range(log) \cup Range(tail)
  BY <1>2, <1>4, <1>5, <1>6, <1>8, TrailGoesOn
<1>7. {e.key : e \in Range(log \o tail)} = next.keys
  BY <1>2, <1>6, <1>9
<1> QED
  BY <1>4, <1>7, <1>9 DEF Trail, tail

\* What a commit leaves of its aggregate; the others stand.
LEMMA ApplyTo ==
  ASSUME LifecycleInv, NEW c \in Callers, pc[c] = "ready", Apply(c)
  PROVE  LET s == cmd[c].ss  snap == draft[c].snap IN
         /\ s \in SourceSets /\ snap \in Snapshots /\ draft[c].path \in Seq(Stages)
         /\ snapshot'[s] = WithReceipt(cmd[c], snap) /\ snapshot'[s] # None
         /\ events'[s] = events[s] \o Entries(cmd[c], draft[c].path)
         /\ \A z \in SourceSets \ {s} : snapshot'[z] = snapshot[z] /\ events'[z] = events[z]
         /\ Staged(snap)
<1> DEFINE s == cmd[c].ss
           snap == draft[c].snap
<1>1. /\ s \in SourceSets /\ cmd[c] \in Keys
      /\ cmd[c].action # "register" => Fits(cmd[c], held[c])
      /\ draft[c] \in Drafts(cmd[c], held[c])
  BY InsideFits DEF LifecycleInv, CommandsFit
<1>2. draft[c] \in DraftType /\ snap \in Snapshots /\ draft[c].path \in Seq(Stages)
  BY DEF LifecycleInv, TypeInv, HeldKnown, DraftType
<1>3. Staged(snap)
  BY <1>1, DraftSound, RegisterSound DEF Sound
<1>4. WithReceipt(cmd[c], snap) # None
  BY <1>1, <1>2, ReceiptType, NoneAssumption
<1>5. /\ snapshot' = [snapshot EXCEPT ![s] = WithReceipt(cmd[c], snap)]
      /\ events' = [events EXCEPT ![s] = events[s] \o Entries(cmd[c], draft[c].path)]
      /\ snapshot \in [SourceSets -> Options(Snapshots)]
      /\ events \in [SourceSets -> Seq([key: Keys, stage: Stages])]
  BY DEF Apply, Entries, LifecycleInv, TypeInv, TypeOK
<1> QED
  BY <1>1, <1>2, <1>3, <1>4, <1>5

LEMMA ApplyAudit ==
  ASSUME LifecycleInv, NEW c \in Callers, pc[c] = "ready", Apply(c)
  PROVE  AuditTrailIsPath'
<1> DEFINE key  == cmd[c]
           s    == key.ss
           h    == held[c]
           d    == draft[c]
<1>1. /\ key \in Keys /\ s \in SourceSets /\ h = snapshot[s] /\ d \in Drafts(key, h)
      /\ key.action # "register" => Fits(key, h)
      /\ key.action = "register" => h = None
  BY InsideFits DEF LifecycleInv, CommandsFit
<1>2. /\ d.snap \in Snapshots
      /\ snapshot'[s] = WithReceipt(key, d.snap) /\ snapshot'[s] # None
      /\ events'[s] = events[s] \o Entries(key, d.path)
      /\ \A z \in SourceSets \ {s} : snapshot'[z] = snapshot[z] /\ events'[z] = events[z]
  BY ApplyTo
<1>3. snapshot'[s].wf = d.snap.wf
  BY <1>2, WithReceiptFields
<1>4. events[s] \in Seq([key: Keys, stage: Stages]) /\ AuditOf(s) /\ d.snap.wf.state \in Stages
  BY <1>1, <1>2, Audits DEF LifecycleInv, TypeInv, TypeOK, Snapshots, Workflows
<1>5. Trail(events[s] \o Entries(key, d.path), d.snap.wf)
  <2>1. CASE key.action = "register"
    <3>1. /\ d.snap.wf.state = "registered" /\ d.snap.wf.keys = {key} /\ d.path = <<"registered">>
          /\ h = None
      BY <1>1, <2>1, RegisterSound
    <3>2. events[s] = <<>>
      BY <1>1, <1>4, <3>1 DEF AuditOf
    <3> QED
      BY <1>1, <3>1, <3>2, TrailStarts
  <2>2. CASE key.action # "register"
    <3>1. Sound(key, h, d) /\ h # None
      BY <1>1, <2>2, DraftSound, NoneAssumption DEF Fits
    <3>2. Trail(events[s], h.wf)
      BY <1>1, <1>4, <3>1 DEF AuditOf
    <3>3. Leads(h.wf.state, d.path, d.snap.wf.state) /\ d.snap.wf.keys = h.wf.keys \cup {key}
      BY <3>1 DEF Sound
    <3> HIDE DEF key, h, d, s
    <3> QED
      BY <1>1, <1>4, <3>2, <3>3, TrailAppends
  <2> QED
    BY <2>1, <2>2
<1>6. Trail(events'[s], snapshot'[s].wf)
  BY <1>2, <1>3, <1>5
<1> HIDE DEF s, key, h, d
<1>7. ASSUME NEW z \in SourceSets
      PROVE  AuditOf(z)'
  <2>1. CASE z = s
    BY <1>2, <1>6, <2>1 DEF AuditOf
  <2>2. CASE z # s
    <3>1. AuditOf(z) /\ snapshot'[z] = snapshot[z] /\ events'[z] = events[z]
      BY <1>2, <2>2, Audits DEF LifecycleInv
    <3> QED
      BY <3>1 DEF AuditOf
  <2> QED
    BY <2>1, <2>2
<1>8. \A z \in SourceSets : AuditOf(z)'
  BY <1>7
<1> QED
  BY <1>8 DEF AuditTrailIsPath, AuditOf, Trail
\* Every aggregate a commit leaves is what its stage says.
LEMMA ApplyStaged ==
  ASSUME LifecycleInv, NEW c \in Callers, pc[c] = "ready", Apply(c)
  PROVE  SnapshotsStaged'
<1>1. ASSUME NEW z \in SourceSets, snapshot'[z] # None
      PROVE  Staged(snapshot'[z])
  <2>1. CASE z = cmd[c].ss
    <3>1. /\ draft[c].snap \in Snapshots /\ Staged(draft[c].snap)
          /\ snapshot'[z] = WithReceipt(cmd[c], draft[c].snap)
      BY <2>1, ApplyTo
    <3> QED
      BY <3>1, WithReceiptFields
  <2>2. CASE z # cmd[c].ss
    <3>1. snapshot'[z] = snapshot[z]
      BY <2>2, ApplyTo
    <3> QED
      BY <1>1, <3>1 DEF LifecycleInv, SnapshotsStaged
  <2> QED
    BY <2>1, <2>2
<1> QED
  BY <1>1 DEF SnapshotsStaged, Staged, NotAhead, ReleaseStaged

\* Work at the last rank is a publication, of an approved release.
LEMMA LastTurn ==
  ASSUME NEW key, NEW h, Fits(key, h), NEW d \in Drafts(key, h), Turn(key.action) = 7
  PROVE  /\ key.action = "publish" /\ SinkAccepts(h) /\ d.snap.release # None
         /\ d.snap.release.status = "published" /\ d.snap.release.refs = Address(h)
         /\ d.snap.contract = h.contract /\ d.snap.projections = h.projections
<1>1. key.action = "publish"
  <2>1. key.action \in Actions
    BY KeyTypes DEF Fits
  <2> QED
    BY <2>1 DEF Actions, Turn
<1>2. Inputs(key, h) /\ d \in PublishDrafts(key, h)
  BY <1>1 DEF Drafts
<1>3. h.release # None
  BY <1>1, <1>2 DEF Inputs
<1>4. /\ Sound(key, h, d) /\ SinkAccepts(h) /\ d.snap.release.refs = Address(h)
      /\ d.snap.contract = h.contract /\ d.snap.projections = h.projections
  BY <1>1, <1>2, <1>3, PublishSound
<1>5. d.snap.wf.state = "published" /\ Staged(d.snap)
  BY <1>4 DEF Sound, Staged, Reached, Rank
<1>6. d.snap.release # None /\ d.snap.release.status = "published"
  BY <1>5 DEF Staged, ReleaseStaged, Rank
<1> QED
  BY <1>1, <1>4, <1>6

\* The publication p is of the release of the aggregate s.
Backs(p, s) ==
  /\ snapshot[s] # None /\ snapshot[s].release # None
  /\ snapshot[s].release.status \in {"approved", "published"}
  /\ p = Address(snapshot[s])

\* A commit leaves each publication the release it is of, and finds the one it publishes.
LEMMA ApplySink ==
  ASSUME LifecycleInv, NEW c \in Callers, pc[c] = "ready", Apply(c), publications' = publications
  PROVE  PublicationsAreApproved'
<1> DEFINE key  == cmd[c]
           s    == key.ss
           h    == held[c]
           d    == draft[c]
           new  == snapshot'[s]
<1>1. /\ key \in Keys /\ s \in SourceSets /\ h = snapshot[s] /\ d \in Drafts(key, h)
      /\ key.action # "register" => Fits(key, h)
      /\ key.action = "register" => h = None
  BY InsideFits DEF LifecycleInv, CommandsFit
<1>2. /\ d.snap \in Snapshots /\ Staged(d.snap) /\ new # None /\ new = WithReceipt(key, d.snap)
      /\ \A z \in SourceSets \ {s} : snapshot'[z] = snapshot[z]
  BY ApplyTo
<1>3. /\ new.release = d.snap.release /\ new.contract = d.snap.contract
      /\ new.projections = d.snap.projections /\ new.current = d.snap.current
  BY <1>2, WithReceiptFields
<1>4. ASSUME NEW p \in publications
      PROVE  \E z \in SourceSets : Backs(p, z)'
  <2>1. PICK z \in SourceSets : Backs(p, z)
    BY DEF LifecycleInv, PublicationsAreApproved, Backs
  <2>2. CASE z = s
    <3>1. /\ h # None /\ h.release # None /\ h.release.status \in {"approved", "published"}
          /\ p = Address(h)
      BY <1>1, <2>1, <2>2 DEF Backs
    <3>2. Fits(key, h)
      BY <1>1, <3>1
    <3>3. h.wf.state \in {"approved", "published"}
      BY <3>1, <3>2 DEF Fits, Staged, ReleaseStaged
    <3>4. Turn(key.action) = 7
      <4>1. Rank(h.wf.state) \in 6..7
        BY <3>3 DEF Rank
      <4> QED
        BY <3>2, <4>1, InTurn, Ranks
    <3>5. /\ d.snap.release # None /\ d.snap.release.status = "published"
          /\ d.snap.contract = h.contract /\ d.snap.projections = h.projections
      BY <1>1, <3>2, <3>4, LastTurn
    <3>6. Address(new) = Address(h)
      BY <1>3, <3>5 DEF Address
    <3> HIDE DEF new
    <3>7. new # None /\ new.release # None /\ new.release.status = "published"
      BY <1>2, <1>3, <3>5
    <3> QED
      BY <2>2, <3>1, <3>6, <3>7 DEF Backs, new
  <2>3. CASE z # s
    BY <1>2, <2>1, <2>3 DEF Backs
  <2> QED
    BY <2>2, <2>3
<1>5. ASSUME NEW z \in SourceSets, snapshot'[z] # None, snapshot'[z].current # None
      PROVE  snapshot'[z].release.refs \in publications
  <2>1. CASE z = s
    <3>1. d.snap.wf.state = "published"
      BY <1>2, <1>3, <1>5, <2>1 DEF Staged, ReleaseStaged
    <3>2. key.action # "register" /\ Fits(key, h)
      BY <1>1, <3>1, RegisterSound
    <3>3. Turn(key.action) = 7
      BY <1>1, <3>1, <3>2, DraftSound DEF Sound, Rank
    <3>4. d.snap.release.refs = Address(h) /\ key.action = "publish"
      BY <1>1, <3>2, <3>3, LastTurn
    <3>5. Address(h) \in publications
      BY <3>4 DEF LifecycleInv, StoredFirst
    <3> QED
      BY <1>3, <2>1, <3>4, <3>5
  <2>2. CASE z # s
    BY <1>2, <1>5, <2>2 DEF LifecycleInv, PublicationsAreApproved
  <2> QED
    BY <2>1, <2>2
<1> QED
  BY <1>4, <1>5 DEF PublicationsAreApproved, Backs

\* The sink is handed the artifacts of the approved release at hand.
LEMMA StoreSink ==
  ASSUME LifecycleInv, NEW c \in Callers, pc[c] = "calling",
         UNCHANGED snapshot, publications \subseteq publications',
         \A p \in publications' \ publications :
            Publishes(cmd[c], held[c]) /\ p = Address(held[c])
  PROVE  PublicationsAreApproved'
<1>1. ASSUME NEW p \in publications'
      PROVE  \E s \in SourceSets : Backs(p, s)
  <2>1. CASE p \in publications
    BY <2>1 DEF LifecycleInv, PublicationsAreApproved, Backs
  <2>2. CASE p \notin publications
    <3> DEFINE key == cmd[c]
               h   == held[c]
    <3>1. /\ Publishes(key, h) /\ key.action = "publish" /\ p = Address(h)
          /\ key.ss \in SourceSets /\ h = snapshot[key.ss] /\ Fits(key, h)
      BY <2>2, InsideFits DEF Publishes
    <3>2. h # None /\ h.release.status = "approved"
      BY <3>1, NoneAssumption DEF Publishes, SinkAccepts, Fits
    <3>3. Rank(h.wf.state) = 6
      BY <3>1, InTurn DEF Turn
    <3>4. h.release # None
      <4>1. h.wf.state # "validated"
        BY <3>3 DEF Rank
      <4>2. h.release = None <=> Rank(h.wf.state) < 5 \/ h.wf.state = "validated"
        BY <3>1 DEF Fits, Staged, ReleaseStaged
      <4> QED
        BY <3>3, <4>1, <4>2
    <3> QED
      BY <3>1, <3>2, <3>4 DEF Backs
  <2> QED
    BY <2>1, <2>2
<1>2. \A s \in SourceSets : snapshot[s] # None /\ snapshot[s].current # None =>
         snapshot[s].release.refs \in publications'
  BY DEF LifecycleInv, PublicationsAreApproved
<1> QED
  BY <1>1, <1>2 DEF PublicationsAreApproved, Backs

\* Of one caller: what CommandsFit and StoredFirst say.
FitOf(c) ==
  /\ pc[c] \in Inside /\ held[c] # None => cmd[c] \notin held[c].wf.keys
  /\ pc[c] \in Inside /\ cmd[c].action # "register" => held[c] # None
  /\ pc[c] \in {"calling", "ready"} => Admitted(cmd[c], held[c])
  /\ pc[c] = "ready" => draft[c] \in Drafts(cmd[c], held[c])
  /\ pc[c] = "ready" /\ cmd[c].action = "publish" => Address(held[c]) \in publications

CallersFit == \A c \in Callers : FitOf(c)

LEMMA FitsAll == CommandsFit /\ StoredFirst <=> CallersFit
BY DEF CommandsFit, StoredFirst, CallersFit, FitOf

\* Nobody's step disturbs what another caller has found out.
LEMMA OthersFit ==
  ASSUME CallersFit, NEW c \in Callers, publications \subseteq publications', FitOf(c)',
         \A z \in Callers \ {c} : /\ pc'[z] = pc[z] /\ cmd'[z] = cmd[z]
                                  /\ held'[z] = held[z] /\ draft'[z] = draft[z]
  PROVE  CommandsFit' /\ StoredFirst'
<1>1. ASSUME NEW z \in Callers \ {c}
      PROVE  FitOf(z)'
  <2>1. FitOf(z) /\ pc'[z] = pc[z] /\ cmd'[z] = cmd[z] /\ held'[z] = held[z] /\ draft'[z] = draft[z]
    BY DEF CallersFit
  <2> QED
    BY <2>1 DEF FitOf
<1>2. \A z \in Callers : FitOf(z)'
  BY <1>1
<1> QED
  BY <1>2 DEF CommandsFit, StoredFirst, FitOf

\* A caller outside the protected part of its command claims nothing.
LEMMA LeavesFit ==
  ASSUME LifecycleInv, NEW c \in Callers, publications \subseteq publications',
         \/ \E r : GoIdle(c, r)
         \/ Goto(c, "failing") /\ UNCHANGED draft
  PROVE  CommandsFit' /\ StoredFirst'
<1>1. /\ pc \in [Callers -> Labels] /\ cmd \in [Callers -> Options(Keys)]
      /\ held \in [Callers -> Options(Snapshots)] /\ draft \in [Callers -> Options(DraftType)]
  BY DEF LifecycleInv, TypeInv, TypeOK, DraftType
<1>2. CallersFit
  BY FitsAll DEF LifecycleInv
<1>3. pc'[c] \in {"idle", "failing"}
  BY <1>1 DEF GoIdle, Goto
<1>4. FitOf(c)'
  BY <1>3 DEF FitOf, Inside
<1>5. \A z \in Callers \ {c} : /\ pc'[z] = pc[z] /\ cmd'[z] = cmd[z]
                               /\ held'[z] = held[z] /\ draft'[z] = draft[z]
  BY <1>1 DEF GoIdle, Goto
<1> QED
  BY <1>2, <1>4, <1>5, OthersFit

LEMMA ReserveFits ==
  ASSUME LifecycleInv, NEW c \in Callers, NEW key \in Keys, Reserve(c, key)
  PROVE  CommandsFit' /\ StoredFirst'
<1>1. /\ pc \in [Callers -> Labels] /\ cmd \in [Callers -> Options(Keys)]
      /\ held \in [Callers -> Options(Snapshots)]
  BY DEF LifecycleInv, TypeInv, TypeOK
<1>2. CallersFit
  BY FitsAll DEF LifecycleInv
<1>3. /\ pc' = [pc EXCEPT ![c] = Entered(key)] /\ cmd' = [cmd EXCEPT ![c] = key]
      /\ held' = [held EXCEPT ![c] = snapshot[key.ss]] /\ UNCHANGED <<draft, publications>>
      /\ ~Processed(key.ss, key)
  BY DEF Reserve, ports
<1>4. /\ pc'[c] = Entered(key) /\ cmd'[c] = key /\ held'[c] = snapshot[key.ss]
      /\ \A z \in Callers \ {c} : pc'[z] = pc[z] /\ cmd'[z] = cmd[z] /\ held'[z] = held[z]
  BY <1>1, <1>3
<1>5. FitOf(c)'
  BY <1>3, <1>4 DEF FitOf, Inside, Entered, Processed
<1> QED
  BY <1>2, <1>3, <1>4, <1>5, OthersFit

LEMMA CheckFits ==
  ASSUME LifecycleInv, NEW c \in Callers, CheckCommand(c)
  PROVE  CommandsFit' /\ StoredFirst'
<1>1. pc[c] = "reserved" /\ pc \in [Callers -> Labels] /\ UNCHANGED <<cmd, held, draft, publications>>
  BY DEF LifecycleInv, TypeInv, TypeOK, CheckCommand, Goto, ports
<1>2. CallersFit
  BY FitsAll DEF LifecycleInv
<1>3. pc' = [pc EXCEPT ![c] = IF Admitted(cmd[c], held[c]) THEN "calling" ELSE "failing"]
  BY DEF CheckCommand, Goto
<1>4. FitOf(c)'
  BY <1>1, <1>2, <1>3 DEF FitOf, CallersFit, Inside
<1>5. \A z \in Callers \ {c} : pc'[z] = pc[z]
  BY <1>1, <1>3
<1> QED
  BY <1>1, <1>2, <1>4, <1>5, OthersFit

LEMMA AnswerFits ==
  ASSUME LifecycleInv, NEW c \in Callers, PortAnswers(c)
  PROVE  CommandsFit' /\ StoredFirst' /\ PublicationsAreApproved'
<1> DEFINE key == cmd[c]
           h   == held[c]
<1>1. PICK d \in Drafts(key, h) : draft' = [draft EXCEPT ![c] = d]
  BY DEF PortAnswers
<1>2. /\ pc[c] = "calling" /\ pc \in [Callers -> Labels] /\ draft \in [Callers -> Options(DraftType)]
      /\ pc' = [pc EXCEPT ![c] = "ready"] /\ UNCHANGED <<cmd, held, snapshot>>
      /\ publications' = IF Publishes(key, h)
                         THEN publications \cup {Address(h)} ELSE publications
  BY DEF LifecycleInv, TypeInv, TypeOK, DraftType, PortAnswers, Goto, store
<1>3. CallersFit
  BY FitsAll DEF LifecycleInv
<1>4. key.action = "publish" => Address(h) \in publications'
  <2>1. key.action = "publish" => SinkAccepts(h)
    BY <1>1 DEF Drafts, PublishDrafts
  <2> QED
    BY <1>2, <2>1 DEF Publishes
<1>5. FitOf(c)'
  <2>1. pc'[c] = "ready" /\ draft'[c] = d /\ cmd'[c] = key /\ held'[c] = h
    BY <1>1, <1>2
  <2>2. /\ h # None => key \notin h.wf.keys
        /\ key.action # "register" => h # None
        /\ Admitted(key, h)
    BY <1>2, <1>3 DEF CallersFit, FitOf, Inside
  <2> QED
    BY <1>1, <1>4, <2>1, <2>2 DEF FitOf
<1>6. \A z \in Callers \ {c} : pc'[z] = pc[z] /\ draft'[z] = draft[z]
  BY <1>1, <1>2
<1>7. CommandsFit' /\ StoredFirst'
  BY <1>2, <1>3, <1>5, <1>6, OthersFit
<1>8. PublicationsAreApproved'
  BY <1>2, StoreSink
<1> QED
  BY <1>7, <1>8

LEMMA RaiseFits ==
  ASSUME LifecycleInv, NEW c \in Callers, PortRaises(c)
  PROVE  CommandsFit' /\ StoredFirst' /\ PublicationsAreApproved'
<1>1. /\ pc[c] = "calling" /\ Goto(c, "failing") /\ UNCHANGED <<draft, snapshot>>
      /\ publications \subseteq publications'
      /\ \A p \in publications' \ publications :
           Publishes(cmd[c], held[c]) /\ p = Address(held[c])
  BY DEF PortRaises, store
<1> QED
  BY <1>1, LeavesFit, StoreSink

\* Nothing but a commit and the sink touches what the rest is about.
LEMMA Untouched ==
  ASSUME LifecycleInv, UNCHANGED <<snapshot, events>>
  PROVE  /\ SnapshotsStaged' /\ AuditTrailIsPath'
         /\ UNCHANGED publications => PublicationsAreApproved'
<1>1. SnapshotsStaged'
  BY DEF LifecycleInv, SnapshotsStaged
<1>2. AuditTrailIsPath'
  BY DEF LifecycleInv, AuditTrailIsPath
<1>3. UNCHANGED publications => PublicationsAreApproved'
  BY DEF LifecycleInv, PublicationsAreApproved
<1> QED
  BY <1>1, <1>2, <1>3

LEMMA CommitLifecycle ==
  ASSUME LifecycleInv, NEW c \in Callers, CommitAcked(c) \/ CommitAckLost(c)
  PROVE  /\ SnapshotsStaged' /\ AuditTrailIsPath' /\ PublicationsAreApproved'
         /\ CommandsFit' /\ StoredFirst'
<1>1. pc[c] = "ready" /\ CommitOutcome(cmd[c].ss, cmd[c], c) = "applied"
  BY ReadyApplies DEF CommitAcked, CommitAckLost
<1>2. Apply(c) /\ UNCHANGED publications
  BY <1>1 DEF CommitAcked, CommitAckLost, ports
<1>3. (\E r : GoIdle(c, r)) \/ (Goto(c, "failing") /\ UNCHANGED draft)
  BY DEF CommitAcked, CommitAckLost
<1> QED
  BY <1>1, <1>2, <1>3, ApplyStaged, ApplyAudit, ApplySink, LeavesFit

LEMMA InitLifecycle == Init => LifecycleInv
<1> SUFFICES ASSUME Init PROVE LifecycleInv
  OBVIOUS
<1>1. TypeInv /\ FenceInv
  BY InitTypeInv, InitFenceInv
<1>2. SnapshotsStaged /\ AuditTrailIsPath /\ PublicationsAreApproved
  BY DEF Init, SnapshotsStaged, AuditTrailIsPath, PublicationsAreApproved
<1>3. CommandsFit /\ StoredFirst
  BY DEF Init, CommandsFit, StoredFirst, Inside
<1> QED
  BY <1>1, <1>2, <1>3 DEF LifecycleInv

LEMMA NextLifecycle == LifecycleInv /\ [Next]_vars => LifecycleInv'
<1> SUFFICES ASSUME LifecycleInv, [Next]_vars PROVE LifecycleInv'
  OBVIOUS
<1> DEFINE Rest == /\ SnapshotsStaged' /\ AuditTrailIsPath' /\ PublicationsAreApproved'
                   /\ CommandsFit' /\ StoredFirst'
<1>1. TypeInv' /\ FenceInv'
  BY NextTypeInv, NextFenceInv DEF LifecycleInv
<1>2. CASE UNCHANGED vars
  <2>1. CommandsFit' /\ StoredFirst'
    BY <1>2 DEF vars, LifecycleInv, CommandsFit, StoredFirst
  <2>2. UNCHANGED <<snapshot, events, publications>>
    BY <1>2 DEF vars
  <2> QED
    BY <1>1, <2>1, <2>2, Untouched DEF LifecycleInv
<1>3. ASSUME NEW c \in Callers, NEW key \in Keys, Replay(c, key) \/ Refuse(c, key)
      PROVE  Rest
  <2>1. UNCHANGED <<snapshot, events, publications>> /\ \E r : GoIdle(c, r)
    BY <1>3 DEF Replay, Refuse, store, ports
  <2> QED
    BY <2>1, Untouched, LeavesFit
<1>4. ASSUME NEW c \in Callers, NEW key \in Keys, Reserve(c, key)
      PROVE  Rest
  <2>1. UNCHANGED <<snapshot, events, publications>>
    BY <1>4 DEF Reserve, ports
  <2> QED
    BY <1>4, <2>1, Untouched, ReserveFits
<1>5. ASSUME NEW c \in Callers, Continue(c)
      PROVE  Rest
  <2>1. CASE CheckCommand(c)
    <3>1. UNCHANGED <<snapshot, events, publications>>
      BY <2>1 DEF CheckCommand, store, ports
    <3> QED
      BY <2>1, <3>1, Untouched, CheckFits
  <2>2. CASE PortAnswers(c) \/ PortRaises(c)
    <3>1. UNCHANGED <<snapshot, events>>
      BY <2>2 DEF PortAnswers, PortRaises, store
    <3> QED
      BY <2>2, <3>1, Untouched, AnswerFits, RaiseFits
  <2>3. CASE CommitFails(c)
    <3>1. UNCHANGED <<snapshot, events, publications, draft>> /\ Goto(c, "failing")
      BY <2>3 DEF CommitFails, store, ports
    <3> QED
      BY <3>1, Untouched, LeavesFit
  <2>4. CASE Release(c)
    <3>1. UNCHANGED <<snapshot, events, publications>> /\ \E r : GoIdle(c, r)
      BY <2>4 DEF Release, ports
    <3> QED
      BY <3>1, Untouched, LeavesFit
  <2>5. CASE CommitAcked(c) \/ CommitAckLost(c)
    BY <2>5, CommitLifecycle
  <2> QED
    BY <1>5, <2>1, <2>2, <2>3, <2>4, <2>5 DEF Continue
<1>6. Next => Rest
  BY <1>3, <1>4, <1>5 DEF Next, Call
<1> QED
  BY <1>1, <1>2, <1>6 DEF LifecycleInv

LEMMA LifecycleInvariant == Spec => []LifecycleInv
<1> QED
  BY InitLifecycle, NextLifecycle, PTL DEF Spec

-----------------------------------------------------------------------------
(* What follows.                                                           *)

(* A commit that reaches storage is applied, whatever other callers did    *)
(* since its snapshot was captured and whatever failed before: neither the *)
(* compare-and-set nor the checks of the unit of work (_validate_change)   *)
(* ever refuse what the service hands them.                                *)
THEOREM CommitsAreApplied == Spec => []CommitNeverRefused
<1>1. LifecycleInv => CommitNeverRefused
  BY ReadyApplies DEF CommitNeverRefused
<1> QED
  BY <1>1, LifecycleInvariant, PTL

(* No port is asked for work its aggregate already holds, by a retry after *)
(* a lost acknowledgement or by a command with another payload.            *)
THEOREM EffectsAreNotRepeated == Spec => []NoRepeatedEffect
<1>1. LifecycleInv => NoRepeatedEffect
  <2> SUFFICES ASSUME LifecycleInv, NEW c \in Callers, pc[c] = "calling",
                      snapshot[cmd[c].ss] # None,
                      NEW r \in Range(snapshot[cmd[c].ss].receipts)
               PROVE  r.key.action # cmd[c].action
    BY DEF NoRepeatedEffect
  <2> DEFINE h == snapshot[cmd[c].ss]
  <2>1. Fits(cmd[c], h) /\ cmd[c].ss \in SourceSets
    BY InsideFits
  <2>2. r.key \in h.wf.keys
    BY <2>1 DEF LifecycleInv, TypeInv, ReceiptsMatchKeys, ReceiptKeys
  <2>3. Turn(r.key.action) <= Rank(h.wf.state)
    BY <2>1, <2>2 DEF Fits, Staged, NotAhead
  <2>4. Rank(h.wf.state) = Turn(cmd[c].action) - 1
    BY <2>1, InTurn
  <2> QED
    BY <2>3, <2>4, Ranks
<1> QED
  BY <1>1, LifecycleInvariant, PTL

(* The audit events of an aggregate are one path through the lifecycle     *)
(* graph, from its registration to its stage, and name the commands it     *)
(* committed.                                                              *)
THEOREM AuditIsPath == Spec => []AuditTrailIsPath
<1>1. LifecycleInv => AuditTrailIsPath
  BY DEF LifecycleInv
<1> QED
  BY <1>1, LifecycleInvariant, PTL

(* A release is approved by somebody who did not produce its evidence.     *)
THEOREM RuntimesNeverApprove == Spec => []RuntimeNeverApproves
<1>1. LifecycleInv => RuntimeNeverApproves
  <2> SUFFICES ASSUME LifecycleInv, NEW s \in SourceSets, snapshot[s] # None,
                      snapshot[s].release # None,
                      snapshot[s].release.status \in {"approved", "published"}
               PROVE  snapshot[s].release.approvedBy \notin
                        {None, snapshot[s].runtimeResult} \cup snapshot[s].wf.runtimes
    BY DEF RuntimeNeverApproves
  <2> DEFINE h == snapshot[s]
  <2>1. Staged(h)
    BY DEF LifecycleInv, SnapshotsStaged
  <2>2. h.release.approvedBy \in Approvers \ h.wf.runtimes
    BY <2>1 DEF Staged, ReleaseStaged
  <2>3. h.wf.state \in {"approved", "published"}
    BY <2>1 DEF Staged, ReleaseStaged
  <2>4. h.wf.runtimes = {h.runtimeResult}
    BY <2>1, <2>3 DEF Staged, NotAhead, Rank
  <2> QED
    BY <2>2, <2>4, NoneAssumption
<1> QED
  BY <1>1, LifecycleInvariant, PTL

(* What the artifact sink holds belongs to an approved release of that     *)
(* aggregate, also when the commit after it failed, and a published        *)
(* release finds its artifacts there.                                      *)
THEOREM SinkHoldsApproved == Spec => []PublicationsAreApproved
<1>1. LifecycleInv => PublicationsAreApproved
  BY DEF LifecycleInv
<1> QED
  BY <1>1, LifecycleInvariant, PTL

\* A command that got past the checks was not issued against a rejection.
LEMMA RejectedFitsNothing ==
  ASSUME NEW key, NEW h, Fits(key, h)
  PROVE  h.decision # "reject"
<1> SUFFICES ASSUME h.decision = "reject" PROVE FALSE
  OBVIOUS
<1>1. h.wf.state = "validated"
  BY DEF Fits, Staged, ReleaseStaged
<1>2. Turn(key.action) = 6 /\ Target(key.action) \in Allowed("validated") /\ key.action \in Actions
  BY <1>1, InTurn, KeyTypes, Ranks DEF Fits, Rank
<1> QED
  BY <1>2 DEF Actions, Turn, Target, Allowed

(* No later command changes an aggregate whose contract was rejected.      *)
THEOREM RejectionStands == Spec => RejectionIsFinal
<1>1. ASSUME LifecycleInv, [Next]_vars, NEW s \in SourceSets, snapshot[s] # None,
             snapshot[s].decision = "reject"
      PROVE  snapshot'[s] = snapshot[s]
  <2>1. ASSUME NEW c \in Callers, CommitAcked(c) \/ CommitAckLost(c)
        PROVE  snapshot'[s] = snapshot[s]
    <3>1. pc[c] = "ready" /\ Apply(c)
      BY <1>1, <2>1, ReadyApplies DEF CommitAcked, CommitAckLost
    <3>2. cmd[c].ss # s
      BY <1>1, <3>1, InsideFits, RejectedFitsNothing
    <3> QED
      BY <1>1, <3>1, <3>2, ApplyTo
  <2>2. ASSUME NEW c \in Callers, Call(c)
        PROVE  UNCHANGED snapshot
    BY <2>2 DEF Call, Replay, Refuse, Reserve, store
  <2>3. ASSUME NEW c \in Callers, Continue(c), ~CommitAcked(c), ~CommitAckLost(c)
        PROVE  UNCHANGED snapshot
    BY <2>3 DEF Continue, CheckCommand, PortAnswers, PortRaises, CommitFails, Release, store
  <2>4. UNCHANGED vars => UNCHANGED snapshot
    BY DEF vars
  <2> QED
    BY <1>1, <2>1, <2>2, <2>3, <2>4 DEF Next
<1>2. LifecycleInv /\ [Next]_vars =>
        [\A s \in SourceSets : snapshot[s] # None /\ snapshot[s].decision = "reject"
           => snapshot'[s] = snapshot[s]]_vars
  BY <1>1
<1> QED
  BY <1>2, LifecycleInvariant, PTL DEF Spec, RejectionIsFinal

-----------------------------------------------------------------------------
(* The service implements the idempotent ledger: every step of callers,    *)
(* ports and storage is a step of the ledger or leaves it as it is.        *)

\* The ledger the aggregates stand for, and what the callers know of it.
LedgerNow == [s \in SourceSets |-> LedgerOf(s)]
AnswerNow == [c \in Callers |-> AnswerOf(c)]

\* The last receipt was given at the stage the aggregate is at.
LastReceipt ==
  \A s \in SourceSets : snapshot[s] # None =>
    LET receipts == snapshot[s].receipts IN
    Len(receipts) > 0 /\ receipts[Len(receipts)].stage = snapshot[s].wf.state

LedgerInv == LifecycleInv /\ LastReceipt /\ AnswersAreReceipts

-----------------------------------------------------------------------------
(* Receipts as records of the ledger.                                      *)

RecordsOf(receipts) == [i \in DOMAIN receipts |-> Record(receipts[i])]

ReceiptsOf(s) == IF snapshot[s] = None THEN <<>> ELSE snapshot[s].receipts

StageOf(s) == IF snapshot[s] = None THEN "unregistered" ELSE snapshot[s].wf.state

LEMMA RecordsAppend ==
  ASSUME NEW rs \in Seq(Receipts), NEW r \in Receipts
  PROVE  RecordsOf(Append(rs, r)) = Append(RecordsOf(rs), Record(r))
<1> DEFINE E   == {Record(x) : x \in Receipts}
           old == RecordsOf(rs)
           new == RecordsOf(Append(rs, r))
<1>1. /\ old \in Seq(E) /\ Len(old) = Len(rs) /\ Len(rs) \in Nat
      /\ \A i \in 1..Len(rs) : old[i] = Record(rs[i])
  BY DEF RecordsOf
<1>2. /\ Append(rs, r) \in Seq(Receipts) /\ Len(Append(rs, r)) = Len(rs) + 1
      /\ \A i \in 1..Len(rs) : Append(rs, r)[i] = rs[i]
      /\ Append(rs, r)[Len(rs) + 1] = r
  OBVIOUS
<1>3. /\ new \in Seq(E) /\ Len(new) = Len(rs) + 1
      /\ \A i \in 1..(Len(rs) + 1) : new[i] = Record(Append(rs, r)[i])
  BY <1>2 DEF RecordsOf
<1>4. Record(r) \in E
  OBVIOUS
<1> HIDE DEF E, old, new
<1>5. /\ Append(old, Record(r)) \in Seq(E) /\ Len(Append(old, Record(r))) = Len(rs) + 1
      /\ \A i \in 1..Len(rs) : Append(old, Record(r))[i] = old[i]
      /\ Append(old, Record(r))[Len(rs) + 1] = Record(r)
  BY <1>1, <1>4
<1>6. ASSUME NEW i \in 1..(Len(rs) + 1)
      PROVE  new[i] = Append(old, Record(r))[i]
  <2>1. CASE i \in 1..Len(rs)
    BY <1>1, <1>2, <1>3, <1>5, <2>1
  <2>2. CASE i = Len(rs) + 1
    BY <1>1, <1>2, <1>3, <1>5, <2>2
  <2> QED
    BY <1>1, <2>1, <2>2
<1>7. new = Append(old, Record(r))
  BY <1>1, <1>3, <1>5, <1>6, SeqEqual
<1> QED
  BY <1>7 DEF old, new

LEMMA RecordsRange ==
  ASSUME NEW rs \in Seq(Receipts)
  PROVE  /\ Range(RecordsOf(rs)) = {Record(r) : r \in Range(rs)}
         /\ RecordsOf(rs) = <<>> <=> Len(rs) = 0
         /\ Len(RecordsOf(rs)) = Len(rs)
         /\ Len(rs) > 0 => RecordsOf(rs)[Len(rs)] = Record(rs[Len(rs)])
<1>1. DOMAIN RecordsOf(rs) = 1..Len(rs) /\ DOMAIN rs = 1..Len(rs)
      /\ \A i \in 1..Len(rs) : RecordsOf(rs)[i] = Record(rs[i])
  BY DEF RecordsOf
<1>2. Range(RecordsOf(rs)) = {Record(r) : r \in Range(rs)}
  BY <1>1 DEF Range
<1>3. RecordsOf(rs) \in Seq({Record(x) : x \in Receipts}) /\ Len(RecordsOf(rs)) = Len(rs)
  BY DEF RecordsOf
<1>4. RecordsOf(rs) = <<>> <=> Len(rs) = 0
  BY <1>3
<1> QED
  BY <1>1, <1>2, <1>3, <1>4

LEMMA LedgerRecords == \A s : LedgerOf(s) = RecordsOf(ReceiptsOf(s))
BY DEF LedgerOf, RecordsOf, ReceiptsOf

\* What the ledger says of an aggregate is what its workflow says.
LEMMA LedgerSays ==
  ASSUME LedgerInv, NEW s \in SourceSets
  PROVE  /\ Ledger!Last(s) = StageOf(s)
         /\ Ledger!Recorded(s) = IF snapshot[s] = None THEN {} ELSE snapshot[s].wf.keys
<1> DEFINE rs == ReceiptsOf(s)
<1>1. /\ rs \in Seq(Receipts)
      /\ snapshot[s] = None => rs = <<>>
      /\ snapshot[s] # None =>
           /\ Len(rs) > 0 /\ rs[Len(rs)].stage = snapshot[s].wf.state
           /\ {r.key : r \in Range(rs)} = snapshot[s].wf.keys
  BY DEF LedgerInv, LifecycleInv, TypeInv, TypeOK, Options, Snapshots, ReceiptsOf, LastReceipt,
         ReceiptsMatchKeys, ReceiptKeys
<1>2. LedgerOf(s) = RecordsOf(rs)
  BY LedgerRecords
<1>3. Ledger!Last(s) = IF LedgerOf(s) = <<>> THEN "unregistered" ELSE LedgerOf(s)[Len(LedgerOf(s))].stage
  BY DEF Ledger!Last
<1>4. Ledger!Recorded(s) = {r.key : r \in Range(LedgerOf(s))}
  BY DEF Ledger!Recorded, Ledger!Range, Range
<1> HIDE DEF rs
<1>5. Ledger!Last(s) = StageOf(s)
  <2>1. CASE snapshot[s] = None
    <3>1. Len(rs) = 0
      BY <1>1, <2>1
    <3>2. LedgerOf(s) = <<>>
      BY <1>1, <1>2, <3>1, RecordsRange
    <3> QED
      BY <1>3, <2>1, <3>2 DEF StageOf
  <2>2. CASE snapshot[s] # None
    <3>1. /\ LedgerOf(s) # <<>> /\ Len(LedgerOf(s)) = Len(rs)
          /\ LedgerOf(s)[Len(rs)] = Record(rs[Len(rs)])
      BY <1>1, <1>2, <2>2, RecordsRange
    <3>2. Record(rs[Len(rs)]).stage = snapshot[s].wf.state
      BY <1>1, <2>2 DEF Record
    <3>3. Ledger!Last(s) = LedgerOf(s)[Len(LedgerOf(s))].stage
      BY <1>3, <3>1
    <3>4. Ledger!Last(s) = snapshot[s].wf.state
      BY <3>1, <3>2, <3>3
    <3> QED
      BY <2>2, <3>4 DEF StageOf
  <2> QED
    BY <2>1, <2>2
<1>6. {r.key : r \in Range(LedgerOf(s))} = {r.key : r \in Range(rs)}
  <2>1. Range(LedgerOf(s)) = {Record(r) : r \in Range(rs)}
    BY <1>1, <1>2, RecordsRange
  <2>2. \A r : Record(r).key = r.key
    BY DEF Record
  <2>3. {r.key : r \in {Record(x) : x \in Range(rs)}} = {Record(x).key : x \in Range(rs)}
    OBVIOUS
  <2> QED
    BY <2>1, <2>2, <2>3
<1>7. Range(<<>>) = {}
  BY DEF Range
<1> QED
  BY <1>1, <1>4, <1>5, <1>6, <1>7

-----------------------------------------------------------------------------
(* A commit executes its command in the ledger.                            *)

LEMMA InSteps ==
  ASSUME NEW key, NEW h, Fits(key, h), NEW d \in Drafts(key, h)
  PROVE  d.snap.wf.state \in Steps(h.wf.state)
<1>1. /\ h.wf.state \in Reached /\ d.snap.wf.state \in Reached
      /\ Rank(d.snap.wf.state) = Rank(h.wf.state) + 1
      /\ Target(key.action) \in Allowed(h.wf.state)
  BY InTurn, DraftSound, Ranks DEF Fits, Staged, Sound
<1>2. key.action \in Actions \ {"register"} /\ Rank(h.wf.state) = Turn(key.action) - 1
  BY KeyTypes, InTurn DEF Fits
<1>3. h.wf.state # "validated"
  BY <1>1, <1>2 DEF Rank, Turn, Actions, Target, Allowed
<1> QED
  BY <1>1, <1>3 DEF Reached, Rank, Steps, Allowed

LEMMA CommitRecords ==
  ASSUME LifecycleInv, NEW c \in Callers, pc[c] = "ready", Apply(c),
         NEW s \in SourceSets, s = cmd[c].ss
  PROVE  /\ cmd[c] \in KeysOf(s)
         /\ snapshot[s] # None => cmd[c] \notin snapshot[s].wf.keys
         /\ ReceiptsOf(s) \in Seq(Receipts)
         /\ snapshot'[s] # None
         /\ \E r \in Receipts :
              /\ snapshot'[s].receipts = Append(ReceiptsOf(s), r)
              /\ r.key = cmd[c] /\ r.stage = snapshot'[s].wf.state
              /\ r.stage \in Steps(StageOf(s))
<1> DEFINE key  == cmd[c]
           h    == held[c]
           d    == draft[c]
<1>1. /\ key \in Keys /\ h = snapshot[s] /\ d \in Drafts(key, h)
      /\ key.action # "register" => Fits(key, h)
      /\ key.action = "register" => h = None
  BY InsideFits DEF LifecycleInv, CommandsFit
<1>2. /\ d.snap \in Snapshots /\ snapshot'[s] # None /\ snapshot'[s] = WithReceipt(key, d.snap)
  BY ApplyTo
<1>3. snapshot'[s].wf = d.snap.wf
  BY <1>2, WithReceiptFields
<1>4. snapshot'[s].receipts = Append(d.snap.receipts, Receipt(key, d.snap))
  BY <1>2 DEF WithReceipt, Snapshots
<1>5. Receipt(key, d.snap) \in Receipts
  BY <1>1, <1>2, ReceiptType
<1>6. Receipt(key, d.snap).key = key /\ Receipt(key, d.snap).stage = d.snap.wf.state
  BY DEF Receipt
<1>7. ReceiptsOf(s) \in Seq(Receipts)
  BY DEF LifecycleInv, TypeInv, TypeOK, Options, Snapshots, ReceiptsOf
<1>8. /\ d.snap.receipts = ReceiptsOf(s) /\ d.snap.wf.state \in Steps(StageOf(s))
      /\ h # None => key \notin h.wf.keys
  <2>1. CASE key.action = "register"
    BY <1>1, <2>1, RegisterSound DEF ReceiptsOf, StageOf, Steps
  <2>2. CASE key.action # "register"
    <3>1. Fits(key, h) /\ Sound(key, h, d) /\ h # None /\ d.snap.wf.state \in Steps(h.wf.state)
      BY <1>1, <2>2, DraftSound, InSteps, NoneAssumption DEF Fits
    <3> QED
      BY <1>1, <3>1 DEF Sound, Fits, ReceiptsOf, StageOf
  <2> QED
    BY <2>1, <2>2
<1>9. key \in KeysOf(s)
  BY <1>1 DEF KeysOf
<1> QED
  BY <1>1, <1>2, <1>3, <1>4, <1>5, <1>6, <1>7, <1>8, <1>9

LEMMA CommitExecutes ==
  ASSUME LedgerInv, NEW c \in Callers, pc[c] = "ready", Apply(c)
  PROVE  LastReceipt' /\ \E s \in SourceSets : Ledger!Execute(s)
<1>1. PICK s \in SourceSets : s = cmd[c].ss
  BY InsideFits DEF LedgerInv
<1>2. /\ cmd[c] \in KeysOf(s)
      /\ snapshot[s] # None => cmd[c] \notin snapshot[s].wf.keys
      /\ ReceiptsOf(s) \in Seq(Receipts) /\ snapshot'[s] # None
  BY <1>1, CommitRecords DEF LedgerInv
<1>3. PICK r \in Receipts :
        /\ snapshot'[s].receipts = Append(ReceiptsOf(s), r)
        /\ r.key = cmd[c] /\ r.stage = snapshot'[s].wf.state /\ r.stage \in Steps(StageOf(s))
  BY <1>1, CommitRecords DEF LedgerInv
<1>4. \A z \in SourceSets \ {s} : snapshot'[z] = snapshot[z]
  BY <1>1, ApplyTo DEF LedgerInv
<1>5. LastReceipt'
  <2>1. ASSUME NEW z \in SourceSets, snapshot'[z] # None
        PROVE  /\ Len(snapshot'[z].receipts) > 0
               /\ snapshot'[z].receipts[Len(snapshot'[z].receipts)].stage = snapshot'[z].wf.state
    <3>1. CASE z = s
      BY <1>2, <1>3, <3>1
    <3>2. CASE z # s
      BY <1>4, <2>1, <3>2 DEF LedgerInv, LastReceipt
    <3> QED
      BY <3>1, <3>2
  <2> QED
    BY <2>1 DEF LastReceipt
<1>6. LedgerOf(s)' = Append(LedgerOf(s), [key |-> r.key, stage |-> r.stage])
  <2>1. LedgerOf(s)' = RecordsOf(Append(ReceiptsOf(s), r))
    BY <1>2, <1>3 DEF LedgerOf, RecordsOf
  <2>2. LedgerOf(s) = RecordsOf(ReceiptsOf(s))
    BY LedgerRecords
  <2> QED
    BY <1>2, <2>1, <2>2, RecordsAppend DEF Record
<1>7. \A z \in SourceSets \ {s} : LedgerOf(z)' = LedgerOf(z)
  BY <1>4 DEF LedgerOf
<1>8. LedgerNow' = [LedgerNow EXCEPT ![s] = Append(@, [key |-> r.key, stage |-> r.stage])]
  BY <1>6, <1>7 DEF LedgerNow
<1>9. r.key \in KeysOf(s) \ Ledger!Recorded(s) /\ r.stage \in Steps(Ledger!Last(s))
  <2>1. /\ Ledger!Last(s) = StageOf(s)
        /\ Ledger!Recorded(s) = IF snapshot[s] = None THEN {} ELSE snapshot[s].wf.keys
    BY LedgerSays
  <2>2. r.key \notin Ledger!Recorded(s)
    BY <1>2, <1>3, <2>1
  <2> QED
    BY <1>2, <1>3, <2>1, <2>2
<1>10. Ledger!Execute(s)
  BY <1>8, <1>9 DEF Ledger!Execute, LedgerNow
<1> QED
  BY <1>5, <1>10

-----------------------------------------------------------------------------
(* Answers.                                                                *)

\* One caller is answered, with a record of the ledger or with none.
LEMMA AnswersOfLedger ==
  ASSUME AnswersAreReceipts', TypeInv', NEW c \in Callers,
         \A z \in Callers \ {c} : reply'[z] = reply[z]
  PROVE  Ledger!Answered(c)
<1>1. AnswerOf(c)' \in (UNION {Range(LedgerOf(s)') : s \in SourceSets}) \cup {None}
  <2>1. CASE reply'[c] # None /\ reply'[c].kind = "answered"
    <3> DEFINE r == reply'[c].receipt
    <3>1. PICK s \in SourceSets : s = reply'[c].key.ss
      <4>1. reply'[c].key \in Keys
        BY <2>1 DEF TypeInv, TypeOK, Options, Replies, Error
      <4> QED
        BY <4>1, KeyTypes
    <3>2. snapshot'[s] # None /\ r \in Range(snapshot'[s].receipts)
      BY <2>1, <3>1 DEF AnswersAreReceipts
    <3>3. snapshot'[s].receipts \in Seq(Receipts)
      BY <3>2 DEF TypeInv, TypeOK, Options, Snapshots
    <3>4. LedgerOf(s)' = RecordsOf(snapshot'[s].receipts)
      BY <3>2 DEF LedgerOf, RecordsOf
    <3>5. Record(r) \in Range(LedgerOf(s)')
      BY <3>2, <3>3, <3>4, RecordsRange
    <3>6. AnswerOf(c)' = Record(r)
      BY <2>1 DEF AnswerOf
    <3> QED
      BY <3>5, <3>6
  <2>2. CASE ~(reply'[c] # None /\ reply'[c].kind = "answered")
    BY <2>2 DEF AnswerOf
  <2> QED
    BY <2>1, <2>2
<1>2. \A z \in Callers \ {c} : AnswerOf(z)' = AnswerOf(z)
  BY DEF AnswerOf
<1>3. AnswerNow' = [AnswerNow EXCEPT ![c] = AnswerOf(c)']
  BY <1>2 DEF AnswerNow
<1>4. \A s \in SourceSets : Ledger!Range(LedgerNow'[s]) = Range(LedgerOf(s)')
  BY DEF LedgerNow, Ledger!Range, Range
<1>5. AnswerOf(c)' \in (UNION {Ledger!Range(LedgerNow'[s]) : s \in SourceSets}) \cup {None}
  BY <1>1, <1>4
<1> QED
  BY <1>3, <1>5 DEF Ledger!Answered, AnswerNow, LedgerNow

LEMMA OneIsAnswered ==
  ASSUME TypeInv, Next
  PROVE  \E c \in Callers : \A z \in Callers \ {c} : reply'[z] = reply[z]
<1>1. reply \in [Callers -> Options(Replies)]
  BY DEF TypeInv, TypeOK
<1>2. PICK c \in Callers : Call(c) \/ Continue(c)
  BY DEF Next
<1>3. \A r : GoIdle(c, r) => \A z \in Callers \ {c} : reply'[z] = reply[z]
  BY <1>1 DEF GoIdle
<1>4. ASSUME NEW key \in Keys, Replay(c, key) \/ Refuse(c, key) \/ Reserve(c, key)
      PROVE  \A z \in Callers \ {c} : reply'[z] = reply[z]
  BY <1>1, <1>3, <1>4 DEF Replay, Refuse, Reserve
<1>5. CASE Continue(c)
  BY <1>3, <1>5 DEF Continue, CheckCommand, PortAnswers, PortRaises, CommitAcked, CommitAckLost,
                    CommitFails, Release, Goto
<1> QED
  BY <1>2, <1>4, <1>5 DEF Call

-----------------------------------------------------------------------------
(* The refinement.                                                         *)

LEMMA InitLedger == Init => Ledger!Init
<1> SUFFICES ASSUME Init PROVE Ledger!Init
  OBVIOUS
<1>1. LedgerNow = [s \in SourceSets |-> <<>>]
  BY DEF LedgerNow, LedgerOf, Init
<1>2. AnswerNow = [c \in Callers |-> None]
  BY DEF AnswerNow, AnswerOf, Init
<1> QED
  BY <1>1, <1>2 DEF Ledger!Init, LedgerNow, AnswerNow

LEMMA NextLedger ==
  LedgerInv /\ [Next]_vars => LastReceipt' /\ [Ledger!Next]_<<LedgerNow, AnswerNow>>
<1> SUFFICES ASSUME LedgerInv, [Next]_vars
             PROVE  LastReceipt' /\ [Ledger!Next]_<<LedgerNow, AnswerNow>>
  OBVIOUS
<1>1. CASE UNCHANGED vars
  BY <1>1 DEF vars, LedgerInv, LastReceipt, LedgerNow, AnswerNow, LedgerOf, AnswerOf
<1>2. CASE Next
  <2>1. LifecycleInv' /\ AnswersAreReceipts' /\ TypeInv'
    BY NextLifecycle, NextAnswers DEF LedgerInv, LifecycleInv
  <2>2. \E c \in Callers : Ledger!Answered(c)
    BY <1>2, <2>1, OneIsAnswered, AnswersOfLedger DEF LedgerInv, LifecycleInv
  <2>3. \/ UNCHANGED snapshot
        \/ \E c \in Callers : pc[c] = "ready" /\ Apply(c)
    BY <1>2, ReadyApplies DEF LedgerInv, Next, Call, Continue, Replay, Refuse, Reserve, CheckCommand,
         PortAnswers, PortRaises, CommitAcked, CommitAckLost, CommitFails, Release, store
  <2>4. LastReceipt' /\ (UNCHANGED LedgerNow \/ \E s \in SourceSets : Ledger!Execute(s))
    <3>1. CASE UNCHANGED snapshot
      BY <3>1 DEF LedgerInv, LastReceipt, LedgerNow, LedgerOf
    <3>2. CASE \E c \in Callers : pc[c] = "ready" /\ Apply(c)
      BY <3>2, CommitExecutes
    <3> QED
      BY <2>3, <3>1, <3>2
  <2> QED
    BY <2>2, <2>4 DEF Ledger!Next, LedgerNow
<1> QED
  BY <1>1, <1>2

(* The service implements the idempotent ledger, for any number of callers *)
(* and aggregates and whatever fails between their steps: a key is         *)
(* recorded at most once, each record is one legal step from the one       *)
(* before, and a caller is answered with a record of the ledger.           *)
THEOREM LedgerImplemented == Spec => ImplementsLedger
<1>1. Init => LastReceipt
  BY DEF Init, LastReceipt
<1>2. Spec => []LedgerInv
  <2>1. Spec => [](LifecycleInv /\ AnswersAreReceipts)
    BY LifecycleInvariant, AnswersHold, PTL
  <2>2. LifecycleInv /\ AnswersAreReceipts /\ LastReceipt /\ [Next]_vars => LastReceipt'
    BY NextLedger DEF LedgerInv
  <2> QED
    BY <1>1, <2>1, <2>2, PTL DEF Spec, LedgerInv
<1> QED
  BY <1>2, InitLedger, NextLedger, PTL DEF Spec, ImplementsLedger, Ledger!Spec, LedgerNow, AnswerNow
=============================================================================
