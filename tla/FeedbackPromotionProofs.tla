---------------------- MODULE FeedbackPromotionProofs ----------------------
(***************************************************************************)
(* Four promises of the feedback commands, for any number of processes,    *)
(* readers, cases and releases: a recorded decision stays, a reader is     *)
(* served an asset that was current, a promotion is whole or nothing, and  *)
(* one that returned stays in the lineage.  The first two need invariants  *)
(* that meet in no variable; the last two share one that contains the      *)
(* first.                                                                  *)
(***************************************************************************)
EXTENDS FeedbackPromotion, SequenceTheorems, TLAPS

Outputs == {"case", "decision", "amendment", "asset"}
Fields == {"op", "case", "asOf", "found", "outputs", "head", "supersedes", "id"}

-----------------------------------------------------------------------------
(* Decisions.  The one process inside the transaction may still remove     *)
(* what it wrote; it wrote nothing whose recording returned.               *)

Typed ==
  /\ tx = [p \in Procs |-> tx[p]] /\ pc = [p \in Procs |-> pc[p]]
  /\ decision = [c \in Cases |-> decision[c]] /\ recorded = [c \in Cases |-> recorded[c]]
  /\ \A p \in Procs : DOMAIN tx[p] = Fields /\ tx[p].outputs \in Seq(Outputs)

Exclusive == \A p \in Procs : pc[p] # "idle" => lock = p
Quiet == \A p \in Procs : pc[p] = "idle" => tx[p].outputs = <<>>

Owns(p, output) == \E i \in 1..Len(tx[p].outputs) : tx[p].outputs[i] = output
OwnedUnrecorded ==
  \A p \in Procs : Owns(p, "decision") /\ tx[p].case \in Cases => recorded[tx[p].case] = None

DecisionInv == Typed /\ Exclusive /\ Quiet /\ OwnedUnrecorded /\ RecordedStays

LEMMA IdleOwnsNothing ==
  /\ DOMAIN Idle = Fields /\ Idle.outputs = <<>> /\ Idle.outputs \in Seq(Outputs)
  /\ Idle.head = "kept" /\ Idle.id = None /\ Idle.found = None
BY DEF Idle, Fields, Outputs

\* The updates of a transaction's variables.
LEMMA TxUpdates ==
  ASSUME NEW t, DOMAIN t = Fields, NEW s, NEW v
  PROVE  /\ DOMAIN [t EXCEPT !.outputs = s] = Fields
         /\ [t EXCEPT !.outputs = s].outputs = s
         /\ [t EXCEPT !.outputs = s].case = t.case
         /\ DOMAIN [t EXCEPT !.head = v] = Fields
         /\ [t EXCEPT !.head = v].outputs = t.outputs
         /\ [t EXCEPT !.head = v].case = t.case
BY DEF Fields

LEMMA OneOutput ==
  /\ <<"case">> \in Seq(Outputs) /\ <<"decision">> \in Seq(Outputs) /\ <<"amendment">> \in Seq(Outputs)
BY DEF Outputs

LEMMA DecisionInvInit == Init => DecisionInv
<1> HIDE DEF Idle
<1>1. Init => Typed
  BY IdleOwnsNothing DEF Init, Typed
<1>2. Init => Exclusive /\ Quiet /\ OwnedUnrecorded /\ RecordedStays
  BY IdleOwnsNothing DEF Init, Exclusive, Quiet, OwnedUnrecorded, Owns, RecordedStays
<1> QED
  BY <1>1, <1>2 DEF DecisionInv

\* A step of the process inside the transaction that keeps the decisions: it goes on
\* and owns no decision it did not own, or it ends.
LEMMA InsideKeeps ==
  ASSUME DecisionInv, NEW p \in Procs, NEW label, NEW t,
         pc[p] # "idle", UNCHANGED <<decision, recorded>>,
         pc' = [pc EXCEPT ![p] = label], tx' = [tx EXCEPT ![p] = t],
         \/ /\ lock' = lock /\ label # "idle" /\ t.case = tx[p].case
            /\ DOMAIN t = Fields /\ t.outputs \in Seq(Outputs)
            /\ (\E i \in 1..Len(t.outputs) : t.outputs[i] = "decision") => Owns(p, "decision")
         \/ label = "idle" /\ t = Idle
  PROVE  DecisionInv'
<1> USE DEF DecisionInv
<1>1. \A q \in Procs \ {p} : pc[q] = "idle" /\ pc'[q] = "idle" /\ tx'[q] = tx[q]
  BY DEF Exclusive, Typed
<1>2. pc'[p] = label /\ tx'[p] = t
  BY DEF Typed
<1>3. Typed'
  BY <1>1, <1>2, IdleOwnsNothing DEF Typed
<1>4. Exclusive' /\ Quiet'
  BY <1>1, <1>2, IdleOwnsNothing DEF Exclusive, Quiet
<1>5. OwnedUnrecorded'
  BY <1>1, <1>2, IdleOwnsNothing DEF OwnedUnrecorded, Owns
<1> QED
  BY <1>3, <1>4, <1>5 DEF RecordedStays
\* A transaction begins when every process is outside of one.
LEMMA BeginKeeps == ASSUME LockNamesApart, DecisionInv, NEW p \in Procs, Begin(p) PROVE DecisionInv'
<1> USE DEF DecisionInv
<1>1. PICK t : /\ tx' = [tx EXCEPT ![p] = t] /\ DOMAIN t = Fields /\ t.outputs = <<>>
  <2>1. PICK op \in {"persist", "review", "promote"}, c \in Cases, time \in Times :
          tx' = [tx EXCEPT ![p] = [Idle EXCEPT !.op = op, !.case = c, !.asOf = time, !.found = current]]
    BY DEF Begin, Note
  <2>2. /\ DOMAIN [Idle EXCEPT !.op = op, !.case = c, !.asOf = time, !.found = current] = Fields
        /\ [Idle EXCEPT !.op = op, !.case = c, !.asOf = time, !.found = current].outputs = <<>>
    BY DEF Idle, Fields
  <2> QED
    BY <2>1, <2>2
<1>2. /\ \A q \in Procs : pc[q] = "idle"
      /\ pc' = [pc EXCEPT ![p] = "check"] /\ lock' = p /\ UNCHANGED <<decision, recorded>>
  BY DEF Begin, LockFree, LockNamesApart, Exclusive, Goto, governed, outside
<1>3. \A q \in Procs : tx'[q].outputs = <<>>
  BY <1>1, <1>2 DEF Quiet, Typed
<1>4. Typed'
  BY <1>1, <1>2, <1>3, IdleOwnsNothing DEF Typed
<1> QED
  BY <1>2, <1>3, <1>4 DEF Typed, Exclusive, Quiet, OwnedUnrecorded, Owns, RecordedStays

\* The one step that writes a decision: there was none, so none was recorded.
LEMMA WriteDecisionKeeps == ASSUME DecisionInv, NEW p \in Procs, WriteDecision(p) PROVE DecisionInv'
<1> USE DEF DecisionInv
<1> DEFINE c == tx[p].case
<1>0. pc[p] = "check" /\ lock' = lock /\ recorded' = recorded
  BY DEF WriteDecision, outside
<1>1. CASE KeepExisting(p)
  <2>1. /\ pc' = [pc EXCEPT ![p] = "outputs"] /\ tx' = [tx EXCEPT ![p] = tx[p]]
        /\ UNCHANGED <<decision, recorded>>
    BY <1>0, <1>1 DEF KeepExisting, Goto, Typed
  <2> QED
    BY <1>0, <2>1, InsideKeeps DEF Typed, Owns
<1>2. CASE ~KeepExisting(p)
  <2>1. PICK d, label :
          /\ label # "idle" /\ decision[c] = None /\ decision' = [decision EXCEPT ![c] = d]
          /\ pc' = [pc EXCEPT ![p] = label] /\ tx' = [tx EXCEPT ![p] = [tx[p] EXCEPT !.outputs = <<"decision">>]]
    BY <1>2 DEF WriteDecision, Goto, Note
  <2>2. \A q \in Procs \ {p} : pc[q] = "idle" /\ pc'[q] = "idle" /\ tx'[q] = tx[q]
    BY <1>0, <2>1 DEF Exclusive, Typed
  <2>3. /\ DOMAIN tx'[p] = Fields /\ tx'[p].case = c /\ tx'[p].outputs \in Seq(Outputs)
        /\ pc'[p] = label
    <3> DEFINE t == [tx[p] EXCEPT !.outputs = <<"decision">>]
    <3>1. DOMAIN t = Fields /\ t.case = c /\ t.outputs = <<"decision">>
      BY TxUpdates DEF Typed
    <3>2. tx'[p] = t /\ pc'[p] = label
      BY <2>1 DEF Typed
    <3> HIDE DEF t
    <3> QED
      BY <3>1, <3>2, OneOutput
  <2>4. c \in Cases => recorded[c] = None
    BY <2>1 DEF RecordedStays
  <2>6. Typed'
    BY <1>0, <2>1, <2>2, <2>3 DEF Typed
  <2>7. Exclusive' /\ Quiet'
    BY <1>0, <2>1, <2>2, <2>3 DEF Exclusive, Quiet
  <2>8. OwnedUnrecorded'
    BY <1>0, <2>2, <2>3, <2>4 DEF OwnedUnrecorded, Owns
  <2>9. RecordedStays'
    BY <1>0, <2>1, <2>4 DEF RecordedStays, Typed
  <2> QED
    BY <2>6, <2>7, <2>8, <2>9
<1> QED
  BY <1>1, <1>2
\* What goes on inside a transaction without a decision being written or removed.
LEMMA InsideStep ==
  ASSUME DecisionInv, NEW p \in Procs, NEW label, NEW t,
         pc[p] # "idle", label # "idle", UNCHANGED <<lock, decision, recorded>>,
         pc' = [pc EXCEPT ![p] = label], tx' = [tx EXCEPT ![p] = t],
         \/ t = tx[p]
         \/ \E v : t = [tx[p] EXCEPT !.head = v]
         \/ \E output \in Outputs \ {"decision"} : t = [tx[p] EXCEPT !.outputs = <<output>>]
         \/ t = [tx[p] EXCEPT !.outputs = Append(@, "asset")]
  PROVE  DecisionInv'
<1> DEFINE s == tx[p].outputs
<1>1. DOMAIN tx[p] = Fields /\ s \in Seq(Outputs)
  BY DEF DecisionInv, Typed
<1>2. /\ DOMAIN t = Fields /\ t.case = tx[p].case /\ t.outputs \in Seq(Outputs)
      /\ (\E i \in 1..Len(t.outputs) : t.outputs[i] = "decision") => Owns(p, "decision")
  <2>1. CASE t = tx[p]
    BY <1>1, <2>1 DEF Owns
  <2>2. CASE \E v : t = [tx[p] EXCEPT !.head = v]
    <3>1. DOMAIN t = Fields /\ t.case = tx[p].case /\ t.outputs = s
      BY <1>1, <2>2, TxUpdates
    <3> QED
      BY <1>1, <3>1 DEF Owns
  <2>3. CASE \E output \in Outputs \ {"decision"} : t = [tx[p] EXCEPT !.outputs = <<output>>]
    <3>1. PICK output \in Outputs \ {"decision"} : t = [tx[p] EXCEPT !.outputs = <<output>>]
      BY <2>3
    <3>2. DOMAIN t = Fields /\ t.case = tx[p].case /\ t.outputs = <<output>>
      BY <1>1, <3>1, TxUpdates
    <3> QED
      BY <3>2
  <2>4. CASE t = [tx[p] EXCEPT !.outputs = Append(@, "asset")]
    <3>1. DOMAIN t = Fields /\ t.case = tx[p].case /\ t.outputs = Append(s, "asset")
      BY <1>1, <2>4, TxUpdates
    <3>2. /\ Append(s, "asset") \in Seq(Outputs)
          /\ \A i \in 1..Len(Append(s, "asset")) :
               Append(s, "asset")[i] = "decision" => i \in 1..Len(s) /\ s[i] = "decision"
      BY <1>1 DEF Outputs
    <3> QED
      BY <3>1, <3>2 DEF Owns
  <2> QED
    BY <2>1, <2>2, <2>3, <2>4
<1> QED
  BY <1>2, InsideKeeps
\* A transaction that ends without having recorded anything.
LEMMA StopKeeps ==
  ASSUME DecisionInv, NEW p \in Procs, pc[p] # "idle", Stop(p), UNCHANGED <<decision, recorded>>
  PROVE  DecisionInv'
BY InsideKeeps DEF Stop, Goto, Note

\* The locks do not matter to a process that goes on; it keeps them or it stops.
LEMMA PublishCaseKeeps == ASSUME DecisionInv, NEW p \in Procs, PublishCase(p) PROVE DecisionInv'
<1>1. PICK label : /\ label # "idle" /\ pc' = [pc EXCEPT ![p] = label]
                   /\ tx' = [tx EXCEPT ![p] = [tx[p] EXCEPT !.outputs = <<"case">>]]
  BY DEF PublishCase, Goto, Note
<1> QED
  BY <1>1, InsideStep DEF PublishCase, Outputs, outside

LEMMA WriteAmendmentKeeps == ASSUME DecisionInv, NEW p \in Procs, WriteAmendment(p) PROVE DecisionInv'
<1> DEFINE c == tx[p].case
           id == AssetId(case[c].base, tx[p].asOf, Applied(Governed(tx[p].found) \cup {c}, case[c].base))
           t2 == [tx[p] EXCEPT !.id = id, !.supersedes = tx[p].found]
           t3 == [t2 EXCEPT !.outputs = <<"amendment">>]
<1>1. DOMAIN tx[p] = Fields /\ tx[p].outputs \in Seq(Outputs) /\ pc[p] # "idle"
  BY DEF DecisionInv, Typed, WriteAmendment
<1>2. DOMAIN t2 = Fields /\ t2.case = tx[p].case /\ t2.outputs = tx[p].outputs
  <2> HIDE DEF id
  <2> QED
    BY <1>1 DEF Fields
<1> HIDE DEF t2
<1>3. DOMAIN t3 = Fields /\ t3.case = tx[p].case /\ t3.outputs = <<"amendment">>
  BY <1>2, TxUpdates
<1>4. \E label, t : /\ label # "idle" /\ t \in {t2, t3}
                    /\ pc' = [pc EXCEPT ![p] = label] /\ tx' = [tx EXCEPT ![p] = t]
  <2>1. \/ Note(p, t2) /\ Goto(p, "asset")
        \/ Note(p, t3) /\ \E late \in {FALSE} \cup {"amendment" \in LateFailures} :
                             Goto(p, IF late THEN "undo" ELSE "asset")
    BY Zenon DEF WriteAmendment, t2, t3, id, c
  <2> HIDE DEF t3
  <2>2. CASE Note(p, t2) /\ Goto(p, "asset")
    BY <2>2 DEF Note, Goto
  <2>3. CASE Note(p, t3) /\ \E late \in {FALSE} \cup {"amendment" \in LateFailures} :
                              Goto(p, IF late THEN "undo" ELSE "asset")
    BY <2>3 DEF Note, Goto
  <2> QED
    BY <2>1, <2>2, <2>3
<1>5. UNCHANGED <<lock, decision, recorded>>
  BY DEF WriteAmendment, outside
<1> HIDE DEF t3
<1>6. PICK label, t : /\ label # "idle" /\ t \in {t2, t3}
                      /\ pc' = [pc EXCEPT ![p] = label] /\ tx' = [tx EXCEPT ![p] = t]
  BY <1>4
<1>7. /\ DOMAIN t = Fields /\ t.case = tx[p].case
      /\ t.outputs = tx[p].outputs \/ t.outputs = <<"amendment">>
  BY <1>2, <1>3, <1>6
<1>8. /\ t.outputs \in Seq(Outputs)
      /\ (\E i \in 1..Len(t.outputs) : t.outputs[i] = "decision") => Owns(p, "decision")
  <2>1. CASE t.outputs = tx[p].outputs
    BY <1>1, <2>1 DEF Owns
  <2>2. CASE t.outputs = <<"amendment">>
    <3>1. Len(t.outputs) = 1 /\ t.outputs[1] = "amendment"
      BY <2>2
    <3> QED
      BY <2>2, <3>1, OneOutput
  <2> QED
    BY <1>7, <2>1, <2>2
<1> QED
  BY <1>1, <1>5, <1>6, <1>7, <1>8, InsideKeeps

LEMMA PublishAssetKeeps == ASSUME DecisionInv, NEW p \in Procs, PublishAsset(p) PROVE DecisionInv'
<1>1. PICK label, t : /\ label # "idle" /\ pc' = [pc EXCEPT ![p] = label] /\ tx' = [tx EXCEPT ![p] = t]
                      /\ t = tx[p] \/ t = [tx[p] EXCEPT !.outputs = Append(@, "asset")]
  <2>1. CASE UNCHANGED tx
    <3>1. tx' = [tx EXCEPT ![p] = tx[p]]
      BY <2>1 DEF DecisionInv, Typed
    <3> QED
      BY <2>1, <3>1 DEF PublishAsset, Goto, Note
  <2>2. CASE Note(p, [tx[p] EXCEPT !.outputs = Append(@, "asset")])
    BY <2>2 DEF PublishAsset, Goto, Note
  <2> QED
    BY <2>1, <2>2 DEF PublishAsset
<1> QED
  BY <1>1, InsideStep DEF PublishAsset, outside

LEMMA PointerKeeps ==
  ASSUME DecisionInv, NEW p \in Procs, MovePointer(p) \/ LinkPointer(p) \/ LinkFails(p)
  PROVE  DecisionInv'
<1>1. pc[p] # "idle" /\ UNCHANGED <<decision, recorded>>
  BY DEF MovePointer, LinkPointer, LinkFails, outside
<1>2. \/ Stop(p)
      \/ \E label, t, v : /\ label # "idle" /\ lock' = lock /\ t = [tx[p] EXCEPT !.head = v]
                          /\ pc' = [pc EXCEPT ![p] = label] /\ tx' = [tx EXCEPT ![p] = t]
  BY DEF MovePointer, LinkPointer, LinkFails, Goto, Note
<1> QED
  BY <1>1, <1>2, StopKeeps, InsideStep

LEMMA HeadKeeps ==
  ASSUME DecisionInv, NEW p \in Procs,
         UnlinkPointer(p) \/ UnlinkFails(p) \/ RestorePointer(p) \/ RetirePointer(p) \/ StepFails(p)
  PROVE  DecisionInv'
<1>1. pc[p] # "idle" /\ UNCHANGED <<decision, recorded>>
  BY DEF UnlinkPointer, UnlinkFails, RestorePointer, RetirePointer, StepFails, governed, outside
<1>2. tx = [tx EXCEPT ![p] = tx[p]]
  BY DEF DecisionInv, Typed
<1>3. \/ Stop(p)
      \/ \E label, t, v : /\ label # "idle" /\ lock' = lock
                          /\ t = tx[p] \/ t = [tx[p] EXCEPT !.head = v]
                          /\ pc' = [pc EXCEPT ![p] = label] /\ tx' = [tx EXCEPT ![p] = t]
  <2>1. CASE UnlinkPointer(p)
    <3>1. CASE UNCHANGED tx
      BY <1>2, <2>1, <3>1 DEF UnlinkPointer, Goto
    <3>2. CASE Note(p, [tx[p] EXCEPT !.head = "moved"])
      BY <2>1, <3>2 DEF UnlinkPointer, Goto, Note
    <3> QED
      BY <2>1, <3>1, <3>2 DEF UnlinkPointer
  <2>2. CASE UnlinkFails(p) \/ RestorePointer(p)
    BY <1>2, <2>2 DEF UnlinkFails, RestorePointer, Goto
  <2>3. CASE RetirePointer(p) \/ StepFails(p)
    BY <1>2, <2>3 DEF RetirePointer, StepFails, Goto
  <2> QED
    BY <2>1, <2>2, <2>3
<1> QED
  BY <1>1, <1>3, StopKeeps, InsideStep
\* Removing the last output: a decision only when it was not recorded.
LEMMA RemoveOutputKeeps == ASSUME DecisionInv, NEW p \in Procs, RemoveOutput(p) PROVE DecisionInv'
<1> USE DEF DecisionInv
<1> DEFINE s == tx[p].outputs
           last == s[Len(s)]
           rest == SubSeq(s, 1, Len(s) - 1)
           c == tx[p].case
<1>1. /\ s \in Seq(Outputs) /\ s # <<>> /\ pc' = pc /\ lock' = lock /\ recorded' = recorded
      /\ tx' = [tx EXCEPT ![p] = [tx[p] EXCEPT !.outputs = rest]]
      /\ decision' = IF last = "decision" THEN [decision EXCEPT ![c] = None] ELSE decision
      /\ pc[p] = "outputs"
  BY DEF RemoveOutput, RemoveLast, Note, Typed, outside
<1>2. /\ rest \in Seq(Outputs) /\ Len(s) \in 1..Len(s)
      /\ \A i \in 1..Len(rest) : i \in 1..Len(s) /\ rest[i] = s[i]
  BY <1>1 DEF Outputs
<1> DEFINE t == [tx[p] EXCEPT !.outputs = rest]
<1>3. DOMAIN t = Fields /\ t.case = c /\ t.outputs = rest
  BY TxUpdates DEF Typed
<1>4. tx'[p] = t /\ \A q \in Procs \ {p} : tx'[q] = tx[q]
  BY <1>1 DEF Typed
<1> HIDE DEF t, rest
<1>5. last = "decision" /\ c \in Cases => recorded[c] = None
  BY <1>1, <1>2 DEF OwnedUnrecorded, Owns
<1>6. RecordedStays'
  BY <1>1, <1>5 DEF RecordedStays, Typed
<1>7. OwnedUnrecorded'
  BY <1>1, <1>2, <1>3, <1>4 DEF OwnedUnrecorded, Owns
<1>8. Typed'
  <2>1. decision' = [e \in Cases |-> decision'[e]] /\ tx' = [q \in Procs |-> tx'[q]]
    BY <1>1 DEF Typed
  <2> QED
    BY <1>1, <1>2, <1>3, <1>4, <2>1 DEF Typed
<1>9. Exclusive' /\ Quiet'
  BY <1>1, <1>4 DEF Exclusive, Quiet
<1> QED
  BY <1>6, <1>7, <1>8, <1>9

\* A recording returns with what is on disk under the case.
LEMMA CloseKeeps == ASSUME DecisionInv, NEW p \in Procs, Close(p) PROVE DecisionInv'
<1> USE DEF DecisionInv
<1>1. pc[p] = "close" /\ decision' = decision
  BY DEF Close, governed
<1>2. CASE lock' = "free" /\ Return(p) /\ Stop(p)
  <2>1. \A q \in Procs : pc'[q] = "idle" /\ tx'[q].outputs = <<>>
    BY <1>1, <1>2, IdleOwnsNothing DEF Stop, Goto, Note, Exclusive, Quiet, Typed
  <2>2. recorded' = recorded \/ recorded' = [recorded EXCEPT ![tx[p].case] = decision[tx[p].case]]
    BY <1>2 DEF Return
  <2>3. Typed'
    BY <1>1, <1>2, <2>2, IdleOwnsNothing DEF Typed, Stop, Goto, Note
  <2>4. RecordedStays'
    BY <1>1, <2>2 DEF RecordedStays, Typed
  <2> QED
    BY <2>1, <2>3, <2>4 DEF Exclusive, Quiet, OwnedUnrecorded, Owns
<1>3. CASE ~(lock' = "free" /\ Return(p) /\ Stop(p))
  <2>1. PICK label : /\ label # "idle" /\ pc' = [pc EXCEPT ![p] = label]
                     /\ UNCHANGED <<lock, tx, recorded>>
    BY <1>3 DEF Close, Goto
  <2>2. tx' = [tx EXCEPT ![p] = tx[p]]
    BY <2>1 DEF Typed
  <2> QED
    BY <1>1, <2>1, <2>2, InsideStep
<1> QED
  BY <1>2, <1>3

LEMMA DecisionInvNext == ASSUME LockNamesApart, DecisionInv, [Next]_vars PROVE DecisionInv'
<1>1. ASSUME NEW p \in Procs, Refuse(p) \/ RemoveFails(p) \/ Undone(p) \/ Crash(p)
      PROVE  DecisionInv'
  BY <1>1, StopKeeps DEF Refuse, RemoveFails, Undone, Crash, governed, outside
<1>2. ASSUME NEW p \in Procs, Command(p)
      PROVE  DecisionInv'
  BY <1>1, <1>2, PublishCaseKeeps, WriteDecisionKeeps, WriteAmendmentKeeps, PublishAssetKeeps, PointerKeeps,
     HeadKeeps, RemoveOutputKeeps, CloseKeeps
  DEF Command, Promote, RollBack
<1>3. ASSUME UNCHANGED <<decision, recorded, pc, tx>>, lock' = lock \/ lock = "stale"
      PROVE  DecisionInv'
  <2>1. Exclusive'
    BY <1>3 DEF DecisionInv, Exclusive, LockNamesApart
  <2> QED
    BY <1>3, <2>1 DEF DecisionInv, Typed, Quiet, OwnedUnrecorded, Owns, RecordedStays
<1>4. (\E r \in Readers : Read(r)) => UNCHANGED <<decision, recorded, pc, tx, lock>>
  BY DEF Read, ReadPointer, ReadAsset, ReadBase, EndRead, governed
<1>5. ApproveNormative \/ ClearLocks => UNCHANGED <<decision, recorded, pc, tx>> /\ (lock' = lock \/ lock = "stale")
  BY DEF ApproveNormative, ClearLocks, governed
<1> QED
  BY <1>1, <1>2, <1>3, <1>4, <1>5, BeginKeeps DEF Next, vars

\* What was recorded as a decision is what is read, for good: of any number of processes
\* that record, fail, retry and die, none removes or replaces it.
THEOREM RecordedStaysAlways == ASSUME LockNamesApart PROVE Spec => []RecordedStays
<1>1. DecisionInv => RecordedStays
  BY DEF DecisionInv
<1> QED
  BY <1>1, DecisionInvInit, DecisionInvNext, PTL DEF Spec
-----------------------------------------------------------------------------
(* Reads.  Releases only move forward, so an asset that was ever composed, *)
(* pointed at or read has a base that is not ahead of the current release. *)

Past(n) == n \in Nat /\ n <= normative

PastAsset(id) == id = None \/ Past(id.base)

Remembered(p) == PastAsset(tx[p].found) /\ PastAsset(tx[p].id)

\* The pointer's base is not ahead of the release that was current when it was read.
ReadInOrder(r) ==
  LET s == reading[r] IN
  /\ DOMAIN s = {"step", "pointer", "since"}
  /\ s.step # "idle" => Past(s.since) /\ s.pointer.base \in Nat /\ s.pointer.base <= s.since

ReadingInv ==
  /\ normative \in Nat /\ PastAsset(current)
  /\ tx = [p \in Procs |-> tx[p]] /\ \A p \in Procs : DOMAIN tx[p] = Fields /\ Remembered(p)
  /\ reading = [r \in Readers |-> reading[r]] /\ \A r \in Readers : ReadInOrder(r)
  /\ ServedWasCurrent

LEMMA ReadingInvInit == Init => ReadingInv
<1> HIDE DEF Idle
<1> QED
  BY IdleOwnsNothing
  DEF Init, ReadingInv, PastAsset, Remembered, ReadInOrder, ServedWasCurrent, NotReading

\* The steps of a command: each remembers the pointer it found, the id it composed on the
\* current release, or nothing, and sets the pointer to one of them.
LEMMA RememberedKeeps ==
  ASSUME ReadingInv, NEW p \in Procs, NEW t, UNCHANGED <<normative, reading>>,
         tx' = [tx EXCEPT ![p] = t], DOMAIN t = Fields, PastAsset(t.found), PastAsset(t.id),
         PastAsset(current')
  PROVE  ReadingInv'
<1>1. \A q \in Procs : DOMAIN tx'[q] = Fields /\ PastAsset(tx'[q].found) /\ PastAsset(tx'[q].id)
  BY DEF ReadingInv, Remembered
<1>2. tx' = [q \in Procs |-> tx'[q]]
  BY DEF ReadingInv
<1> QED
  BY <1>1, <1>2 DEF ReadingInv, Remembered, PastAsset, Past, ReadInOrder, ServedWasCurrent

LEMMA UpdatesRemember ==
  ASSUME NEW t, DOMAIN t = Fields, NEW v, NEW s
  PROVE  /\ DOMAIN [t EXCEPT !.head = v] = Fields
         /\ [t EXCEPT !.head = v].found = t.found /\ [t EXCEPT !.head = v].id = t.id
         /\ DOMAIN [t EXCEPT !.outputs = s] = Fields
         /\ [t EXCEPT !.outputs = s].found = t.found /\ [t EXCEPT !.outputs = s].id = t.id
BY DEF Fields
\* Every step but the one that composes: what is remembered stays or is forgotten, and
\* the pointer is kept, removed, restored or set to the composed asset.
LEMMA RememberingStep ==
  ASSUME ReadingInv, NEW p \in Procs, NEW t, UNCHANGED <<normative, reading>>,
         tx' = [tx EXCEPT ![p] = t],
         \/ t = tx[p] \/ t = Idle
         \/ \E v : t = [tx[p] EXCEPT !.head = v]
         \/ \E s : t = [tx[p] EXCEPT !.outputs = s],
         current' \in {current, tx[p].found, tx[p].id, None}
  PROVE  ReadingInv'
<1>1. DOMAIN tx[p] = Fields /\ Remembered(p) /\ PastAsset(current) /\ PastAsset(None)
  BY DEF ReadingInv, PastAsset
<1>2. DOMAIN t = Fields /\ PastAsset(t.found) /\ PastAsset(t.id)
  <2>1. CASE t = Idle
    BY <1>1, <2>1, IdleOwnsNothing
  <2>2. CASE t # Idle
    <3>1. DOMAIN t = Fields /\ t.found = tx[p].found /\ t.id = tx[p].id
      <4>1. CASE \E v : t = [tx[p] EXCEPT !.head = v]
        BY <1>1, <4>1, UpdatesRemember
      <4>2. CASE \E outs : t = [tx[p] EXCEPT !.outputs = outs]
        BY <1>1, <4>2, UpdatesRemember
      <4>3. CASE t = tx[p]
        BY <1>1, <4>3
      <4> QED
        BY <2>2, <4>1, <4>2, <4>3
    <3> QED
      BY <1>1, <3>1 DEF Remembered
  <2> QED
    BY <2>1, <2>2
<1>3. PastAsset(current')
  BY <1>1 DEF Remembered
<1> QED
  BY <1>2, <1>3, RememberedKeeps

LEMMA BeginRemembers == ASSUME ReadingInv, NEW p \in Procs, Begin(p) PROVE ReadingInv'
<1>1. PICK op \in {"persist", "review", "promote"}, c \in Cases, time \in Times :
        tx' = [tx EXCEPT ![p] = [Idle EXCEPT !.op = op, !.case = c, !.asOf = time, !.found = current]]
  BY DEF Begin, Note
<1> DEFINE t == [Idle EXCEPT !.op = op, !.case = c, !.asOf = time, !.found = current]
<1>2. DOMAIN t = Fields /\ t.found = current /\ t.id = None
  BY DEF Idle, Fields
<1>3. UNCHANGED <<normative, reading, current>> /\ PastAsset(current) /\ PastAsset(None)
  BY DEF Begin, governed, outside, ReadingInv, PastAsset
<1> HIDE DEF t
<1> QED
  BY <1>1, <1>2, <1>3, RememberedKeeps DEF t

\* A promotion composes on the release that is current.
LEMMA ComposeRemembers == ASSUME ReadingInv, NEW p \in Procs, WriteAmendment(p) PROVE ReadingInv'
<1> DEFINE c == tx[p].case
           id == AssetId(case[c].base, tx[p].asOf, Applied(Governed(tx[p].found) \cup {c}, case[c].base))
           t2 == [tx[p] EXCEPT !.id = id, !.supersedes = tx[p].found]
           t3 == [t2 EXCEPT !.outputs = <<"amendment">>]
<1>1. DOMAIN tx[p] = Fields /\ Remembered(p) /\ normative \in Nat /\ PastAsset(current)
  BY DEF ReadingInv
<1>2. PastAsset(id)
  BY <1>1 DEF WriteAmendment, Eligible, AssetId, PastAsset, Past
<1>3. DOMAIN t2 = Fields /\ t2.found = tx[p].found /\ t2.id = id
  <2> HIDE DEF id
  <2> QED
    BY <1>1 DEF Fields
<1>4. DOMAIN t3 = Fields /\ t3.found = tx[p].found /\ t3.id = id
  <2> HIDE DEF t2, id
  <2> QED
    BY <1>3, UpdatesRemember
<1>5. Note(p, t2) \/ Note(p, t3)
  BY Zenon DEF WriteAmendment, t2, t3, id, c
<1>6. UNCHANGED <<normative, reading, current>>
  BY DEF WriteAmendment, outside
<1> HIDE DEF t2, t3, id
<1> QED
  BY <1>1, <1>2, <1>3, <1>4, <1>5, <1>6, RememberedKeeps DEF Note, Remembered

LEMMA CommandRemembers == ASSUME ReadingInv, NEW p \in Procs, Command(p) \/ Crash(p) PROVE ReadingInv'
<1>0. tx = [tx EXCEPT ![p] = tx[p]]
  BY DEF ReadingInv
<1>1. CASE Refuse(p) \/ RemoveFails(p) \/ Undone(p) \/ Crash(p)
  BY <1>1, RememberingStep DEF Refuse, RemoveFails, Undone, Crash, Stop, Note, governed, outside
<1>2. CASE PublishCase(p)
  BY <1>2, RememberingStep DEF PublishCase, Note, outside
<1>3. CASE WriteDecision(p)
  BY <1>0, <1>3, RememberingStep DEF WriteDecision, KeepExisting, Note, outside
<1>4. CASE PublishAsset(p)
  <2>1. tx' = tx \/ Note(p, [tx[p] EXCEPT !.outputs = Append(@, "asset")])
    BY <1>4 DEF PublishAsset
  <2> QED
    BY <1>0, <1>4, <2>1, RememberingStep DEF PublishAsset, Note, outside
<1>5. CASE MovePointer(p) \/ LinkPointer(p) \/ LinkFails(p)
  <2>1. current' \in {current, tx[p].found, tx[p].id, None} /\ UNCHANGED <<normative, reading>>
    BY <1>5 DEF MovePointer, LinkPointer, LinkFails, outside
  <2>2. \E t, v : tx' = [tx EXCEPT ![p] = t] /\ (t = Idle \/ t = [tx[p] EXCEPT !.head = v])
    BY <1>5 DEF MovePointer, LinkPointer, LinkFails, Stop, Note
  <2> QED
    BY <2>1, <2>2, RememberingStep
<1>6. CASE RetirePointer(p) \/ StepFails(p)
  BY <1>0, <1>6, RememberingStep DEF RetirePointer, StepFails, Stop, Note, governed, outside
<1>7. CASE UnlinkPointer(p) \/ UnlinkFails(p) \/ RestorePointer(p)
  <2>1. current' \in {current, tx[p].found, tx[p].id, None} /\ UNCHANGED <<normative, reading>>
    BY <1>7 DEF UnlinkPointer, UnlinkFails, RestorePointer, outside
  <2>2. tx' = tx \/ Stop(p) \/ Note(p, [tx[p] EXCEPT !.head = "moved"])
    BY <1>7 DEF UnlinkPointer, UnlinkFails, RestorePointer
  <2> QED
    BY <1>0, <2>1, <2>2, RememberingStep DEF Stop, Note
<1>8. CASE RemoveOutput(p)
  BY <1>8, RememberingStep DEF RemoveOutput, RemoveLast, Note, outside
<1>9. CASE Close(p)
  BY <1>0, <1>9, RememberingStep DEF Close, Stop, Note, governed
<1> QED
  BY <1>1, <1>2, <1>3, <1>4, <1>5, <1>6, <1>7, <1>8, <1>9, ComposeRemembers DEF Command, Promote, RollBack

\* The reader checks the base against the release that is current after it read the pointer.
LEMMA ReadRemembers == ASSUME ReadingInv, NEW r \in Readers, Read(r) PROVE ReadingInv'
<1> DEFINE s == reading[r]
<1>1. /\ UNCHANGED <<normative, current, tx>> /\ ReadInOrder(r)
      /\ s.step = "served" => s.pointer.base = s.since
      /\ reading' = [q \in Readers |-> reading'[q]] /\ \A q \in Readers \ {r} : reading'[q] = reading[q]
  BY DEF Read, ReadPointer, ReadAsset, ReadBase, EndRead, ReadingInv, ServedWasCurrent, governed
<1>2. \/ reading'[r] = NotReading
      \/ current # None /\ reading'[r] = [step |-> "asset", pointer |-> current, since |-> normative]
      \/ s.step # "idle" /\ reading'[r] = [s EXCEPT !.step = "base"]
      \/ s.step # "idle" /\ BaseStillCurrent(r) /\ reading'[r] = [s EXCEPT !.step = "served"]
  BY DEF Read, ReadPointer, ReadAsset, ReadBase, EndRead, ReadingInv
<1>3. \A step : /\ DOMAIN [s EXCEPT !.step = step] = {"step", "pointer", "since"}
                /\ [s EXCEPT !.step = step].pointer = s.pointer /\ [s EXCEPT !.step = step].since = s.since
                /\ [s EXCEPT !.step = step].step = step
  BY <1>1 DEF ReadInOrder
<1>4. ReadInOrder(r)' /\ (reading'[r].step = "served" => reading'[r].pointer.base = reading'[r].since)
  <2>1. CASE reading'[r] = NotReading
    BY <2>1 DEF NotReading, ReadInOrder
  <2>2. CASE current # None /\ reading'[r] = [step |-> "asset", pointer |-> current, since |-> normative]
    BY <1>1, <2>2 DEF ReadInOrder, ReadingInv, PastAsset, Past
  <2>3. CASE s.step # "idle" /\ reading'[r] = [s EXCEPT !.step = "base"]
    BY <1>1, <1>3, <2>3 DEF ReadInOrder, Past
  <2>4. CASE s.step # "idle" /\ BaseStillCurrent(r) /\ reading'[r] = [s EXCEPT !.step = "served"]
    <3>1. s.pointer.base = s.since
      BY <1>1, <2>4 DEF ReadInOrder, Past, BaseStillCurrent, ReadingInv
    <3> QED
      BY <1>1, <1>3, <2>4, <3>1 DEF ReadInOrder, Past
  <2> QED
    BY <1>2, <2>1, <2>2, <2>3, <2>4
<1>5. \A q \in Readers : ReadInOrder(q)' /\ (reading'[q].step = "served" => reading'[q].pointer.base = reading'[q].since)
  <2>1. ASSUME NEW q \in Readers, q # r
        PROVE  ReadInOrder(q)' /\ (reading'[q].step = "served" => reading'[q].pointer.base = reading'[q].since)
    BY <1>1, <2>1 DEF ReadInOrder, Past, ReadingInv, ServedWasCurrent
  <2> QED
    BY <1>4, <2>1
<1> QED
  BY <1>1, <1>5 DEF ReadingInv, ServedWasCurrent, Remembered, PastAsset, Past

LEMMA ReadingInvNext == ASSUME ReadingInv, [Next]_vars PROVE ReadingInv'
<1>1. CASE ApproveNormative
  <2>1. /\ normative \in Nat /\ normative' = normative + 1 /\ UNCHANGED <<current, tx, reading>>
        /\ \A n : Past(n) => Past(n)'
    BY <1>1 DEF ApproveNormative, ReadingInv, Past, governed
  <2> QED
    BY <2>1 DEF ReadingInv, Remembered, PastAsset, ReadInOrder, ServedWasCurrent
<1>2. CASE ClearLocks \/ UNCHANGED vars
  BY <1>2 DEF ClearLocks, vars, governed, ReadingInv, Remembered, PastAsset, Past, ReadInOrder, ServedWasCurrent
<1> QED
  BY <1>1, <1>2, BeginRemembers, CommandRemembers, ReadRemembers DEF Next

\* A reader that takes no lock is only served an asset whose base was the current release
\* when it read the scope's pointer, for any number of readers and promotions.
THEOREM ServedWasCurrentAlways == Spec => []ServedWasCurrent
<1>1. ReadingInv => ServedWasCurrent
  BY DEF ReadingInv
<1> QED
  BY <1>1, ReadingInvInit, ReadingInvNext, PTL DEF Spec
-----------------------------------------------------------------------------
(* Promotions.  While no operator removed a lock, the assets are one chain *)
(* that ends in the scope's pointer; a promotion adds to it what it owns.  *)

Ids(S) == {a.id : a \in S}

\* S is a chain of assets of which cur is the tip: nothing supersedes it, what it
\* reaches is all of S.
Spine(S, cur) ==
  /\ cur \in Ids(S)
  /\ \A a \in S : a.id # None /\ a.supersedes \in Ids(S) \cup {None} /\ a.supersedes # cur
  /\ \A T \in SUBSET Ids(S) :
       cur \in T /\ (\A a \in S : a.id \in T => a.supersedes \in T \cup {None}) => T = Ids(S)

Whole(S, A, cur) ==
  /\ IF cur = None THEN S = {} ELSE Spine(S, cur)
  /\ A = {a.amendment : a \in S} /\ A \subseteq Cases

OwnAssets(t) == IF t.outputs \in {<<"asset">>, <<"amendment", "asset">>} THEN {NewAsset(t)} ELSE {}
OwnAmendments(t) == IF t.outputs \in {<<"amendment">>, <<"amendment", "asset">>} THEN {t.case} ELSE {}

\* What a promotion owns is there, comes on top of what it found and can be removed again.
Additions(t) ==
  /\ OwnAssets(t) \subseteq assets /\ OwnAmendments(t) \subseteq amended
  /\ Whole(assets \ OwnAssets(t), amended \ OwnAmendments(t), t.found)
  /\ promoted \subseteq amended \ OwnAmendments(t)

\* The promotion's asset is made, its amendment in place.
Made(t) ==
  /\ OwnAssets(t) = {NewAsset(t)} /\ t.case \in amended
  /\ t.id \notin Ids(assets \ OwnAssets(t))

Composed(t) == t.supersedes = t.found /\ t.id # None

PromotionFits(l, t) ==
  /\ t.outputs \in {<<>>, <<"amendment">>, <<"asset">>, <<"amendment", "asset">>}
  /\ Additions(t)
  /\ l \in {"check", "asset", "pointer", "link", "retire", "close", "undo", "restore", "outputs"}
  /\ l \in {"check", "asset", "pointer", "outputs"} => current = t.found
  /\ l \in {"link", "restore"} => current = None /\ t.found # None
  /\ l \in {"retire", "close"} => current = t.id /\ t.head = "linked"
  /\ l = "check" => t.outputs = <<>>
  /\ l \in {"check", "asset", "pointer"} => t.head = "kept"
  /\ l = "asset" => OwnAssets(t) = {} /\ t.case \in amended
  /\ l \in {"asset", "pointer", "link", "retire", "close"} => Composed(t)
  /\ l \in {"pointer", "link", "retire", "close"} => Made(t)
  /\ l = "undo" => IF t.head = "linked" THEN current = t.id ELSE current = t.found

AtRest == Whole(assets, amended, current) /\ promoted \subseteq amended

RecordFits(l, t) ==
  /\ l \in {"check", "outputs", "close"}
  /\ t.outputs \in {<<>>, <<"case">>, <<"decision">>}
  /\ l = "check" => t.outputs = <<>>
  /\ AtRest

TxFits(l, t) ==
  /\ t.case \in Cases /\ t.asOf \in Times
  /\ l = "check" => t.found = current /\ t.head = "kept"
  /\ IF t.op = "promote" THEN PromotionFits(l, t) ELSE RecordFits(l, t)

PromotionInv ==
  /\ cleared \in Nat /\ normative \in Nat
  /\ cleared = 0 =>
       /\ lock = "free" => AtRest
       /\ \A p \in Procs : pc[p] # "idle" => TxFits(pc[p], tx[p])

\* A chain is extended by what supersedes its tip.
LEMMA SpineExtends ==
  ASSUME NEW S, NEW cur, NEW n, IF cur = None THEN S = {} ELSE Spine(S, cur),
         n.id # None, n.supersedes = cur, n.id \notin Ids(S)
  PROVE  Spine(S \cup {n}, n.id)
<1> DEFINE R == S \cup {n}
<1>1. Ids(R) = Ids(S) \cup {n.id}
  BY DEF Ids
<1>2. n.id \in Ids(R)
  BY <1>1
<1>3. n.supersedes \in Ids(S) \cup {None}
  BY DEF Spine
<1>4. \A a \in S : a.id # None /\ a.id \in Ids(S) /\ a.supersedes \in Ids(S) \cup {None}
  BY DEF Spine, Ids
<1>5. \A a \in R : a.id # None /\ a.supersedes \in Ids(R) \cup {None} /\ a.supersedes # n.id
  BY <1>1, <1>3, <1>4
<1>6. ASSUME NEW T \in SUBSET Ids(R), n.id \in T,
             \A a \in R : a.id \in T => a.supersedes \in T \cup {None}
      PROVE  T = Ids(R)
  <2>1. CASE cur = None
    BY <1>1, <1>6, <2>1 DEF Ids
  <2>2. CASE cur # None
    <3> DEFINE U == T \cap Ids(S)
    <3>1. cur \in U
      BY <1>3, <1>6, <2>2
    <3>2. \A a \in S : a.id \in U => a.supersedes \in U \cup {None}
      BY <1>4, <1>6
    <3>3. U = Ids(S)
      BY <2>2, <3>1, <3>2 DEF Spine
    <3> QED
      BY <1>1, <1>6, <3>3
  <2> QED
    BY <2>1, <2>2
<1> HIDE DEF R
<1>7. Spine(R, n.id)
  BY <1>2, <1>5, <1>6 DEF Spine
<1> QED
  BY <1>7 DEF R

LEMMA WholeExtends ==
  ASSUME NEW S, NEW A, NEW cur, NEW n, Whole(S, A, cur),
         n.id # None, n.supersedes = cur, n.id \notin Ids(S), n.amendment \in Cases
  PROVE  Whole(S \cup {n}, A \cup {n.amendment}, n.id)
<1>1. Spine(S \cup {n}, n.id)
  BY SpineExtends DEF Whole
<1> QED
  BY <1>1 DEF Whole

\* Nothing supersedes what a whole chain ends in.
LEMMA TipIsFree ==
  ASSUME NEW S, NEW A, NEW cur, Whole(S, A, cur), NEW a \in S
  PROVE  a.supersedes # cur
BY DEF Whole, Spine

\* What the pointer reaches in a chain it ends.
LEMMA ChainIsWhole ==
  ASSUME NEW A, NEW cur, cur # None, Whole(assets, A, cur)
  PROVE  Chain(cur) = Ids(assets) /\ Bound(cur) /\ Governed(cur) = A
<1> DEFINE I == Ids(assets)
<1>1. Spine(assets, cur)
  BY DEF Whole
<1>2. cur \in I /\ None \notin I /\ \A a \in assets : a.id \in I /\ a.supersedes \in I \cup {None}
  BY <1>1 DEF Spine, Ids
<1>3. Named(cur) \subseteq I \cup {None} /\ I \subseteq Named(cur)
  BY <1>2 DEF Named, Ids
<1>4. I \subseteq Chain(cur)
  <2> SUFFICES ASSUME NEW S \in SUBSET Named(cur), cur \in S,
                      \A a \in assets : a.id \in S => a.supersedes \in S
               PROVE  I \subseteq S
    BY <1>2, <1>3 DEF Chain
  <2>1. \A a \in assets : a.id \in S \cap I => a.supersedes \in (S \cap I) \cup {None}
    BY <1>2
  <2>2. S \cap I = I
    BY <1>1, <1>2, <2>1 DEF Spine
  <2> QED
    BY <2>2
<1>5. Chain(cur) \subseteq I
  BY <1>3 DEF Chain
<1>6. Bound(cur)
  BY <1>5 DEF Bound, Published, Ids
<1>7. Governed(cur) = A
  BY <1>2, <1>4 DEF Governed, Lineage, Whole
<1> QED
  BY <1>4, <1>5, <1>6, <1>7

\* What a promotion may own, by its outputs.
LEMMA Tuples ==
  /\ <<"asset">> # <<>> /\ <<"amendment">> # <<>> /\ <<"amendment", "asset">> # <<>>
  /\ <<"asset">> # <<"amendment">> /\ <<"asset">> # <<"amendment", "asset">>
  /\ <<"amendment">> # <<"amendment", "asset">>
  /\ <<"case">> # <<>> /\ <<"decision">> # <<>>
  /\ Append(<<>>, "asset") = <<"asset">> /\ Append(<<"amendment">>, "asset") = <<"amendment", "asset">>
<1>1. /\ Len(<<>>) = 0 /\ Len(<<"asset">>) = 1 /\ Len(<<"amendment">>) = 1 /\ Len(<<"amendment", "asset">>) = 2
      /\ Len(<<"case">>) = 1 /\ Len(<<"decision">>) = 1
      /\ <<"asset">>[1] = "asset" /\ <<"amendment">>[1] = "amendment"
  OBVIOUS
<1>2. Append(<<>>, "asset") = <<"asset">>
  <2>1. <<>> \in Seq(Outputs) /\ "asset" \in Outputs /\ <<"asset">> \in Seq(Outputs)
    BY DEF Outputs
  <2>2. Append(<<>>, "asset") \in Seq(Outputs) /\ Len(Append(<<>>, "asset")) = 1 /\ Append(<<>>, "asset")[1] = "asset"
    BY <1>1, <2>1, AppendProperties
  <2> QED
    BY <1>1, <2>1, <2>2, SeqEqual
<1>3. Append(<<"amendment">>, "asset") = <<"amendment", "asset">>
  <2> DEFINE s == <<"amendment">>  t == <<"amendment", "asset">>
  <2>1. s \in Seq(Outputs) /\ "asset" \in Outputs /\ t \in Seq(Outputs) /\ t[1] = "amendment" /\ t[2] = "asset"
    BY DEF Outputs
  <2>2. Len(s) = 1 /\ s[1] = "amendment" /\ Len(t) = 2
    OBVIOUS
  <2> HIDE DEF s, t
  <2>3. /\ Append(s, "asset") \in Seq(Outputs) /\ Len(Append(s, "asset")) = 2
        /\ Append(s, "asset")[1] = "amendment" /\ Append(s, "asset")[2] = "asset"
    <3>1. /\ Append(s, "asset") \in Seq(Outputs) /\ Len(Append(s, "asset")) = Len(s) + 1
          /\ \A i \in 1..Len(s) : Append(s, "asset")[i] = s[i]
          /\ Append(s, "asset")[Len(s) + 1] = "asset"
      BY <2>1, AppendProperties
    <3> QED
      BY <2>2, <3>1
  <2>4. \A i \in 1..2 : Append(s, "asset")[i] = t[i]
    BY <2>1, <2>3
  <2>5. Append(s, "asset") = t
    BY <2>1, <2>2, <2>3, <2>4, SeqEqual
  <2> QED
    BY <2>5 DEF s, t
<1> QED
  BY <1>1, <1>2, <1>3

LEMMA Shortened ==
  /\ \A x : Len(<<x>>) = 1 /\ <<x>>[1] = x /\ SubSeq(<<x>>, 1, 0) = <<>>
  /\ Len(<<"amendment", "asset">>) = 2 /\ <<"amendment", "asset">>[2] = "asset"
  /\ SubSeq(<<"amendment", "asset">>, 1, 1) = <<"amendment">>
<1>1. \A x : Len(<<x>>) = 1 /\ <<x>>[1] = x
  OBVIOUS
<1>2. \A x : SubSeq(<<x>>, 1, 0) = <<>>
  BY SubSeqEmpty
<1>3. Len(<<"amendment", "asset">>) = 2 /\ <<"amendment", "asset">>[2] = "asset" /\ <<"amendment", "asset">>[1] = "amendment"
  OBVIOUS
<1> DEFINE s == <<"amendment", "asset">>
<1>4. \A i \in 1..1 : s[i] \in Outputs
  BY <1>3 DEF Outputs
<1>5. /\ SubSeq(s, 1, 1) \in Seq(Outputs) /\ Len(SubSeq(s, 1, 1)) = 1
      /\ SubSeq(s, 1, 1)[1] = "amendment"
  <2> HIDE DEF s
  <2>1. /\ SubSeq(s, 1, 1) \in Seq(Outputs) /\ Len(SubSeq(s, 1, 1)) = IF 1 <= 1 THEN 1 - 1 + 1 ELSE 0
        /\ \A i \in 1..(1 - 1 + 1) : SubSeq(s, 1, 1)[i] = s[1 + i - 1]
    BY <1>4, SubSeqProperties
  <2>2. SubSeq(s, 1, 1)[1] = s[1 + 1 - 1]
    BY <2>1
  <2> QED
    BY <1>3, <2>1, <2>2 DEF s
<1>6. SubSeq(s, 1, 1) = <<"amendment">>
  <2>1. <<"amendment">> \in Seq(Outputs) /\ Len(<<"amendment">>) = 1 /\ <<"amendment">>[1] = "amendment"
    BY OneOutput
  <2> HIDE DEF s
  <2>2. \A i \in 1..Len(SubSeq(s, 1, 1)) : SubSeq(s, 1, 1)[i] = <<"amendment">>[i]
    BY <1>5, <2>1
  <2> QED
    BY <1>5, <2>1, <2>2, SeqEqual
<1> QED
  BY <1>1, <1>2, <1>3, <1>6 DEF s

LEMMA Ownership ==
  ASSUME NEW t
  PROVE  /\ t.outputs = <<>> => OwnAssets(t) = {} /\ OwnAmendments(t) = {}
         /\ t.outputs = <<"amendment">> => OwnAssets(t) = {} /\ OwnAmendments(t) = {t.case}
         /\ t.outputs = <<"asset">> => OwnAssets(t) = {NewAsset(t)} /\ OwnAmendments(t) = {}
         /\ t.outputs = <<"amendment", "asset">> =>
              OwnAssets(t) = {NewAsset(t)} /\ OwnAmendments(t) = {t.case}
BY Tuples DEF OwnAssets, OwnAmendments

\* The updates of a transaction's variables leave the others as they were.
LEMMA UpdateKeeps ==
  ASSUME NEW t, DOMAIN t = Fields, NEW s, NEW v
  PROVE  /\ \A u : u = [t EXCEPT !.outputs = s] =>
              /\ u.outputs = s /\ u.op = t.op /\ u.case = t.case /\ u.asOf = t.asOf
              /\ u.found = t.found /\ u.head = t.head /\ u.supersedes = t.supersedes /\ u.id = t.id
         /\ \A u : u = [t EXCEPT !.head = v] =>
              /\ u.head = v /\ u.op = t.op /\ u.case = t.case /\ u.asOf = t.asOf
              /\ u.found = t.found /\ u.outputs = t.outputs /\ u.supersedes = t.supersedes /\ u.id = t.id
BY DEF Fields
-----------------------------------------------------------------------------
(* The steps.  Processes outside the transaction own nothing, so what      *)
(* matters is where the one inside gets, or in which state it leaves.      *)

Facts == LockNamesApart /\ NoneApart /\ "pointer" \notin LateFailures /\ DecisionInv /\ PromotionInv

\* The process goes on.
LEMMA GoesOn ==
  ASSUME Facts, NEW p \in Procs, NEW l, NEW u, pc[p] # "idle",
         UNCHANGED <<lock, cleared, normative>>,
         pc' = [pc EXCEPT ![p] = l], tx' = [tx EXCEPT ![p] = u],
         cleared = 0 => TxFits(l, u)'
  PROVE  PromotionInv'
<1>1. \A q \in Procs \ {p} : pc[q] = "idle" /\ pc'[q] = "idle"
  BY DEF Facts, DecisionInv, Exclusive, Typed
<1>2. pc'[p] = l /\ tx'[p] = u
  BY DEF Facts, DecisionInv, Typed
<1>3. lock' # "free"
  BY DEF Facts, DecisionInv, Exclusive, LockNamesApart
<1> QED
  BY <1>1, <1>2, <1>3 DEF Facts, PromotionInv

\* The process ends.
LEMMA Ends ==
  ASSUME Facts, NEW p \in Procs, pc[p] # "idle", Stop(p), UNCHANGED <<cleared, normative>>,
         lock' = "free" /\ cleared = 0 => AtRest'
  PROVE  PromotionInv'
<1>1. \A q \in Procs : pc'[q] = "idle"
  BY DEF Facts, DecisionInv, Exclusive, Typed, Stop, Goto
<1> QED
  BY <1>1 DEF Facts, PromotionInv

\* What is known of the process inside the transaction.
LEMMA Inside ==
  ASSUME Facts, NEW p \in Procs, pc[p] # "idle", cleared = 0
  PROVE  TxFits(pc[p], tx[p]) /\ DOMAIN tx[p] = Fields /\ tx[p].outputs \in Seq(Outputs)
BY DEF Facts, PromotionInv, DecisionInv, Typed

LEMMA StaleEnds ==
  ASSUME Facts, NEW p \in Procs, pc[p] # "idle", Stop(p), UNCHANGED <<cleared, normative>>,
         lock' = "stale"
  PROVE  PromotionInv'
BY Ends

LEMMA BeginFits == ASSUME Facts, NEW p \in Procs, Begin(p) PROVE PromotionInv'
<1>1. PICK op \in {"persist", "review", "promote"}, c \in Cases, time \in Times :
        tx' = [tx EXCEPT ![p] = [Idle EXCEPT !.op = op, !.case = c, !.asOf = time, !.found = current]]
  BY DEF Begin, Note
<1>2. PICK t : t = [Idle EXCEPT !.op = op, !.case = c, !.asOf = time, !.found = current]
  OBVIOUS
<1>3. /\ t.op = op /\ t.case = c /\ t.asOf = time /\ t.found = current /\ t.outputs = <<>>
      /\ t.head = "kept"
  BY <1>2 DEF Idle
<1>4. /\ tx' = [tx EXCEPT ![p] = t] /\ pc' = [pc EXCEPT ![p] = "check"] /\ lock = "free" /\ lock' = p
      /\ UNCHANGED <<assets, amended, current, promoted, cleared, normative>>
  BY <1>1, <1>2 DEF Begin, LockFree, Goto, governed, outside
<1>5. /\ \A q \in Procs \ {p} : pc'[q] = "idle"
      /\ pc'[p] = "check" /\ tx'[p] = t
  BY <1>4 DEF Facts, LockNamesApart, DecisionInv, Exclusive, Typed
<1>6. cleared = 0 => TxFits("check", t)'
  <2> SUFFICES ASSUME cleared = 0 PROVE TxFits("check", t)'
    OBVIOUS
  <2>1. AtRest
    BY <1>4 DEF Facts, PromotionInv
  <2>2. OwnAssets(t) = {} /\ OwnAmendments(t) = {}
    BY <1>3, Ownership
  <2>3. AtRest'
    BY <1>4, <2>1 DEF AtRest
  <2>4. assets \ {} = assets /\ amended \ {} = amended
    OBVIOUS
  <2>5. Additions(t)'
    BY <1>3, <1>4, <2>1, <2>2, <2>4 DEF Additions, AtRest
  <2>6. PromotionFits("check", t)'
    BY <1>3, <1>4, <2>5 DEF PromotionFits
  <2>7. RecordFits("check", t)'
    BY <1>3, <2>3 DEF RecordFits
  <2> QED
    BY <1>3, <1>4, <2>6, <2>7 DEF TxFits
<1>7. lock' # "free"
  BY <1>4 DEF Facts, LockNamesApart
<1> QED
  BY <1>4, <1>5, <1>6, <1>7 DEF Facts, PromotionInv

\* Where a promotion stands when it has nothing to remove.
LEMMA NothingAdded ==
  ASSUME NEW t, t.outputs = <<>>, Additions(t)
  PROVE  Whole(assets, amended, t.found) /\ promoted \subseteq amended
<1>1. OwnAssets(t) = {} /\ OwnAmendments(t) = {}
  BY Ownership
<1>2. assets \ {} = assets /\ amended \ {} = amended
  OBVIOUS
<1> QED
  BY <1>1, <1>2 DEF Additions

\* And where it is complete.
LEMMA AllAdded ==
  ASSUME NEW t, t.case \in Cases, Additions(t), Made(t), Composed(t)
  PROVE  Whole(assets, amended, t.id) /\ promoted \cup {t.case} \subseteq amended
<1> DEFINE S == assets \ OwnAssets(t)  A == amended \ OwnAmendments(t)  n == NewAsset(t)
<1>1. n.id = t.id /\ n.supersedes = t.found /\ n.amendment = t.case
  BY DEF NewAsset, Composed
<1>2. Whole(S, A, t.found) /\ t.id \notin Ids(S) /\ t.id # None
  BY DEF Additions, Made, Composed
<1>3. Whole(S \cup {n}, A \cup {n.amendment}, n.id)
  <2> HIDE DEF S, A, n
  <2> QED
    BY <1>1, <1>2, WholeExtends
<1>4. S \cup {n} = assets
  BY DEF Made, Additions
<1>5. A \cup {t.case} = amended
  BY DEF Made, OwnAmendments
<1> QED
  BY <1>1, <1>3, <1>4, <1>5 DEF Made, Additions

\* Recording a case or a decision leaves the chain alone.
LEMMA RecordingFits ==
  ASSUME Facts, NEW p \in Procs, PublishCase(p) \/ WriteDecision(p)
  PROVE  PromotionInv'
<1>1. /\ pc[p] = "check" /\ tx[p].op # "promote"
      /\ UNCHANGED <<lock, assets, amended, current, cleared, normative, promoted>>
  BY DEF PublishCase, WriteDecision, outside
<1>2. DOMAIN tx[p] = Fields /\ tx = [tx EXCEPT ![p] = tx[p]]
  BY DEF Facts, DecisionInv, Typed
<1>3. PICK l, s, u :
        /\ l \in {"outputs", "close"} /\ s \in {<<>>, <<"case">>, <<"decision">>}
        /\ u = tx[p] \/ u = [tx[p] EXCEPT !.outputs = s]
        /\ pc' = [pc EXCEPT ![p] = l] /\ tx' = [tx EXCEPT ![p] = u]
  <2>1. CASE PublishCase(p)
    BY <2>1 DEF PublishCase, Goto, Note
  <2>2. CASE WriteDecision(p)
    <3>1. CASE KeepExisting(p)
      BY <1>2, <3>1 DEF KeepExisting, Goto
    <3>2. CASE ~KeepExisting(p)
      <4>1. PICK d, late : /\ Goto(p, IF late THEN "outputs" ELSE "close")
                           /\ Note(p, [tx[p] EXCEPT !.outputs = <<"decision">>])
        BY <2>2, <3>2 DEF WriteDecision
      <4> QED
        BY <4>1 DEF Goto, Note
    <3> QED
      BY <3>1, <3>2
  <2> QED
    BY <2>1, <2>2
<1>4. cleared = 0 => TxFits(l, u)'
  <2> SUFFICES ASSUME cleared = 0 PROVE TxFits(l, u)'
    OBVIOUS
  <2>1. TxFits("check", tx[p])
    BY <1>1, Inside
  <2>2. u.op = tx[p].op /\ u.case = tx[p].case /\ u.asOf = tx[p].asOf
        /\ (u.outputs = s \/ u.outputs = tx[p].outputs)
    <3>1. PICK t : t = tx[p]
      OBVIOUS
    <3>2. CASE u = t
      BY <3>1, <3>2
    <3>3. CASE u = [t EXCEPT !.outputs = s]
      BY <1>2, <3>1, <3>3, UpdateKeeps
    <3> QED
      BY <1>3, <3>1, <3>2, <3>3
  <2>3. AtRest /\ u.outputs \in {<<>>, <<"case">>, <<"decision">>}
    BY <1>1, <1>3, <2>1, <2>2 DEF TxFits, RecordFits
  <2>4. AtRest'
    BY <1>1, <2>3 DEF AtRest
  <2>5. RecordFits(l, u)'
    BY <1>3, <2>3, <2>4 DEF RecordFits
  <2> QED
    BY <1>1, <1>3, <2>1, <2>2, <2>5 DEF TxFits
<1> QED
  BY <1>1, <1>3, <1>4, GoesOn

\* A command that is refused leaves what it found.
LEMMA RefuseFits == ASSUME Facts, NEW p \in Procs, Refuse(p) PROVE PromotionInv'
<1>1. /\ pc[p] = "check" /\ Stop(p)
      /\ UNCHANGED <<assets, amended, current, cleared, normative, promoted>>
  BY DEF Refuse, governed, outside
<1>2. cleared = 0 => AtRest
  <2> SUFFICES ASSUME cleared = 0 PROVE AtRest
    OBVIOUS
  <2>1. TxFits("check", tx[p])
    BY <1>1, Inside
  <2>2. CASE tx[p].op = "promote"
    <3>1. tx[p].outputs = <<>> /\ Additions(tx[p]) /\ tx[p].found = current
      BY <2>1, <2>2 DEF TxFits, PromotionFits
    <3> QED
      BY <3>1, NothingAdded DEF AtRest
  <2>3. CASE tx[p].op # "promote"
    BY <2>1, <2>3 DEF TxFits, RecordFits
  <2> QED
    BY <2>2, <2>3
<1>3. cleared = 0 => AtRest'
  BY <1>1, <1>2 DEF AtRest
<1> QED
  BY <1>1, <1>3, Ends

\* The amendment is new, or it is in place and the chain has it.
LEMMA WriteAmendmentFits == ASSUME Facts, NEW p \in Procs, WriteAmendment(p) PROVE PromotionInv'
<1> DEFINE t == tx[p]  c == t.case
           id == AssetId(case[c].base, t.asOf, Applied(Governed(t.found) \cup {c}, case[c].base))
           t2 == [t EXCEPT !.id = id, !.supersedes = t.found]
           t3 == [t2 EXCEPT !.outputs = <<"amendment">>]
<1>1. /\ pc[p] = "check" /\ t.op = "promote"
      /\ UNCHANGED <<lock, assets, current, cleared, normative, promoted>> /\ case[c].base = normative
  BY DEF WriteAmendment, outside, Eligible
<1>2. PICK u2 : u2 = t2
  OBVIOUS
<1>3. PICK u3 : u3 = t3
  OBVIOUS
<1>4. \/ /\ c \in Governed(t.found) /\ c \in amended /\ amended' = amended
         /\ tx' = [tx EXCEPT ![p] = u2] /\ pc' = [pc EXCEPT ![p] = "asset"]
      \/ /\ c \notin amended /\ amended' = amended \cup {c}
         /\ tx' = [tx EXCEPT ![p] = u3]
         /\ pc' = [pc EXCEPT ![p] = "asset"] \/ pc' = [pc EXCEPT ![p] = "undo"]
  <2>1. \/ /\ c \in Governed(t.found) /\ c \in amended /\ amended' = amended
           /\ Note(p, t2) /\ Goto(p, "asset")
        \/ /\ c \notin amended /\ amended' = amended \cup {c} /\ Note(p, t3)
           /\ \E late \in {FALSE} \cup {"amendment" \in LateFailures} : Goto(p, IF late THEN "undo" ELSE "asset")
    BY Zenon DEF WriteAmendment, t2, t3, id, c, t
  <2> HIDE DEF t3, t2, c
  <2> QED
    BY <1>2, <1>3, <2>1 DEF Note, Goto, t
<1>5. DOMAIN t = Fields
  BY DEF Facts, DecisionInv, Typed
<1>6. /\ DOMAIN u2 = Fields
      /\ u2.op = t.op /\ u2.case = c /\ u2.asOf = t.asOf /\ u2.found = t.found /\ u2.outputs = t.outputs
      /\ u2.head = t.head /\ u2.supersedes = t.found /\ u2.id = id
  <2> HIDE DEF id
  <2> QED
    BY <1>2, <1>5 DEF Fields
<1>7. /\ u3.op = t.op /\ u3.case = c /\ u3.asOf = t.asOf /\ u3.found = t.found
      /\ u3.outputs = <<"amendment">>
      /\ u3.head = t.head /\ u3.supersedes = t.found /\ u3.id = id
  <2>1. u3 = [u2 EXCEPT !.outputs = <<"amendment">>]
    BY <1>2, <1>3
  <2> HIDE DEF id, t
  <2> QED
    BY <1>6, <2>1, UpdateKeeps
<1> HIDE DEF id, t2, t3
<1> SUFFICES ASSUME cleared = 0 PROVE PromotionInv'
  <2>1. CASE cleared # 0
    BY <1>1, <1>4, <2>1, GoesOn
  <2> QED
    BY <2>1
<1>8. TxFits("check", t)
  BY <1>1, Inside
<1>9. /\ c \in Cases /\ t.asOf \in Times /\ t.found = current /\ t.outputs = <<>> /\ Additions(t)
      /\ t.head = "kept"
  BY <1>1, <1>8 DEF TxFits, PromotionFits
<1>10. Whole(assets, amended, t.found)
  BY <1>9, NothingAdded
<1>11. id # None
  <2>1. Governed(t.found) \subseteq Cases
    <3>1. CASE t.found = None
      BY <3>1 DEF Governed
    <3>2. CASE t.found # None
      BY <1>10, <3>2, ChainIsWhole DEF Whole
    <3> QED
      BY <3>1, <3>2
  <2>2. Applied(Governed(t.found) \cup {c}, case[c].base) \subseteq Cases
    BY <1>9, <2>1 DEF Applied
  <2>3. case[c].base \in Nat
    BY <1>1 DEF Facts, PromotionInv
  <2> QED
    <3>1. id = [base |-> case[c].base, asOf |-> t.asOf,
               applied |-> Applied(Governed(t.found) \cup {c}, case[c].base)]
      BY DEF AssetId, id
    <3>2. id \in [base : Nat, asOf : Times, applied : SUBSET Cases]
      BY <1>9, <2>2, <2>3, <3>1
    <3> QED
      BY <3>2 DEF Facts, NoneApart
<1>12. promoted \subseteq amended
  BY <1>9, NothingAdded
<1>13. Composed(u2) /\ Composed(u3)
  BY <1>6, <1>7, <1>11 DEF Composed
<1>14. /\ OwnAssets(u2) = {} /\ OwnAmendments(u2) = {}
       /\ OwnAssets(u3) = {} /\ OwnAmendments(u3) = {c}
  BY <1>6, <1>7, <1>9, Ownership
<1>15. CASE /\ c \in Governed(t.found) /\ c \in amended /\ amended' = amended
            /\ tx' = [tx EXCEPT ![p] = u2] /\ pc' = [pc EXCEPT ![p] = "asset"]
  <2>1. amended' \ {} = amended /\ assets' \ {} = assets
    BY <1>1, <1>15
  <2>2. Additions(u2)'
    BY <1>1, <1>6, <1>10, <1>12, <1>14, <1>15, <2>1 DEF Additions
  <2>3. PromotionFits("asset", u2)'
    BY <1>1, <1>6, <1>9, <1>13, <1>14, <1>15, <2>2 DEF PromotionFits, Composed
  <2>4. TxFits("asset", u2)'
    BY <1>1, <1>6, <1>9, <2>3 DEF TxFits
  <2> QED
    BY <1>1, <1>15, <2>4, GoesOn
<1>16. ASSUME c \notin amended, amended' = amended \cup {c}, NEW l \in {"asset", "undo"},
              tx' = [tx EXCEPT ![p] = u3], pc' = [pc EXCEPT ![p] = l]
       PROVE  PromotionInv'
  <2>1. amended' \ {c} = amended /\ assets' \ {} = assets
    BY <1>1, <1>16
  <2>2. Additions(u3)'
    BY <1>1, <1>7, <1>10, <1>12, <1>14, <1>16, <2>1 DEF Additions
  <2>3. PromotionFits(l, u3)'
    BY <1>1, <1>7, <1>9, <1>13, <1>14, <1>16, <2>2 DEF PromotionFits, Composed
  <2>4. TxFits(l, u3)'
    BY <1>1, <1>7, <1>9, <1>16, <2>3 DEF TxFits
  <2> QED
    BY <1>1, <1>16, <2>4, GoesOn
<1> QED
  BY <1>4, <1>15, <1>16

\* Most steps of a promotion move the pointer and nothing else.
LEMMA InPromotion ==
  ASSUME NEW l, NEW t, TxFits(l, t), l \notin {"check", "outputs", "close"}
  PROVE  t.op = "promote" /\ PromotionFits(l, t)
BY DEF TxFits, RecordFits

LEMMA SameAdditions ==
  ASSUME NEW t, NEW u, UNCHANGED <<assets, amended, promoted>>, Additions(t),
         u.outputs = t.outputs, u.case = t.case, u.found = t.found, u.supersedes = t.supersedes, u.id = t.id
  PROVE  /\ Additions(u)'
         /\ Made(t) => Made(u)'
         /\ Composed(t) => Composed(u)
BY DEF Additions, Made, Composed, OwnAssets, OwnAmendments, NewAsset

\* Two records of a transaction that differ in what became of the head.
Like(u, t) ==
  /\ u.op = t.op /\ u.case = t.case /\ u.asOf = t.asOf /\ u.found = t.found /\ u.outputs = t.outputs
  /\ u.supersedes = t.supersedes /\ u.id = t.id

\* Where a promotion gets from a label, with the pointer cur.
Moves(from, l, u, cur) ==
  \/ l = "link" /\ from = "pointer" /\ u.found # None /\ cur = None
  \/ l \in {"retire"} /\ from \in {"pointer", "link"} /\ u.head = "linked" /\ cur = u.id
  \/ l = "close" /\ from = "retire" /\ u.head = "linked" /\ cur = u.id
  \/ l = "undo" /\ cur = IF u.head = "linked" THEN u.id ELSE u.found
  \/ l = "restore" /\ cur = None /\ u.found # None
  \/ l = "outputs" /\ cur = u.found

LEMMA HeadUpdate ==
  ASSUME Facts, NEW p \in Procs, NEW v
  PROVE  /\ DOMAIN tx[p] = Fields /\ Like(tx[p], tx[p])
         /\ Like([tx[p] EXCEPT !.head = v], tx[p]) /\ [tx[p] EXCEPT !.head = v].head = v
<1>1. DOMAIN tx[p] = Fields
  BY DEF Facts, DecisionInv, Typed
<1>2. PICK t : t = tx[p]
  OBVIOUS
<1>3. Like([t EXCEPT !.head = v], t) /\ [t EXCEPT !.head = v].head = v
  BY <1>1, <1>2, UpdateKeeps DEF Like
<1> QED
  BY <1>1, <1>2, <1>3 DEF Like

\* The pointer is moved aside, linked, or put back; or it stays where it is.
LEMMA PointerStepFits ==
  ASSUME Facts, NEW p \in Procs, NEW l, NEW u, NEW cur, current' = cur,
         pc[p] \in {"asset", "pointer", "link", "retire", "close", "undo", "restore"},
         pc[p] = "close" => tx[p].op = "promote",
         UNCHANGED <<lock, assets, amended, promoted, cleared, normative>>,
         Like(u, tx[p]), pc' = [pc EXCEPT ![p] = l], tx' = [tx EXCEPT ![p] = u],
         cleared = 0 => Moves(pc[p], l, u, cur)
  PROVE  PromotionInv'
<1> DEFINE t == tx[p]
<1>1. cleared = 0 => TxFits(l, u)'
  <2> SUFFICES ASSUME cleared = 0 PROVE TxFits(l, u)'
    OBVIOUS
  <2>1. TxFits(pc[p], t) /\ Moves(pc[p], l, u, cur)
    BY Inside
  <2>2. t.op = "promote" /\ PromotionFits(pc[p], t)
    BY <2>1, InPromotion DEF TxFits
  <2>3. /\ u.op = t.op /\ u.case = t.case /\ u.asOf = t.asOf /\ u.found = t.found /\ u.outputs = t.outputs
        /\ u.supersedes = t.supersedes /\ u.id = t.id
    BY DEF Like
  <2>4. Additions(u)' /\ (Made(t) => Made(u)') /\ (Composed(t) => Composed(u))
    BY <2>2, <2>3, SameAdditions DEF PromotionFits
  <2>5. Composed(u)' <=> Composed(u)
    BY DEF Composed
  <2> HIDE DEF t
  <2>6. PromotionFits(l, u)' /\ l # "check"
    BY <2>1, <2>2, <2>3, <2>4, <2>5 DEF PromotionFits, Moves, t
  <2>7. u.op = "promote" /\ u.case \in Cases /\ u.asOf \in Times
    BY <2>1, <2>2, <2>3 DEF TxFits, t
  <2> QED
    BY <2>6, <2>7 DEF TxFits
<1> QED
  BY <1>1, GoesOn

LEMMA MovePointerFits == ASSUME Facts, NEW p \in Procs, MovePointer(p) PROVE PromotionInv'
<1>1. PICK u : u = [tx[p] EXCEPT !.head = "moved"]
  OBVIOUS
<1>2. Like(u, tx[p])
  BY <1>1, HeadUpdate
<1>3. /\ pc[p] = "pointer" /\ tx[p].found # None /\ current' = None
      /\ UNCHANGED <<lock, assets, amended, promoted, cleared, normative>>
      /\ tx' = [tx EXCEPT ![p] = u] /\ pc' = [pc EXCEPT ![p] = "link"]
  BY <1>1 DEF MovePointer, Note, Goto, outside
<1>4. PICK cur : cur = current'
  OBVIOUS
<1>5. Moves(pc[p], "link", u, cur)
  BY <1>2, <1>3, <1>4 DEF Moves, Like
<1> QED
  BY <1>2, <1>3, <1>4, <1>5, PointerStepFits

LEMMA LinkPointerFits == ASSUME Facts, NEW p \in Procs, LinkPointer(p) PROVE PromotionInv'
<1>1. PICK u : u = [tx[p] EXCEPT !.head = "linked"]
  OBVIOUS
<1>2. Like(u, tx[p]) /\ u.head = "linked"
  BY <1>1, HeadUpdate
<1>3. /\ pc[p] \in {"pointer", "link"} /\ current' = tx[p].id
      /\ UNCHANGED <<lock, assets, amended, promoted, cleared, normative>>
      /\ tx' = [tx EXCEPT ![p] = u] /\ pc' = [pc EXCEPT ![p] = "retire"]
  BY <1>1 DEF LinkPointer, Note, Goto, outside, Facts
<1>4. PICK cur : cur = current'
  OBVIOUS
<1>5. Moves(pc[p], "retire", u, cur)
  BY <1>2, <1>3, <1>4 DEF Moves, Like
<1> QED
  BY <1>2, <1>3, <1>4, <1>5, PointerStepFits

LEMMA LinkFailsFits == ASSUME Facts, NEW p \in Procs, LinkFails(p) PROVE PromotionInv'
<1>1. PICK u : u = [tx[p] EXCEPT !.head = "kept"]
  OBVIOUS
<1>2. Like(u, tx[p]) /\ u.head = "kept"
  BY <1>1, HeadUpdate
<1>4. pc[p] = "link" /\ UNCHANGED <<assets, amended, promoted, cleared, normative>>
  BY DEF LinkFails, outside
<1>5. CASE lock' = "stale" /\ Stop(p)
  BY <1>4, <1>5, StaleEnds
<1>6. CASE current' = tx[p].found /\ Note(p, u) /\ Goto(p, "undo") /\ lock' = lock
  <2>1. PICK cur : cur = current'
    OBVIOUS
  <2>2. Moves(pc[p], "undo", u, cur)
    BY <1>2, <1>6, <2>1 DEF Moves, Like
  <2> QED
    BY <1>2, <1>4, <1>6, <2>1, <2>2, PointerStepFits DEF Note, Goto
<1> QED
  BY <1>1, <1>5, <1>6 DEF LinkFails

\* A step that changes no variable but the label.
LEMMA LabelStepFits ==
  ASSUME Facts, NEW p \in Procs, NEW l,
         pc[p] \in {"asset", "pointer", "retire", "close", "undo"},
         pc[p] = "close" => tx[p].op = "promote",
         UNCHANGED <<lock, assets, amended, current, promoted, cleared, normative, tx>>, Goto(p, l),
         cleared = 0 => Moves(pc[p], l, tx[p], current)
  PROVE  PromotionInv'
<1>1. PICK u : u = tx[p]
  OBVIOUS
<1>2. Like(u, tx[p]) /\ tx' = [tx EXCEPT ![p] = u] /\ pc' = [pc EXCEPT ![p] = l]
  BY <1>1 DEF Like, Goto, Facts, DecisionInv, Typed
<1>3. PICK cur : cur = current
  OBVIOUS
<1>4. cleared = 0 => Moves(pc[p], l, u, cur)
  BY <1>1, <1>3
<1> QED
  BY <1>2, <1>3, <1>4, PointerStepFits

LEMMA RetirePointerFits == ASSUME Facts, NEW p \in Procs, RetirePointer(p) PROVE PromotionInv'
<1>1. /\ pc[p] = "retire" /\ UNCHANGED <<assets, amended, current, promoted, cleared, normative>>
  BY DEF RetirePointer, governed, outside
<1>2. cleared = 0 => current = tx[p].id /\ tx[p].head = "linked"
  BY <1>1, Inside, InPromotion DEF PromotionFits
<1>3. CASE lock' = "stale" /\ Stop(p)
  BY <1>1, <1>3, StaleEnds
<1>4. ASSUME NEW l \in {"close", "undo"}, Goto(p, l), UNCHANGED <<lock, tx>> PROVE PromotionInv'
  <2>1. cleared = 0 => Moves(pc[p], l, tx[p], current)
    BY <1>1, <1>2 DEF Moves
  <2> QED
    BY <1>1, <1>4, <2>1, LabelStepFits
<1> QED
  BY <1>3, <1>4 DEF RetirePointer

LEMMA StepFailsFits == ASSUME Facts, NEW p \in Procs, StepFails(p) PROVE PromotionInv'
<1>1. /\ pc[p] \in {"asset", "pointer"}
      /\ UNCHANGED <<assets, amended, current, promoted, cleared, normative>>
  BY DEF StepFails, governed, outside
<1>2. cleared = 0 => current = tx[p].found /\ tx[p].head = "kept"
  BY <1>1, Inside, InPromotion DEF PromotionFits
<1>3. CASE lock' = "stale" /\ Stop(p)
  BY <1>1, <1>3, StaleEnds
<1>4. CASE Goto(p, "undo") /\ UNCHANGED <<lock, tx>>
  <2>1. cleared = 0 => Moves(pc[p], "undo", tx[p], current)
    BY <1>1, <1>2 DEF Moves
  <2> QED
    BY <1>1, <1>4, <2>1, LabelStepFits
<1> QED
  BY <1>3, <1>4 DEF StepFails

LEMMA UnlinkPointerFits == ASSUME Facts, NEW p \in Procs, UnlinkPointer(p) PROVE PromotionInv'
<1>1. pc[p] = "undo" /\ UNCHANGED <<lock, assets, amended, promoted, cleared, normative>>
  BY DEF UnlinkPointer, outside
<1>2. cleared = 0 => IF tx[p].head = "linked" THEN current = tx[p].id ELSE current = tx[p].found
  BY <1>1, Inside, InPromotion DEF PromotionFits
<1>3. CASE tx[p].head # "linked"
  <2>1. Goto(p, "outputs") /\ UNCHANGED <<tx, current>>
    BY <1>3 DEF UnlinkPointer
  <2>2. cleared = 0 => Moves(pc[p], "outputs", tx[p], current)
    BY <1>2, <1>3 DEF Moves
  <2> QED
    BY <1>1, <2>1, <2>2, LabelStepFits
<1>4. CASE tx[p].head = "linked"
  <2>1. PICK u, l : u = [tx[p] EXCEPT !.head = "moved"] /\ l = IF tx[p].found = None THEN "outputs" ELSE "restore"
    OBVIOUS
  <2>2. pc' = [pc EXCEPT ![p] = l] /\ tx' = [tx EXCEPT ![p] = u] /\ current' = None
    BY <1>4, <2>1 DEF UnlinkPointer, Goto, Note
  <2>3. Like(u, tx[p])
    BY <2>1, HeadUpdate
  <2>4. PICK cur : cur = current'
    OBVIOUS
  <2>5. cleared = 0 => Moves(pc[p], l, u, cur)
    BY <2>1, <2>2, <2>3, <2>4 DEF Moves, Like
  <2> QED
    BY <1>1, <2>2, <2>3, <2>4, <2>5, PointerStepFits
<1> QED
  BY <1>3, <1>4

LEMMA RestorePointerFits == ASSUME Facts, NEW p \in Procs, RestorePointer(p) PROVE PromotionInv'
<1>1. pc[p] = "restore" /\ UNCHANGED <<assets, amended, promoted, cleared, normative>>
  BY DEF RestorePointer, outside
<1>2. CASE lock' = "stale" /\ Stop(p)
  BY <1>1, <1>2, StaleEnds
<1>3. CASE current' = tx[p].found /\ Goto(p, "outputs") /\ UNCHANGED <<lock, tx>>
  <2>1. PICK u : u = tx[p]
    OBVIOUS
  <2>2. Like(u, tx[p]) /\ tx' = [tx EXCEPT ![p] = u] /\ pc' = [pc EXCEPT ![p] = "outputs"]
    BY <1>3, <2>1 DEF Like, Goto, Facts, DecisionInv, Typed
  <2>3. PICK cur : cur = current'
    OBVIOUS
  <2>4. Moves(pc[p], "outputs", u, cur)
    BY <1>3, <2>1, <2>3 DEF Moves
  <2> QED
    BY <1>1, <1>3, <2>2, <2>3, <2>4, PointerStepFits
<1> QED
  BY <1>2, <1>3 DEF RestorePointer

\* A new asset: nothing supersedes what the promotion found, so there was none like it.
LEMMA PublishAssetFits == ASSUME Facts, NEW p \in Procs, PublishAsset(p) PROVE PromotionInv'
<1> DEFINE t == tx[p]  n == NewAsset(t)
<1>1. /\ pc[p] = "asset" /\ DOMAIN t = Fields /\ t.outputs \in Seq(Outputs)
      /\ UNCHANGED <<lock, amended, current, promoted, cleared, normative>>
  BY DEF PublishAsset, outside, Facts, DecisionInv, Typed
<1>2. PICK u : u = [t EXCEPT !.outputs = Append(@, "asset")]
  OBVIOUS
<1>3. /\ u.outputs = Append(t.outputs, "asset") /\ u.op = t.op /\ u.case = t.case /\ u.asOf = t.asOf
      /\ u.found = t.found /\ u.head = t.head /\ u.supersedes = t.supersedes /\ u.id = t.id
  BY <1>1, <1>2, UpdateKeeps
<1>4. NewAsset(u) = n
  BY <1>3 DEF NewAsset
<1>5. n.id = t.id /\ n.supersedes = t.supersedes
  BY DEF NewAsset
<1>6. \/ n \in assets
      \/ /\ ~Published(t.id) /\ assets' = assets \cup {n}
         /\ tx' = [tx EXCEPT ![p] = u]
         /\ pc' = [pc EXCEPT ![p] = "pointer"] \/ pc' = [pc EXCEPT ![p] = "undo"]
  BY <1>2 DEF PublishAsset, Note, Goto
<1>7. CASE cleared # 0
  <2>1. PICK w, l : l # "idle" /\ tx' = [tx EXCEPT ![p] = w] /\ pc' = [pc EXCEPT ![p] = l]
    <3>1. tx = [tx EXCEPT ![p] = t]
      BY DEF Facts, DecisionInv, Typed
    <3> QED
      BY <3>1 DEF PublishAsset, Note, Goto
  <2> QED
    BY <1>1, <1>7, <2>1, GoesOn
<1>8. CASE cleared = 0
  <2>1. TxFits("asset", t)
    BY <1>1, <1>8, Inside
  <2>2. t.op = "promote" /\ PromotionFits("asset", t) /\ t.case \in Cases /\ t.asOf \in Times
    BY <2>1, InPromotion DEF TxFits
  <2>3. /\ OwnAssets(t) = {} /\ t.case \in amended /\ Composed(t) /\ Additions(t)
        /\ current = t.found /\ t.head = "kept"
        /\ t.outputs \in {<<>>, <<"amendment">>, <<"asset">>, <<"amendment", "asset">>}
    BY <2>2 DEF PromotionFits
  <2>4. \/ t.outputs = <<>> /\ u.outputs = <<"asset">>
        \/ t.outputs = <<"amendment">> /\ u.outputs = <<"amendment", "asset">>
    BY <1>3, <2>3, Ownership, Tuples
  <2>5. OwnAssets(u) = {n} /\ OwnAmendments(u) = OwnAmendments(t)
    BY <1>3, <1>4, <2>4, Ownership
  <2> HIDE DEF n
  <2>6. assets \ {} = assets
    OBVIOUS
  <2>7. Whole(assets, amended \ OwnAmendments(t), t.found)
    BY <2>3, <2>6 DEF Additions
  <2>8. n \notin assets
    BY <1>5, <2>3, <2>7, TipIsFree DEF Composed
  <2>9. /\ ~Published(t.id) /\ assets' = assets \cup {n} /\ assets' \ {n} = assets
        /\ tx' = [tx EXCEPT ![p] = u]
    BY <1>6, <2>8
  <2>10. Additions(u)'
    BY <1>1, <1>3, <2>3, <2>5, <2>7, <2>9 DEF Additions
  <2>11. Made(u)'
    BY <1>1, <1>3, <1>4, <2>3, <2>5, <2>9 DEF Made, Published, Ids
  <2>12. Composed(u)
    BY <1>3, <2>3 DEF Composed
  <2>13. ASSUME NEW l \in {"pointer", "undo"}, pc' = [pc EXCEPT ![p] = l] PROVE PromotionInv'
    <3>1. PromotionFits(l, u)'
      BY <1>1, <1>3, <2>3, <2>4, <2>10, <2>11, <2>12 DEF PromotionFits, Composed
    <3>2. TxFits(l, u)'
      BY <1>3, <2>2, <3>1 DEF TxFits
    <3> QED
      BY <1>1, <2>9, <2>13, <3>2, GoesOn
  <2> QED
    BY <1>6, <2>8, <2>13
<1> QED
  BY <1>7, <1>8

\* Removing the last output of a promotion takes away what it owned last.
LEMMA RemoveFits ==
  ASSUME NEW t, NEW u, NEW s, UNCHANGED <<current, promoted>>, DOMAIN t = Fields,
         t.op = "promote", t.case \in Cases, t.asOf \in Times, PromotionFits("outputs", t), t.outputs # <<>>,
         s = SubSeq(t.outputs, 1, Len(t.outputs) - 1), u = [t EXCEPT !.outputs = s],
         assets' = IF t.outputs[Len(t.outputs)] = "asset" THEN assets \ {NewAsset(t)} ELSE assets,
         amended' = IF t.outputs[Len(t.outputs)] = "amendment" THEN amended \ {t.case} ELSE amended
  PROVE  TxFits("outputs", u)'
<1>1. /\ u.outputs = s /\ u.op = t.op /\ u.case = t.case /\ u.asOf = t.asOf
      /\ u.found = t.found /\ u.head = t.head /\ u.supersedes = t.supersedes /\ u.id = t.id
  BY UpdateKeeps
<1>2. NewAsset(u) = NewAsset(t)
  BY <1>1 DEF NewAsset
<1>3. Additions(t) /\ current = t.found
  BY DEF PromotionFits
<1>4. s \in {<<>>, <<"amendment">>} /\ Additions(u)'
  <2>1. CASE t.outputs = <<"asset">>
    <3>1. Len(t.outputs) = 1 /\ t.outputs[1] = "asset"
      BY <2>1
    <3>2. s = SubSeq(t.outputs, 1, 0)
      BY <3>1
    <3>3. s = <<>>
      BY <2>1, <3>2, Shortened
    <3>4. assets' = assets \ {NewAsset(t)} /\ amended' = amended
      BY <3>1
    <3>5. OwnAssets(u) = {} /\ OwnAmendments(u) = {} /\ OwnAssets(t) = {NewAsset(t)} /\ OwnAmendments(t) = {}
      BY <1>1, <2>1, <3>3, Ownership
    <3>6. assets' \ {} = assets \ OwnAssets(t) /\ amended' \ {} = amended \ OwnAmendments(t)
      BY <3>4, <3>5
    <3> QED
      BY <1>1, <1>3, <3>3, <3>5, <3>6 DEF Additions
  <2>2. CASE t.outputs = <<"amendment">>
    <3>1. Len(t.outputs) = 1 /\ t.outputs[1] = "amendment"
      BY <2>2
    <3>2. s = SubSeq(t.outputs, 1, 0)
      BY <3>1
    <3>3. s = <<>>
      BY <2>2, <3>2, Shortened
    <3>4. assets' = assets /\ amended' = amended \ {t.case}
      BY <3>1
    <3>5. OwnAssets(u) = {} /\ OwnAmendments(u) = {} /\ OwnAssets(t) = {} /\ OwnAmendments(t) = {t.case}
      BY <1>1, <2>2, <3>3, Ownership
    <3>6. assets' \ {} = assets \ OwnAssets(t) /\ amended' \ {} = amended \ OwnAmendments(t)
      BY <3>4, <3>5
    <3> QED
      BY <1>1, <1>3, <3>3, <3>5, <3>6 DEF Additions
  <2>3. CASE t.outputs = <<"amendment", "asset">>
    <3>1. Len(t.outputs) = 2 /\ t.outputs[2] = "asset"
      BY <2>3, Shortened
    <3>2. s = SubSeq(t.outputs, 1, 1)
      BY <3>1
    <3>3. s = <<"amendment">>
      BY <2>3, <3>2, Shortened
    <3>4. assets' = assets \ {NewAsset(t)} /\ amended' = amended
      BY <3>1
    <3>5. /\ OwnAssets(u) = {} /\ OwnAmendments(u) = {t.case}
          /\ OwnAssets(t) = {NewAsset(t)} /\ OwnAmendments(t) = {t.case}
      BY <1>1, <2>3, <3>3, Ownership
    <3>6. assets' \ {} = assets \ OwnAssets(t) /\ OwnAmendments(u) = OwnAmendments(t)
      BY <3>4, <3>5
    <3> QED
      BY <1>1, <1>3, <3>3, <3>4, <3>5, <3>6 DEF Additions
  <2> QED
    BY <2>1, <2>2, <2>3 DEF PromotionFits
<1>5. PromotionFits("outputs", u)'
  BY <1>1, <1>3, <1>4 DEF PromotionFits
<1> QED
  BY <1>1, <1>5 DEF TxFits

LEMMA RemoveOutputFits == ASSUME Facts, NEW p \in Procs, RemoveOutput(p) PROVE PromotionInv'
<1> DEFINE t == tx[p]  last == t.outputs[Len(t.outputs)]
<1>1. /\ pc[p] = "outputs" /\ DOMAIN t = Fields /\ t.outputs # <<>>
      /\ UNCHANGED <<lock, current, pc, promoted, cleared, normative>>
      /\ assets' = IF last = "asset" THEN assets \ {NewAsset(t)} ELSE assets
      /\ amended' = IF last = "amendment" THEN amended \ {t.case} ELSE amended
  BY DEF RemoveOutput, RemoveLast, outside, Facts, DecisionInv, Typed
<1>2. PICK s : s = SubSeq(t.outputs, 1, Len(t.outputs) - 1)
  OBVIOUS
<1>3. PICK u : u = [t EXCEPT !.outputs = s]
  OBVIOUS
<1>4. tx' = [tx EXCEPT ![p] = u] /\ pc' = [pc EXCEPT ![p] = "outputs"]
  <2>1. pc = [pc EXCEPT ![p] = pc[p]]
    BY DEF Facts, DecisionInv, Typed
  <2> QED
    BY <1>1, <1>2, <1>3, <2>1 DEF RemoveOutput, RemoveLast, Note
<1>5. /\ u.outputs = s /\ u.op = t.op /\ u.case = t.case /\ u.asOf = t.asOf
  BY <1>1, <1>3, UpdateKeeps
<1>6. cleared = 0 => TxFits("outputs", u)'
  <2> SUFFICES ASSUME cleared = 0 PROVE TxFits("outputs", u)'
    OBVIOUS
  <2>1. TxFits("outputs", t)
    BY <1>1, Inside
  <2>2. CASE t.op = "promote"
    <3>1. PICK t0 : t0 = t
      OBVIOUS
    <3> HIDE DEF t
    <3> QED
      BY <1>1, <1>2, <1>3, <2>1, <2>2, <3>1, RemoveFits DEF TxFits
  <2>3. CASE t.op # "promote"
    <3>1. RecordFits("outputs", t) /\ t.case \in Cases /\ t.asOf \in Times
      BY <2>1, <2>3 DEF TxFits
    <3>2. t.outputs = <<"case">> \/ t.outputs = <<"decision">>
      BY <1>1, <3>1 DEF RecordFits
    <3>3. Len(t.outputs) = 1 /\ last \in {"case", "decision"}
      BY <3>2, Shortened
    <3>4. s = SubSeq(t.outputs, 1, 0)
      BY <1>2, <3>3
    <3>5. s = <<>>
      BY <3>2, <3>4, Shortened
    <3>6. assets' = assets /\ amended' = amended /\ AtRest'
      BY <1>1, <3>1, <3>3 DEF RecordFits, AtRest
    <3>7. RecordFits("outputs", u)'
      BY <1>5, <3>5, <3>6 DEF RecordFits
    <3> QED
      BY <1>5, <2>3, <3>1, <3>7 DEF TxFits
  <2> QED
    BY <2>2, <2>3
<1> QED
  BY <1>1, <1>4, <1>6, GoesOn

LEMMA UndoneFits == ASSUME Facts, NEW p \in Procs, Undone(p) PROVE PromotionInv'
<1>1. /\ pc[p] = "outputs" /\ tx[p].outputs = <<>> /\ Stop(p)
      /\ UNCHANGED <<assets, amended, current, cleared, normative, promoted>>
  BY DEF Undone, governed, outside
<1>2. cleared = 0 => AtRest
  <2> SUFFICES ASSUME cleared = 0 PROVE AtRest
    OBVIOUS
  <2>1. TxFits("outputs", tx[p])
    BY <1>1, Inside
  <2>2. CASE tx[p].op = "promote"
    <3>1. Additions(tx[p]) /\ tx[p].found = current
      BY <2>1, <2>2 DEF TxFits, PromotionFits
    <3> QED
      BY <1>1, <3>1, NothingAdded DEF AtRest
  <2>3. CASE tx[p].op # "promote"
    BY <2>1, <2>3 DEF TxFits, RecordFits
  <2> QED
    BY <2>2, <2>3
<1>3. cleared = 0 => AtRest'
  BY <1>1, <1>2 DEF AtRest
<1> QED
  BY <1>1, <1>3, Ends

\* A command that returns has made what it was to make, or is undone.
LEMMA CloseFits == ASSUME Facts, NEW p \in Procs, Close(p) PROVE PromotionInv'
<1> DEFINE t == tx[p]
<1>1. /\ pc[p] = "close" /\ UNCHANGED <<assets, amended, current, cleared, normative>>
      /\ tx = [tx EXCEPT ![p] = t]
  BY DEF Close, governed, Facts, DecisionInv, Typed
<1>2. cleared = 0 => TxFits("close", t)
  BY <1>1, Inside
<1>3. cleared = 0 /\ t.op = "promote" => /\ t.head = "linked" /\ current = t.id /\ t.case \in Cases
                                         /\ Additions(t) /\ Made(t) /\ Composed(t)
  BY <1>2 DEF TxFits, PromotionFits
<1>4. CASE lock' = "free" /\ Return(p) /\ Stop(p)
  <2>1. cleared = 0 => AtRest'
    <3>1. CASE t.op = "promote"
      <4>1. promoted' = promoted \cup {t.case}
        BY <1>4, <3>1 DEF Return
      <4> HIDE DEF t
      <4> QED
        BY <1>1, <1>3, <3>1, <4>1, AllAdded DEF AtRest
    <3>2. CASE t.op # "promote"
      <4>1. promoted' = promoted
        BY <1>4, <3>2 DEF Return
      <4> QED
        BY <1>1, <1>2, <3>2, <4>1 DEF AtRest, TxFits, RecordFits
    <3> QED
      BY <3>1, <3>2
  <2> QED
    BY <1>1, <1>4, <2>1, Ends
<1>5. CASE Goto(p, IF t.op = "promote" THEN "undo" ELSE "outputs") /\ UNCHANGED <<lock, tx, promoted>>
  <2>1. PICK u : u = t
    OBVIOUS
  <2>2. CASE t.op = "promote"
    <3>1. cleared = 0 => Moves(pc[p], "undo", t, current)
      BY <1>3, <2>2 DEF Moves
    <3> QED
      BY <1>1, <1>5, <2>2, <3>1, LabelStepFits
  <2>3. CASE t.op # "promote"
    <3>1. cleared = 0 => TxFits("outputs", u)'
      BY <1>1, <1>2, <1>5, <2>1, <2>3 DEF TxFits, RecordFits, AtRest
    <3> QED
      BY <1>1, <1>5, <2>1, <2>3, <3>1, GoesOn DEF Goto
  <2> QED
    BY <2>2, <2>3
<1> QED
  BY <1>4, <1>5 DEF Close

LEMMA CommandFits == ASSUME Facts, NEW p \in Procs, Command(p) PROVE PromotionInv'
<1>1. CASE UnlinkFails(p) \/ RemoveFails(p)
  BY <1>1, StaleEnds DEF UnlinkFails, RemoveFails, outside
<1> QED
  BY <1>1, RefuseFits, RecordingFits, WriteAmendmentFits, PublishAssetFits, MovePointerFits,
     LinkPointerFits, LinkFailsFits, RetirePointerFits, StepFailsFits, UnlinkPointerFits,
     RestorePointerFits, RemoveOutputFits, UndoneFits, CloseFits DEF Command, Promote, RollBack

\* What others do, beside a transaction or between two.
LEMMA OthersFit ==
  ASSUME Facts, (\E r \in Readers : Read(r)) \/ ApproveNormative \/ ClearLocks \/ UNCHANGED vars
  PROVE  PromotionInv'
<1>1. CASE (\E r \in Readers : Read(r)) \/ UNCHANGED vars
  <2>1. UNCHANGED <<lock, pc, tx, assets, amended, current, promoted, cleared, normative>>
    BY <1>1 DEF Read, ReadPointer, ReadAsset, ReadBase, EndRead, vars, governed
  <2>2. AtRest' <=> AtRest
    BY <2>1 DEF AtRest
  <2>3. ASSUME NEW q \in Procs PROVE TxFits(pc[q], tx[q])' <=> TxFits(pc[q], tx[q])
    <3>1. Additions(tx[q])' <=> Additions(tx[q])
      BY <2>1 DEF Additions
    <3>2. Made(tx[q])' <=> Made(tx[q])
      BY <2>1 DEF Made
    <3>3. PromotionFits(pc[q], tx[q])' <=> PromotionFits(pc[q], tx[q])
      BY <2>1, <3>1, <3>2 DEF PromotionFits
    <3>4. RecordFits(pc[q], tx[q])' <=> RecordFits(pc[q], tx[q])
      BY <2>1, <2>2 DEF RecordFits
    <3> QED
      BY <2>1, <3>3, <3>4 DEF TxFits
  <2> QED
    BY <2>1, <2>2, <2>3 DEF Facts, PromotionInv
<1>2. CASE ApproveNormative
  <2>1. /\ UNCHANGED <<lock, pc, tx, assets, amended, current, promoted, cleared>>
        /\ normative' = normative + 1 /\ lock = "free"
    BY <1>2 DEF ApproveNormative, governed
  <2>2. \A q \in Procs : pc[q] = "idle"
    BY <2>1 DEF Facts, DecisionInv, Exclusive, LockNamesApart
  <2> QED
    BY <2>1, <2>2 DEF Facts, PromotionInv, AtRest
<1>3. CASE ClearLocks
  BY <1>3 DEF ClearLocks, Facts, PromotionInv
<1> QED
  BY <1>1, <1>2, <1>3

WholeInv == DecisionInv /\ PromotionInv

LEMMA WholeInvInit == Init => WholeInv
<1>1. ASSUME Init PROVE PromotionInv
  <2>1. Whole({}, {}, None)
    BY DEF Whole
  <2> QED
    BY <1>1, <2>1 DEF Init, PromotionInv, AtRest
<1> QED
  BY <1>1, DecisionInvInit DEF WholeInv

LEMMA WholeInvNext ==
  ASSUME LockNamesApart, NoneApart, "pointer" \notin LateFailures, WholeInv, [Next]_vars
  PROVE  WholeInv'
<1>1. Facts
  BY DEF Facts, WholeInv
<1>2. ASSUME NEW p \in Procs, Begin(p) \/ Command(p) \/ Crash(p) PROVE PromotionInv'
  <2>1. CASE Crash(p)
    BY <1>1, <2>1, StaleEnds DEF Crash, governed, outside
  <2> QED
    BY <1>1, <1>2, <2>1, BeginFits, CommandFits
<1>3. PromotionInv'
  BY <1>1, <1>2, OthersFit DEF Next
<1> QED
  BY <1>3, DecisionInvNext DEF WholeInv

\* While nobody is inside a transaction and none left its locks behind, a scope's pointer
\* names an asset that is there with its whole lineage, and every asset and amendment is of
\* that lineage, for any number of processes that promote, fail, roll back and die.
THEOREM PromotionsAreWhole ==
  ASSUME LockNamesApart, NoneApart, "pointer" \notin LateFailures
  PROVE  Spec => []PromotionIsAllOrNothing
<1>1. WholeInv => PromotionIsAllOrNothing
  <2> SUFFICES ASSUME Whole(assets, amended, current)
               PROVE  /\ current # None => Bound(current)
                      /\ amended = Governed(current)
                      /\ \A a \in assets : current # None /\ a.id \in Chain(current)
    BY DEF WholeInv, PromotionInv, AtRest, PromotionIsAllOrNothing
  <2>1. CASE current = None
    BY <2>1 DEF Whole, Governed
  <2>2. CASE current # None
    BY <2>2, ChainIsWhole DEF Ids
  <2> QED
    BY <2>1, <2>2
<1> QED
  BY <1>1, WholeInvInit, WholeInvNext, PTL DEF Spec

\* What was promoted is in the lineage every later promotion composes with, whoever
\* promotes next and whatever fails.
THEOREM PromotedStays ==
  ASSUME LockNamesApart, NoneApart, "pointer" \notin LateFailures
  PROVE  Spec => []PromotedStaysInLineage
<1>1. WholeInv => PromotedStaysInLineage
  <2> SUFFICES ASSUME Whole(assets, amended, current), promoted \subseteq amended
               PROVE  promoted \subseteq Governed(current)
    BY DEF WholeInv, PromotionInv, AtRest, PromotedStaysInLineage
  <2>1. CASE current = None
    BY <2>1 DEF Whole
  <2>2. CASE current # None
    BY <2>2, ChainIsWhole
  <2> QED
    BY <2>1, <2>2
<1> QED
  BY <1>1, WholeInvInit, WholeInvNext, PTL DEF Spec
=============================================================================
