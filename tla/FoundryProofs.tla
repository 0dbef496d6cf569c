--------------------------- MODULE FoundryProofs ---------------------------
(***************************************************************************)
(* FoundryApproval, for every set of docsets, assets, processes and        *)
(* readers.  With verification faults or without, and however often an     *)
(* operator removes stale locks: its two-lock protocol excludes, and       *)
(* supersedes never dangles.  As long as identities can be verified and no *)
(* operator removes a lock: heads nobody has locked agree, no approval     *)
(* that returned is lost and no root orphaned, and lock-free reads are     *)
(* atomic.  The types of all variables.                                    *)
(***************************************************************************)
EXTENDS FoundryApproval, FiniteSetTheorems, TLAPS

-----------------------------------------------------------------------------
(* The inductive invariant: what the steps of a transaction keep of it     *)
(* (Shape), and LocksExclude itself, in named parts.                       *)

Shape(t) ==
  /\ DOMAIN t = {"op", "d", "title", "asset", "run", "orig", "pub", "todo",
                 "rooted", "raised", "recovery", "failed", "closing"}
  /\ t.op \in {"approve", "register"}
  /\ t.closing \in BOOLEAN

Shapes ==
  /\ pc \in [Procs -> Labels]
  /\ txn = [p \in Procs |-> txn[p]]
  /\ \A p \in Procs : pc[p] # "idle" => Shape(txn[p])

OneActive == \A p, q \in Procs : pc[p] # "idle" /\ pc[q] # "idle" => p = q

ActiveLocksCatalog == \A p \in Procs : pc[p] # "idle" => CatalogLock \in locks

ApprovalLocksDocset ==
  \A p \in Procs :
    pc[p] \notin {"idle", "locking", "releasing"} /\ txn[p].op = "approve"
      /\ ~txn[p].closing => DocsetLock(txn[p].d) \in locks

LockInv == Shapes /\ OneActive /\ ActiveLocksCatalog /\ ApprovalLocksDocset

-----------------------------------------------------------------------------
(* Three kinds of step.                                                    *)

\* Leaving a transaction: nobody is active any more, whatever locks remain.
LEMMA LeavingKeeps ==
  ASSUME LockInv, NEW p \in Procs, pc[p] # "idle", Leave(p)
  PROVE  LockInv'
<1>1. /\ pc' = [pc EXCEPT ![p] = "idle"]
      /\ txn' = [txn EXCEPT ![p] = None]
  BY DEF Leave, Goto
<1>2. \A q \in Procs : pc'[q] = "idle"
  BY <1>1 DEF LockInv, Shapes, OneActive
<1>3. pc' \in [Procs -> Labels] /\ txn' = [q \in Procs |-> txn'[q]]
  BY <1>1 DEF LockInv, Shapes, Labels
<1> QED
  BY <1>2, <1>3 DEF LockInv, Shapes, OneActive, ActiveLocksCatalog, ApprovalLocksDocset

\* Working on under the same locks: a transaction that has taken its locks
\* keeps them; one that has begun to release them works on only to close.
Works(p, l, t) ==
  /\ pc[p] \notin {"idle", "locking"}
  /\ l \in Labels \ {"idle", "locking", "releasing"}
  /\ Shape(t) /\ t.op = txn[p].op /\ t.d = txn[p].d
  /\ t.closing \/ (~txn[p].closing /\ pc[p] # "releasing")
  /\ locks' = locks

LEMMA WorkingKeeps ==
  ASSUME LockInv, NEW p \in Procs, NEW l, NEW t, Works(p, l, t), Enter(p, l, t)
  PROVE  LockInv'
<1>1. /\ pc' = [pc EXCEPT ![p] = l]
      /\ txn' = [txn EXCEPT ![p] = t]
  BY DEF Enter, Goto
<1>2. Shapes'
  BY <1>1 DEF LockInv, Shapes, Works
<1>3. \A q \in Procs \ {p} : pc'[q] = "idle" /\ pc[q] = "idle"
  BY <1>1 DEF LockInv, Shapes, OneActive, Works
<1>4. OneActive'
  BY <1>3 DEF OneActive
<1>5. ActiveLocksCatalog'
  BY <1>3 DEF LockInv, ActiveLocksCatalog, Works
<1>6. ApprovalLocksDocset'
  <2>1. pc'[p] = l /\ txn'[p] = t
    BY <1>1 DEF LockInv, Shapes
  <2>2. txn[p].op = "approve" /\ ~t.closing => DocsetLock(t.d) \in locks'
    BY DEF LockInv, ApprovalLocksDocset, Works
  <2> QED
    BY <1>3, <2>1, <2>2 DEF ApprovalLocksDocset, Works
<1> QED
  BY <1>2, <1>4, <1>5, <1>6 DEF LockInv

\* Taking the catalog's lock while it is free: nobody else is active.
LEMMA BeginningKeeps ==
  ASSUME LockInv, NEW p \in Procs, NEW l, NEW t, Enter(p, l, t), Shape(t),
         l \in Labels, l = "locking" \/ t.op = "register",
         LockFree(CatalogLock), locks' = locks \cup {CatalogLock}
  PROVE  LockInv'
<1>1. /\ pc' = [pc EXCEPT ![p] = l]
      /\ txn' = [txn EXCEPT ![p] = t]
  BY DEF Enter, Goto
<1>2. \A q \in Procs : pc[q] = "idle"
  BY DEF LockInv, ActiveLocksCatalog, LockFree
<1>3. Shapes'
  BY <1>1, <1>2 DEF LockInv, Shapes
<1>4. pc'[p] = l /\ txn'[p] = t /\ \A q \in Procs \ {p} : pc'[q] = "idle"
  BY <1>1, <1>2 DEF LockInv, Shapes
<1>5. OneActive' /\ ActiveLocksCatalog'
  BY <1>4 DEF OneActive, ActiveLocksCatalog
<1>6. ApprovalLocksDocset'
  BY <1>4 DEF ApprovalLocksDocset
<1> QED
  BY <1>3, <1>5, <1>6 DEF LockInv

\* A failing transaction works on, restoring.
LEMMA FailingKeeps ==
  ASSUME LockInv, NEW p \in Procs, NEW t, NEW recovery, Fail(p, t, recovery),
         Works(p, "restoring", t)
  PROVE  LockInv'
<1> DEFINE u == [t EXCEPT !.raised = TRUE, !.recovery = recovery,
                          !.todo = RestoreOrder(t)]
<1>1. Enter(p, "restoring", u)
  BY DEF Fail
<1>2. Shape(u) /\ u.op = t.op /\ u.d = t.d /\ u.closing = t.closing
  BY DEF Works, Shape
<1>3. Works(p, "restoring", u)
  BY <1>2 DEF Works
<1> HIDE DEF u
<1> QED
  BY <1>1, <1>3, WorkingKeeps

-----------------------------------------------------------------------------
(* One lemma per phase of a transaction.                                   *)

LEMMA InShape ==
  ASSUME LockInv, NEW p \in Procs, pc[p] # "idle"
  PROVE  Shape(txn[p])
BY DEF LockInv, Shapes

LEMMA TransactionShape ==
  ASSUME NEW op \in {"approve", "register"}, NEW d, NEW title, NEW asset, NEW run
  PROVE  /\ Shape(Transaction(op, d, title, asset, run))
         /\ Transaction(op, d, title, asset, run).op = op
BY DEF Transaction, Shape

LEMMA BeginKeeps ==
  ASSUME LockInv, NEW p \in Procs, Begin(p)
  PROVE  LockInv'
<1>1. CASE ApproveBegin(p)
  <2>1. PICK d \in dirs, a \in Assets, r \in Runs :
          /\ LockFree(CatalogLock)
          /\ locks' = locks \cup {CatalogLock}
          /\ Enter(p, "locking", Transaction("approve", d, None, a, r))
    BY <1>1 DEF ApproveBegin
  <2> QED
    BY <2>1, TransactionShape, BeginningKeeps DEF Labels
<1>2. CASE RegisterBegin(p)
  <2>1. PICK d \in Docsets, title \in Titles :
          /\ LockFree(CatalogLock)
          /\ locks' = locks \cup {CatalogLock}
          /\ Enter(p, "checking", Transaction("register", d, title, None, None))
    BY <1>2 DEF RegisterBegin
  <2> QED
    BY <2>1, TransactionShape, BeginningKeeps DEF Labels
<1> QED
  BY <1>1, <1>2 DEF Begin

LEMMA LockingKeeps ==
  ASSUME LockInv, NEW p \in Procs, LockDocset(p) \/ GiveUpLocking(p)
  PROVE  LockInv'
<1>1. CASE LockDocset(p)
  <2>1. /\ pc[p] = "locking"
        /\ pc' = [pc EXCEPT ![p] = "checking"]
        /\ locks' = locks \cup {DocsetLock(txn[p].d)}
        /\ txn' = txn
    BY <1>1 DEF LockDocset, Goto
  <2>2. Shapes'
    BY <2>1 DEF LockInv, Shapes, Labels
  <2>3. \A q \in Procs \ {p} : pc'[q] = "idle"
    BY <2>1 DEF LockInv, Shapes, OneActive
  <2>4. OneActive'
    BY <2>3 DEF OneActive
  <2>5. ActiveLocksCatalog'
    BY <2>1, <2>3 DEF LockInv, ActiveLocksCatalog
  <2>6. ApprovalLocksDocset'
    BY <2>1, <2>3 DEF ApprovalLocksDocset
  <2> QED
    BY <2>2, <2>4, <2>5, <2>6 DEF LockInv
<1>2. CASE GiveUpLocking(p)
  <2>1. pc[p] # "idle" /\ Leave(p)
    BY <1>2 DEF GiveUpLocking
  <2> QED
    BY <2>1, LeavingKeeps
<1> QED
  BY <1>1, <1>2

LEMMA CheckingKeeps ==
  ASSUME LockInv, NEW p \in Procs,
         CheckApproval(p) \/ CheckRegistration(p) \/ Refuse(p)
  PROVE  LockInv'
<1>1. pc[p] = "checking" /\ locks' = locks
  BY DEF CheckApproval, CheckRegistration, Refuse, heads
<1>2. Shape(txn[p])
  BY <1>1, InShape
<1>3. CASE CheckApproval(p)
  <2> DEFINE t == [txn[p] EXCEPT !.orig = Capture(txn[p]),
                                 !.title = file[DocsetHead(txn[p].d)].content.title]
  <2>1. Enter(p, "staging", t)
    BY <1>3 DEF CheckApproval
  <2>2. Shape(t) /\ t.op = txn[p].op /\ t.d = txn[p].d /\ t.closing = txn[p].closing
    BY <1>2 DEF Shape
  <2> HIDE DEF t
  <2>3. Works(p, "staging", t)
    BY <1>1, <2>2 DEF Works, Labels, Shape
  <2> QED
    BY <2>1, <2>3, WorkingKeeps
<1>4. CASE CheckRegistration(p)
  <2> DEFINE known == file[DocsetHead(txn[p].d)]
             asset == IF known = None THEN None ELSE known.content.asset
             c == [txn[p] EXCEPT !.orig = Capture(txn[p]), !.asset = asset]
             w == [c EXCEPT !.todo = <<DocsetHead(txn[p].d), CatalogHead>>]
  <2>1. Enter(p, "writing", w) \/ Enter(p, "staging", c)
    BY <1>4 DEF CheckRegistration
  <2>2. /\ Shape(c) /\ c.op = txn[p].op /\ c.d = txn[p].d /\ c.closing = txn[p].closing
        /\ Shape(w) /\ w.op = txn[p].op /\ w.d = txn[p].d /\ w.closing = txn[p].closing
    BY <1>2 DEF Shape
  <2> HIDE DEF c, w
  <2>3. Works(p, "writing", w) /\ Works(p, "staging", c)
    BY <1>1, <2>2 DEF Works, Labels, Shape
  <2> QED
    BY <2>1, <2>3, WorkingKeeps
<1>5. CASE Refuse(p)
  <2> DEFINE t == [txn[p] EXCEPT !.raised = TRUE]
  <2>1. Enter(p, "unlocking", t)
    BY <1>5 DEF Refuse
  <2>2. Shape(t) /\ t.op = txn[p].op /\ t.d = txn[p].d /\ t.closing = txn[p].closing
    BY <1>2 DEF Shape
  <2> HIDE DEF t
  <2>3. Works(p, "unlocking", t)
    BY <1>1, <2>2 DEF Works, Labels, Shape
  <2> QED
    BY <2>1, <2>3, WorkingKeeps
<1> QED
  BY <1>3, <1>4, <1>5

\* A transaction at work whose record does not change works on, or fails.
LEMMA UnchangedWorks ==
  ASSUME LockInv, NEW p \in Procs, locks' = locks,
         pc[p] \notin {"idle", "locking", "releasing"},
         NEW l \in Labels \ {"idle", "locking", "releasing"}
  PROVE  Works(p, l, txn[p])
BY InShape DEF Works, Shape

LEMMA StagingKeeps ==
  ASSUME LockInv, NEW p \in Procs, PublishRoot(p) \/ StageFails(p)
  PROVE  LockInv'
<1>1. pc[p] = "staging" /\ locks' = locks
  BY DEF PublishRoot, StageFails, heads
<1>2. Shape(txn[p])
  BY <1>1, InShape
<1>3. CASE PublishRoot(p)
  <2> DEFINE t == [txn[p] EXCEPT !.rooted = TRUE, !.todo = WriteOrder(txn[p])]
  <2>1. Enter(p, "writing", t) \/ Fail(p, t, FALSE)
    BY <1>3 DEF PublishRoot
  <2>2. Shape(t) /\ t.op = txn[p].op /\ t.d = txn[p].d /\ t.closing = txn[p].closing
    BY <1>2 DEF Shape
  <2> HIDE DEF t
  <2>3. Works(p, "writing", t) /\ Works(p, "restoring", t)
    BY <1>1, <2>2 DEF Works, Labels, Shape
  <2> QED
    BY <2>1, <2>3, WorkingKeeps, FailingKeeps
<1>4. CASE StageFails(p)
  <2>1. PICK recovery \in BOOLEAN : Fail(p, txn[p], recovery)
    BY <1>4 DEF StageFails
  <2>2. Works(p, "restoring", txn[p])
    BY <1>1, UnchangedWorks DEF Labels
  <2> QED
    BY <2>1, <2>2, FailingKeeps
<1> QED
  BY <1>3, <1>4

\* The record a step leaves alone, seen as the record it enters the label with.
LEMMA StayingEnters ==
  ASSUME LockInv, NEW p \in Procs, NEW l, Goto(p, l), txn' = txn
  PROVE  Enter(p, l, txn[p])
BY DEF LockInv, Shapes, Enter

LEMMA AdvancedShape ==
  ASSUME NEW t, Shape(t)
  PROVE  /\ Shape(Advanced(t))
         /\ Advanced(t).op = t.op /\ Advanced(t).d = t.d
         /\ Advanced(t).closing = t.closing
BY DEF Advanced, Shape

LEMMA WritingKeeps ==
  ASSUME LockInv, NEW p \in Procs,
         \/ MoveHead(p) \/ WriteRefused(p) \/ LinkHead(p) \/ LinkFails(p)
         \/ VerifyFails(p) \/ RetireHead(p) \/ RetireFails(p)
  PROVE  LockInv'
<1>1. pc[p] \in {"writing", "linking", "retiring"} /\ locks' = locks
  BY DEF MoveHead, WriteRefused, LinkHead, LinkFails, VerifyFails, RetireHead,
         RetireFails, heads
<1>2. Shape(txn[p])
  BY <1>1, InShape
<1>3. \A l \in {"linking", "restoring"} : Works(p, l, txn[p])
  BY <1>1, UnchangedWorks DEF Labels
<1>4. CASE MoveHead(p)
  <2>1. Goto(p, "linking") /\ txn' = txn
    BY <1>4 DEF MoveHead
  <2> QED
    BY <2>1, <1>3, StayingEnters, WorkingKeeps
<1>5. CASE WriteRefused(p)
  BY <1>3, <1>5, FailingKeeps DEF WriteRefused
<1>6. CASE LinkHead(p)
  <2> DEFINE h == Head(txn[p].todo)
             t == [txn[p] EXCEPT !.pub[h] = Fresh(h)]
  <2>1. Enter(p, "retiring", t)
    BY <1>6 DEF LinkHead
  <2>2. Shape(t) /\ t.op = txn[p].op /\ t.d = txn[p].d /\ t.closing = txn[p].closing
    BY <1>2 DEF Shape
  <2> HIDE DEF t
  <2>3. Works(p, "retiring", t)
    BY <1>1, <2>2 DEF Works, Labels, Shape
  <2> QED
    BY <2>1, <2>3, WorkingKeeps
<1>7. CASE LinkFails(p)
  <2>1. Fail(p, txn[p], FALSE) \/ Fail(p, txn[p], TRUE)
    BY <1>7 DEF LinkFails
  <2> QED
    BY <2>1, <1>3, FailingKeeps
<1>8. CASE VerifyFails(p)
  BY <1>3, <1>8, FailingKeeps DEF VerifyFails
<1>9. CASE RetireHead(p)
  <2>1. \/ Enter(p, "unlocking", Advanced(txn[p]))
        \/ Enter(p, "writing", Advanced(txn[p]))
    BY <1>9 DEF RetireHead
  <2>2. /\ Works(p, "unlocking", Advanced(txn[p]))
        /\ Works(p, "writing", Advanced(txn[p]))
    BY <1>1, <1>2, AdvancedShape DEF Works, Labels, Shape
  <2> QED
    BY <2>1, <2>2, WorkingKeeps
<1>10. CASE RetireFails(p)
  <2>1. Fail(p, txn[p], FALSE) \/ Fail(p, txn[p], TRUE)
    BY <1>10 DEF RetireFails
  <2> QED
    BY <2>1, <1>3, FailingKeeps
<1> QED
  BY <1>4, <1>5, <1>6, <1>7, <1>8, <1>9, <1>10

\* A head restored, or not: the transaction goes on with the next.
LEMMA RestoredWorks ==
  ASSUME LockInv, NEW p \in Procs, locks' = locks,
         pc[p] \in {"restoring", "relinking"}, NEW failed \in BOOLEAN,
         Enter(p, "restoring", [Advanced(txn[p]) EXCEPT !.failed = @ \/ failed])
  PROVE  LockInv'
<1> DEFINE t == [Advanced(txn[p]) EXCEPT !.failed = @ \/ failed]
<1>1. Shape(Advanced(txn[p]))
  BY InShape, AdvancedShape
<1>2. /\ Shape(t)
      /\ t.op = Advanced(txn[p]).op /\ t.d = Advanced(txn[p]).d
      /\ t.closing = Advanced(txn[p]).closing
  BY <1>1 DEF Shape
<1> HIDE DEF t
<1>3. t.op = txn[p].op /\ t.d = txn[p].d /\ t.closing = txn[p].closing
  BY <1>2, InShape, AdvancedShape
<1>4. Works(p, "restoring", t)
  BY <1>2, <1>3 DEF Works, Labels, Shape
<1> QED
  BY <1>4, WorkingKeeps DEF t

LEMMA FailedWorks ==
  ASSUME LockInv, NEW p \in Procs, locks' = locks,
         pc[p] \in {"restoring", "relinking"},
         Enter(p, "restoring", [Advanced(txn[p]) EXCEPT !.failed = TRUE])
  PROVE  LockInv'
<1> DEFINE t == [Advanced(txn[p]) EXCEPT !.failed = TRUE]
<1>1. Shape(Advanced(txn[p]))
  BY InShape, AdvancedShape
<1>2. /\ Shape(t)
      /\ t.op = Advanced(txn[p]).op /\ t.d = Advanced(txn[p]).d
      /\ t.closing = Advanced(txn[p]).closing
  BY <1>1 DEF Shape
<1> HIDE DEF t
<1>3. t.op = txn[p].op /\ t.d = txn[p].d /\ t.closing = txn[p].closing
  BY <1>2, InShape, AdvancedShape
<1>4. Works(p, "restoring", t)
  BY <1>2, <1>3 DEF Works, Labels, Shape
<1> QED
  BY <1>4, WorkingKeeps DEF t

LEMMA RollingBackKeeps ==
  ASSUME LockInv, NEW p \in Procs,
         \/ RestoreHead(p) \/ RestoreFails(p) \/ RelinkHead(p) \/ RelinkFails(p)
         \/ CleanUp(p) \/ Abandon(p)
  PROVE  LockInv'
<1>1. pc[p] \in {"restoring", "relinking"} /\ locks' = locks
  BY DEF RestoreHead, RestoreFails, RelinkHead, RelinkFails, CleanUp, Abandon, heads
<1>2. Shape(txn[p])
  BY <1>1, InShape
<1>3. CASE RestoreHead(p)
  <2>1. CASE txn[p].orig[Head(txn[p].todo)] = None
    <3>1. PICK failed \in BOOLEAN :
            Enter(p, "restoring", [Advanced(txn[p]) EXCEPT !.failed = @ \/ failed])
      BY <1>3, <2>1 DEF RestoreHead
    <3> QED
      BY <1>1, <3>1, RestoredWorks
  <2>2. CASE txn[p].orig[Head(txn[p].todo)] # None
    <3>1. Goto(p, "relinking") /\ txn' = txn
      BY <1>3, <2>2 DEF RestoreHead
    <3>2. Works(p, "relinking", txn[p])
      BY <1>1, UnchangedWorks DEF Labels
    <3> QED
      BY <3>1, <3>2, StayingEnters, WorkingKeeps
  <2> QED
    BY <2>1, <2>2
<1>4. CASE RestoreFails(p)
  BY <1>1, <1>4, FailedWorks DEF RestoreFails
<1>5. CASE RelinkHead(p)
  <2>1. PICK failed \in BOOLEAN :
          Enter(p, "restoring", [Advanced(txn[p]) EXCEPT !.failed = @ \/ failed])
    BY <1>5 DEF RelinkHead
  <2> QED
    BY <1>1, <2>1, RestoredWorks
<1>6. CASE RelinkFails(p)
  BY <1>1, <1>6, FailedWorks DEF RelinkFails
<1>7. CASE CleanUp(p)
  <2> DEFINE t == [txn[p] EXCEPT !.rooted = FALSE]
  <2>1. Leave(p) \/ Enter(p, "forcing", t) \/ Enter(p, "unlocking", t)
    BY <1>7 DEF CleanUp
  <2>2. Shape(t) /\ t.op = txn[p].op /\ t.d = txn[p].d /\ t.closing = txn[p].closing
    BY <1>2 DEF Shape
  <2> HIDE DEF t
  <2>3. Works(p, "forcing", t) /\ Works(p, "unlocking", t)
    BY <1>1, <2>2 DEF Works, Labels, Shape
  <2> QED
    BY <1>1, <2>1, <2>3, WorkingKeeps, LeavingKeeps
<1>8. CASE Abandon(p)
  BY <1>1, <1>8, LeavingKeeps DEF Abandon
<1> QED
  BY <1>3, <1>4, <1>5, <1>6, <1>7, <1>8

LEMMA ClosingKeeps ==
  ASSUME LockInv, NEW p \in Procs,
         \/ UnlockDocset(p) \/ UnlockCatalog(p) \/ UnlockFails(p)
         \/ ForceClose(p) \/ ForceCloseFails(p) \/ Crash(p)
  PROVE  LockInv'
<1>1. CASE UnlockDocset(p)
  <2>1. /\ pc[p] = "unlocking"
        /\ locks' = locks \ {DocsetLock(txn[p].d)}
        /\ pc' = [pc EXCEPT ![p] = "releasing"]
        /\ txn' = txn
    BY <1>1 DEF UnlockDocset, Goto
  <2>2. Shapes'
    BY <2>1 DEF LockInv, Shapes, Labels
  <2>3. \A q \in Procs \ {p} : pc'[q] = "idle"
    BY <2>1 DEF LockInv, Shapes, OneActive
  <2>4. CatalogLock \in locks'
    BY <2>1 DEF LockInv, ActiveLocksCatalog, CatalogLock, DocsetLock
  <2>5. pc'[p] = "releasing"
    BY <2>1 DEF LockInv, Shapes
  <2> QED
    BY <2>2, <2>3, <2>4, <2>5
    DEF LockInv, OneActive, ActiveLocksCatalog, ApprovalLocksDocset
<1>2. CASE UnlockCatalog(p)
  <2>1. pc[p] # "idle" /\ Leave(p)
    BY <1>2 DEF UnlockCatalog
  <2> QED
    BY <2>1, LeavingKeeps
<1>3. CASE UnlockFails(p)
  <2> DEFINE t == [txn[p] EXCEPT !.closing = TRUE]
  <2>1. pc[p] \in {"unlocking", "releasing"} /\ locks' = locks
    BY <1>3 DEF UnlockFails, heads
  <2>2. Leave(p) \/ Enter(p, "forcing", t) \/ Fail(p, t, FALSE)
    BY <1>3 DEF UnlockFails
  <2>3. Shape(t) /\ t.op = txn[p].op /\ t.d = txn[p].d /\ t.closing
    BY <2>1, InShape DEF Shape
  <2> HIDE DEF t
  <2>4. Works(p, "forcing", t) /\ Works(p, "restoring", t)
    BY <2>1, <2>3 DEF Works, Labels
  <2> QED
    BY <2>1, <2>2, <2>4, LeavingKeeps, WorkingKeeps, FailingKeeps
<1>4. CASE ForceClose(p) \/ ForceCloseFails(p) \/ Crash(p)
  <2>1. pc[p] # "idle" /\ Leave(p)
    BY <1>4 DEF ForceClose, ForceCloseFails, Crash
  <2> QED
    BY <2>1, LeavingKeeps
<1> QED
  BY <1>1, <1>2, <1>3, <1>4

-----------------------------------------------------------------------------
(* The theorem.                                                            *)

LEMMA LockInvInit ==
  Init => LockInv
BY DEF Init, LockInv, Shapes, OneActive, ActiveLocksCatalog, ApprovalLocksDocset, Labels

LEMMA LockInvNext ==
  LockInv /\ [Next]_vars => LockInv'
<1> SUFFICES ASSUME LockInv, [Next]_vars
             PROVE  LockInv'
  OBVIOUS
<1>1. ASSUME NEW p \in Procs, Begin(p)
      PROVE  LockInv'
  BY <1>1, BeginKeeps
<1>2. ASSUME NEW p \in Procs, Step(p)
      PROVE  LockInv'
  BY <1>2, LockingKeeps, CheckingKeeps, StagingKeeps, WritingKeeps,
     RollingBackKeeps, ClosingKeeps DEF Step
<1>3. ASSUME NEW p \in Procs, Crash(p)
      PROVE  LockInv'
  BY <1>3, ClosingKeeps
<1>4. CASE ClearLocks
  <2>1. pc' = pc /\ txn' = txn /\ \A p \in Procs : pc[p] = "idle"
    BY <1>4 DEF ClearLocks
  <2> QED
    BY <2>1 DEF LockInv, Shapes, OneActive, ActiveLocksCatalog, ApprovalLocksDocset
<1>5. ASSUME NEW r \in Readers, Read(r)
      PROVE  LockInv'
  <2>1. pc' = pc /\ txn' = txn /\ locks' = locks
    BY <1>5 DEF Read, ReadPointer, ReadDocset, ReadCatalog, ReadAsset, ReadReturns, heads
  <2> QED
    BY <2>1 DEF LockInv, Shapes, OneActive, ActiveLocksCatalog, ApprovalLocksDocset
<1>6. CASE UNCHANGED vars
  BY <1>6 DEF vars, heads, LockInv, Shapes, OneActive, ActiveLocksCatalog,
              ApprovalLocksDocset
<1> QED
  BY <1>1, <1>2, <1>3, <1>4, <1>5, <1>6 DEF Next

\* The catalog lock and the docset lock exclude: at most one transaction runs,
\* under the catalog lock, and an approval that has not begun to close runs
\* under its docset's lock too, for any number of processes, docsets and
\* hand-removed locks.
THEOREM Exclusion == Spec => []LocksExclude
<1>1. LockInv => LocksExclude
  BY DEF LockInv, OneActive, ActiveLocksCatalog, ApprovalLocksDocset, LocksExclude
<1> QED
  BY <1>1, LockInvInit, LockInvNext, PTL DEF Spec

-----------------------------------------------------------------------------
(* The lineage: supersedes never dangles and no acknowledged root goes.    *)
(* What a transaction knows of its own publication, in named parts.        *)

Elems(s) == {s[i] : i \in 1..Len(s)}
Left(t) == Elems(t.todo)

OwnHeads(t) == IF t.op = "approve" THEN HeadsOf(t.d) ELSE {DocsetHead(t.d), CatalogHead}

\* A pointer of d names an asset by a manifest of d.
PointerFits(d, f) ==
  f # None => /\ f.content.asset \in Assets
              /\ f.content.digest # None /\ f.content.digest.docset = d

\* A root of d, or nothing.
RootOf(d, a) == a # None => a \in Assets /\ assets[a] # None /\ assets[a].docset = d

\* The published head of a transaction has been taken away again, or never was one.
Withdrawn(t, h) == t.pub[h] = None \/ file[h] = None \/ file[h].inode # t.pub[h]

\* The root of a transaction: nothing descends from it and nobody was told of it.
OwnRoot(t) ==
  /\ assets[t.asset] # None /\ assets[t.asset].docset = t.d
  /\ \A b \in Assets : assets[b] # None => assets[b].supersedes # t.asset
  /\ \A d \in Docsets : t.asset \notin acked[d]

Working == {"staging", "writing", "linking", "retiring", "restoring", "relinking"}

ApprovalFits(l, t) ==
  /\ t.asset \in Assets /\ t.run \in Runs /\ t.pub = [h \in HeadsOf(t.d) |-> t.pub[h]]
  /\ l \in Working \/ t.orig # None => PointerFits(t.d, t.orig[CurrentHead(t.d)])
  /\ l \in {"locking", "checking", "staging"} => \A h \in HeadsOf(t.d) : t.pub[h] = None
  /\ l \in {"locking", "checking"} => t.orig = None /\ t.rooted = FALSE
  /\ l = "staging" => t.rooted = FALSE /\ RootOf(t.d, Supersedes(t))
  /\ l \in {"writing", "linking", "retiring", "relinking"} => t.rooted = TRUE
  /\ l = "relinking" => t.orig[Head(t.todo)] # None
  /\ l \in {"unlocking", "releasing"} => t.raised = TRUE \/ t.rooted = TRUE
  /\ l \in {"restoring", "relinking"} =>
       /\ t.raised = TRUE
       /\ \A h \in Left(t) : t.pub[h] # None
       /\ t.failed = FALSE => \A h \in HeadsOf(t.d) \ Left(t) : Withdrawn(t, h)
  /\ t.rooted = FALSE => \A h \in HeadsOf(t.d) : Withdrawn(t, h)
  /\ t.rooted = TRUE => OwnRoot(t)

TxnFits(l, t) ==
  /\ Shape(t) /\ t.d \in Docsets
  /\ t.rooted \in BOOLEAN /\ t.failed \in BOOLEAN /\ t.raised \in BOOLEAN
  /\ t.todo \in Seq(OwnHeads(t))
  /\ l \in {"writing", "linking", "retiring", "relinking"} => t.todo # <<>>
  /\ t.op = "approve" => ApprovalFits(l, t)

\* What a rollback may start from.
Rollable(t) ==
  /\ Shape(t) /\ t.d \in Docsets
  /\ t.rooted \in BOOLEAN /\ t.failed \in BOOLEAN
  /\ t.op = "approve" =>
       /\ t.asset \in Assets /\ t.run \in Runs /\ t.pub = [h \in HeadsOf(t.d) |-> t.pub[h]]
       /\ PointerFits(t.d, t.orig[CurrentHead(t.d)])
       /\ t.rooted = FALSE => \A h \in HeadsOf(t.d) : Withdrawn(t, h)
       /\ t.rooted = TRUE => OwnRoot(t)

Stored ==
  /\ file = [h \in Heads |-> file[h]] /\ dirs \subseteq Docsets
  /\ assets = [a \in Assets |-> assets[a]] /\ acked = [d \in Docsets |-> acked[d]]
  /\ \A d \in Docsets : PointerFits(d, file[CurrentHead(d)])

AckedRootsStay == \A d \in Docsets : \A a \in acked[d] : a \in Assets /\ assets[a] # None

LineageInv ==
  /\ LockInv /\ Stored /\ LineageIntact /\ AckedRootsStay
  /\ \A p \in Procs : pc[p] # "idle" => TxnFits(pc[p], txn[p])

LEMMA HeadNames ==
  ASSUME NEW d \in Docsets
  PROVE  /\ HeadsOf(d) \subseteq Heads
         /\ CurrentHead(d) \in HeadsOf(d) /\ DocsetHead(d) \in HeadsOf(d) /\ CatalogHead \in HeadsOf(d)
         /\ \A e \in Docsets : CurrentHead(e) \in HeadsOf(d) => e = d
         /\ \A e \in Docsets : CurrentHead(e) # DocsetHead(d) /\ CurrentHead(e) # CatalogHead
         /\ CatalogHead # DocsetHead(d)
BY DEF HeadsOf, Heads, CurrentHead, DocsetHead, CatalogHead

LEMMA ElemsOfTail ==
  ASSUME NEW S, NEW s \in Seq(S), s # <<>>
  PROVE  /\ Head(s) \in S /\ Tail(s) \in Seq(S) /\ Head(s) \in Elems(s)
         /\ Elems(Tail(s)) \subseteq Elems(s) /\ Elems(s) \subseteq Elems(Tail(s)) \cup {Head(s)}
<1>1. /\ Head(s) \in S /\ Tail(s) \in Seq(S) /\ Len(s) \in Nat /\ Len(s) > 0
      /\ Head(s) = s[1] /\ Len(Tail(s)) = Len(s) - 1
      /\ \A i \in 1..(Len(s) - 1) : Tail(s)[i] = s[i + 1]
  OBVIOUS
<1>2. Head(s) \in Elems(s)
  BY <1>1 DEF Elems
<1>3. Elems(Tail(s)) \subseteq Elems(s)
  BY <1>1 DEF Elems
<1>4. ASSUME NEW i \in 1..Len(s)
      PROVE  s[i] \in Elems(Tail(s)) \cup {Head(s)}
  <2>1. CASE i = 1
    BY <1>1, <2>1
  <2>2. CASE i # 1
    <3>1. i - 1 \in 1..(Len(s) - 1) /\ Tail(s)[i - 1] = s[i]
      BY <1>1, <2>2
    <3> QED
      BY <1>1, <3>1 DEF Elems
  <2> QED
    BY <2>1, <2>2
<1> QED
  BY <1>1, <1>2, <1>3, <1>4 DEF Elems

LEMMA ElemsOfConcat ==
  ASSUME NEW S, NEW a \in Seq(S), NEW b \in Seq(S)
  PROVE  a \o b \in Seq(S) /\ Elems(a \o b) = Elems(a) \cup Elems(b)
<1>1. /\ a \o b \in Seq(S) /\ Len(a) \in Nat /\ Len(b) \in Nat /\ Len(a \o b) = Len(a) + Len(b)
      /\ \A i \in 1..Len(a) : (a \o b)[i] = a[i]
      /\ \A i \in 1..Len(b) : (a \o b)[Len(a) + i] = b[i]
  OBVIOUS
<1>2. ASSUME NEW i \in 1..Len(a \o b)
      PROVE  (a \o b)[i] \in Elems(a) \cup Elems(b)
  <2>1. CASE i <= Len(a)
    BY <1>1, <2>1 DEF Elems
  <2>2. CASE i > Len(a)
    <3>1. i - Len(a) \in 1..Len(b) /\ i = Len(a) + (i - Len(a))
      BY <1>1, <2>2
    <3> QED
      BY <1>1, <3>1 DEF Elems
  <2> QED
    BY <1>1, <2>1, <2>2
<1>3. Elems(a) \subseteq Elems(a \o b)
  BY <1>1 DEF Elems
<1>4. Elems(b) \subseteq Elems(a \o b)
  <2>1. \A i \in 1..Len(b) : Len(a) + i \in 1..Len(a \o b)
    BY <1>1
  <2> QED
    BY <1>1, <2>1 DEF Elems
<1> QED
  BY <1>1, <1>2, <1>3, <1>4 DEF Elems

LEMMA ToRestoreIs ==
  ASSUME NEW t, NEW S, NEW h \in S
  PROVE  /\ ToRestore(t, h) \in Seq(S)
         /\ Elems(ToRestore(t, h)) = IF t.pub[h] = None THEN {} ELSE {h}
BY DEF ToRestore, Elems

\* A rollback takes back every head the transaction has published.
LEMMA RestoreOrderIs ==
  ASSUME NEW t
  PROVE  /\ RestoreOrder(t) \in Seq(OwnHeads(t))
         /\ Elems(RestoreOrder(t)) = {h \in OwnHeads(t) : t.pub[h] # None}
<1> DEFINE c == ToRestore(t, CurrentHead(t.d))
           s == ToRestore(t, DocsetHead(t.d))
           k == ToRestore(t, CatalogHead)
<1>1. CASE t.op = "approve"
  <2>1. OwnHeads(t) = {DocsetHead(t.d), CurrentHead(t.d), CatalogHead}
    BY <1>1 DEF OwnHeads, HeadsOf
  <2>2. /\ c \in Seq(OwnHeads(t)) /\ s \in Seq(OwnHeads(t)) /\ k \in Seq(OwnHeads(t))
        /\ Elems(c) = IF t.pub[CurrentHead(t.d)] = None THEN {} ELSE {CurrentHead(t.d)}
        /\ Elems(s) = IF t.pub[DocsetHead(t.d)] = None THEN {} ELSE {DocsetHead(t.d)}
        /\ Elems(k) = IF t.pub[CatalogHead] = None THEN {} ELSE {CatalogHead}
    BY <2>1, ToRestoreIs
  <2> HIDE DEF c, s, k
  <2>3. PICK cs : cs = c \o s /\ cs \in Seq(OwnHeads(t)) /\ Elems(cs) = Elems(c) \cup Elems(s)
    <3>1. c \o s \in Seq(OwnHeads(t)) /\ Elems(c \o s) = Elems(c) \cup Elems(s)
      BY <2>2, ElemsOfConcat
    <3> QED
      BY <3>1, Zenon
  <2>4. cs \o k \in Seq(OwnHeads(t)) /\ Elems(cs \o k) = Elems(cs) \cup Elems(k)
    <3>1. cs \in Seq(OwnHeads(t)) /\ k \in Seq(OwnHeads(t))
      BY <2>2, <2>3
    <3> QED
      BY <3>1, ElemsOfConcat
  <2>5. RestoreOrder(t) = cs \o k
    BY <1>1, <2>3 DEF RestoreOrder, c, s, k
  <2> QED
    BY <2>1, <2>2, <2>3, <2>4, <2>5
<1>2. CASE t.op # "approve"
  <2>1. OwnHeads(t) = {DocsetHead(t.d), CatalogHead}
    BY <1>2 DEF OwnHeads
  <2>2. /\ s \in Seq(OwnHeads(t)) /\ k \in Seq(OwnHeads(t))
        /\ Elems(s) = IF t.pub[DocsetHead(t.d)] = None THEN {} ELSE {DocsetHead(t.d)}
        /\ Elems(k) = IF t.pub[CatalogHead] = None THEN {} ELSE {CatalogHead}
    BY <2>1, ToRestoreIs
  <2> HIDE DEF c, s, k
  <2>3. k \o s \in Seq(OwnHeads(t)) /\ Elems(k \o s) = Elems(k) \cup Elems(s)
    BY <2>2, ElemsOfConcat
  <2>4. RestoreOrder(t) = k \o s
    BY <1>2 DEF RestoreOrder, s, k
  <2> QED
    BY <2>1, <2>2, <2>3, <2>4
<1> QED
  BY <1>1, <1>2

\* Inodes are told apart: at most one transaction compares them.
LEMMA FreshIsNew ==
  ASSUME LockInv, NEW p \in Procs, pc[p] # "idle", NEW h \in HeadsOf(txn[p].d)
  PROVE  Fresh(h) \in Nat /\ Fresh(h) # txn[p].pub[h]
<1> DEFINE S == InodesInUse(h)
<1>1. \A q \in Procs : pc[q] # "idle" <=> q = p
  BY DEF LockInv, OneActive
<1>2. txn[p].pub[h] \in S
  BY <1>1 DEF InodesInUse
<1>3. \E a, b, c : S \subseteq {a, b, c}
  <2>1. {q \in Procs : pc[q] # "idle" /\ h \in HeadsOf(txn[q].d)} = {p}
    BY <1>1
  <2>2. S \subseteq {file[h].inode, txn[p].pub[h], txn[p].orig[h].inode}
    BY <2>1 DEF InodesInUse, Identity
  <2> QED
    BY <2>2
<1>4. PICK a, b, c : S \subseteq {a, b, c}
  BY <1>3
<1>5. IsFiniteSet({a, b, c})
  <2>1. IsFiniteSet({a})
    BY FS_Singleton
  <2>2. IsFiniteSet({a} \cup {b})
    BY <2>1, FS_AddElement
  <2>3. IsFiniteSet({a} \cup {b} \cup {c})
    BY <2>2, FS_AddElement
  <2>4. {a} \cup {b} \cup {c} = {a, b, c}
    OBVIOUS
  <2> QED
    BY <2>3, <2>4
<1>6. IsFiniteSet(S) /\ Cardinality(S) \in Nat
  BY <1>4, <1>5, FS_Subset, FS_CardinalityType
<1> DEFINE n == Cardinality(S) + 1
<1>7. ~(1..n \subseteq S)
  <2>1. SUFFICES ASSUME 1..n \subseteq S PROVE FALSE
    OBVIOUS
  <2>2. Cardinality(1..n) <= Cardinality(S)
    BY <1>6, <2>1, FS_Subset
  <2>3. Cardinality(1..n) = n
    BY <1>6, FS_Interval
  <2> QED
    BY <1>6, <2>2, <2>3
<1>8. \E x \in 1..n : x \notin S
  BY <1>7
<1>9. Fresh(h) \in 1..n /\ Fresh(h) \notin S
  BY <1>8 DEF Fresh
<1> QED
  BY <1>2, <1>6, <1>9

\* Whoever is inside a transaction is alone in one.
LEMMA Alone ==
  ASSUME LineageInv, NEW p \in Procs, pc[p] # "idle"
  PROVE  TxnFits(pc[p], txn[p]) /\ \A q \in Procs \ {p} : pc[q] = "idle"
BY DEF LineageInv, LockInv, OneActive

\* One process goes on, or begins, and nobody else is inside a transaction.
LEMMA GoingOn ==
  ASSUME LineageInv, LockInv', NEW p \in Procs, \A q \in Procs \ {p} : pc[q] = "idle",
         NEW l, NEW t, Enter(p, l, t), TxnFits(l, t)',
         Stored', LineageIntact', AckedRootsStay'
  PROVE  LineageInv'
<1>1. /\ pc'[p] = l /\ txn'[p] = t
      /\ \A q \in Procs \ {p} : pc'[q] = "idle"
  BY DEF Enter, Goto, LineageInv, LockInv, Shapes
<1> QED
  BY <1>1 DEF LineageInv

LEMMA GoingOut ==
  ASSUME LineageInv, LockInv', NEW p \in Procs, pc[p] # "idle", Leave(p),
         Stored', LineageIntact', AckedRootsStay'
  PROVE  LineageInv'
<1>1. \A q \in Procs : pc'[q] = "idle"
  BY Alone DEF Leave, Goto, LineageInv, LockInv, Shapes
<1> QED
  BY <1>1 DEF LineageInv

\* Nothing on disk that the lineage is made of changes.
LEMMA NothingWritten ==
  ASSUME LineageInv, UNCHANGED <<file, dirs, assets, acked>>
  PROVE  /\ Stored' /\ LineageIntact' /\ AckedRootsStay'
         /\ \A t : OwnRoot(t) => OwnRoot(t)'
         /\ \A t, h : Withdrawn(t, h) => Withdrawn(t, h)'
BY DEF LineageInv, Stored, LineageIntact, AckedRootsStay, OwnRoot, Withdrawn

\* One head is rewritten.
LEMMA OneHeadWritten ==
  ASSUME LineageInv, NEW h \in Heads, NEW f, file' = [file EXCEPT ![h] = f],
         dirs' \subseteq dirs \cup Docsets, UNCHANGED <<assets, acked>>,
         \A d \in Docsets : h = CurrentHead(d) => PointerFits(d, f)
  PROVE  /\ Stored' /\ LineageIntact' /\ AckedRootsStay'
         /\ \A t : OwnRoot(t) => OwnRoot(t)'
         /\ file'[h] = f /\ \A g \in Heads \ {h} : file'[g] = file[g]
<1>1. file'[h] = f /\ \A g \in Heads \ {h} : file'[g] = file[g]
  BY DEF LineageInv, Stored
<1>2. file' = [g \in Heads |-> file'[g]]
  BY DEF LineageInv, Stored
<1>3. \A d \in Docsets : PointerFits(d, file'[CurrentHead(d)])
  <2>1. \A d \in Docsets : CurrentHead(d) \in Heads
    BY DEF Heads
  <2> QED
    BY <1>1, <2>1 DEF LineageInv, Stored
<1> QED
  BY <1>1, <1>2, <1>3 DEF LineageInv, Stored, LineageIntact, AckedRootsStay, OwnRoot

\* A failing transaction starts to roll back.
LEMMA FailingRollsBack ==
  ASSUME LineageInv, LockInv', NEW p \in Procs, pc[p] # "idle", NEW t, NEW recovery,
         Fail(p, t, recovery), Rollable(t)',
         Stored', LineageIntact', AckedRootsStay'
  PROVE  LineageInv'
<1> DEFINE u == [t EXCEPT !.raised = TRUE, !.recovery = recovery, !.todo = RestoreOrder(t)]
<1>1. Enter(p, "restoring", u)
  BY DEF Fail
<1>2. /\ Shape(u) /\ u.raised = TRUE /\ u.todo = RestoreOrder(t)
      /\ u.op = t.op /\ u.d = t.d /\ u.asset = t.asset /\ u.run = t.run /\ u.pub = t.pub
      /\ u.orig = t.orig /\ u.rooted = t.rooted /\ u.failed = t.failed
  BY DEF Rollable, Shape
<1> HIDE DEF u
<1>3. OwnHeads(u) = OwnHeads(t)
  BY <1>2 DEF OwnHeads
<1>4. u.todo \in Seq(OwnHeads(u)) /\ Left(u) = {h \in OwnHeads(u) : u.pub[h] # None}
  BY <1>2, <1>3, RestoreOrderIs DEF Left
<1>5. ASSUME u.op = "approve"
      PROVE  ApprovalFits("restoring", u)'
  <2>1. /\ t.asset \in Assets /\ t.run \in Runs /\ t.pub = [h \in HeadsOf(t.d) |-> t.pub[h]]
        /\ PointerFits(t.d, t.orig[CurrentHead(t.d)])
        /\ t.rooted = FALSE => \A h \in HeadsOf(t.d) : Withdrawn(t, h)'
        /\ t.rooted = TRUE => OwnRoot(t)'
    BY <1>2, <1>5 DEF Rollable
  <2>2. \A h \in HeadsOf(t.d) : Withdrawn(t, h)' => Withdrawn(u, h)'
    BY <1>2 DEF Withdrawn
  <2>3. OwnRoot(t)' => OwnRoot(u)'
    BY <1>2 DEF OwnRoot
  <2>4. \A h \in HeadsOf(u.d) \ Left(u) : Withdrawn(u, h)'
    BY <1>4, <1>5 DEF Withdrawn, OwnHeads
  <2> QED
    BY <1>2, <1>4, <2>1, <2>2, <2>3, <2>4 DEF ApprovalFits
<1>6. TxnFits("restoring", u)'
  BY <1>2, <1>4, <1>5 DEF TxnFits, Rollable
<1> QED
  BY <1>1, <1>6, Alone, GoingOn

\* A transaction at work may fail wherever nothing it relies on was written.
LEMMA MayRollBack ==
  ASSUME NEW l \in Working, NEW t, TxnFits(l, t)
  PROVE  Rollable(t)
BY DEF TxnFits, ApprovalFits, Rollable

LEMMA RollableStays ==
  ASSUME NEW t, Rollable(t), OwnRoot(t) => OwnRoot(t)',
         t.op = "approve" /\ t.rooted = FALSE => \A h \in HeadsOf(t.d) : Withdrawn(t, h) => Withdrawn(t, h)'
  PROVE  Rollable(t)'
BY DEF Rollable

LEMMA QuietStep ==
  ASSUME LineageInv, LockInv', NEW p \in Procs, \A q \in Procs \ {p} : pc[q] = "idle",
         NEW l, NEW u, Enter(p, l, u), UNCHANGED <<file, dirs, assets, acked>>, TxnFits(l, u)
  PROVE  LineageInv'
<1>1. /\ Stored' /\ LineageIntact' /\ AckedRootsStay'
      /\ OwnRoot(u) => OwnRoot(u)'
      /\ \A h : Withdrawn(u, h) => Withdrawn(u, h)'
      /\ RootOf(u.d, Supersedes(u)) => RootOf(u.d, Supersedes(u))'
  BY NothingWritten DEF RootOf, Supersedes
<1>2. TxnFits(l, u)'
  <2>1. ASSUME u.op = "approve"
        PROVE  ApprovalFits(l, u)'
    <3>1. ApprovalFits(l, u)
      BY <2>1 DEF TxnFits
    <3> QED
      BY <1>1, <3>1 DEF ApprovalFits
  <2> QED
    BY <2>1 DEF TxnFits
<1> QED
  BY <1>1, <1>2, GoingOn

LEMMA QuietFailure ==
  ASSUME LineageInv, LockInv', NEW p \in Procs, pc[p] # "idle", NEW t, NEW recovery,
         Fail(p, t, recovery), UNCHANGED <<file, dirs, assets, acked>>, Rollable(t)
  PROVE  LineageInv'
<1>1. /\ Stored' /\ LineageIntact' /\ AckedRootsStay'
      /\ OwnRoot(t) => OwnRoot(t)'
      /\ \A h : Withdrawn(t, h) => Withdrawn(t, h)'
  BY NothingWritten
<1>2. Rollable(t)'
  BY <1>1, RollableStays
<1> QED
  BY <1>1, <1>2, FailingRollsBack

-----------------------------------------------------------------------------
(* The steps of a transaction keep the lineage.                            *)

LEMMA BeginKeepsLineage ==
  ASSUME LineageInv, LockInv', NEW p \in Procs, Begin(p)
  PROVE  LineageInv'
<1>1. /\ \A q \in Procs : pc[q] = "idle"
      /\ UNCHANGED <<file, dirs, assets, acked>>
  BY DEF Begin, ApproveBegin, RegisterBegin, LockFree, LineageInv, LockInv, ActiveLocksCatalog
<1>2. CASE ApproveBegin(p)
  <2>1. PICK d \in dirs, a \in Assets, r \in Runs :
          Enter(p, "locking", Transaction("approve", d, None, a, r))
    BY <1>2 DEF ApproveBegin
  <2> DEFINE u == Transaction("approve", d, None, a, r)
  <2>2. /\ Shape(u) /\ u.op = "approve" /\ u.d = d /\ u.asset = a /\ u.run = r /\ u.orig = None
        /\ u.pub = [h \in HeadsOf(d) |-> None] /\ u.todo = <<>> /\ u.rooted = FALSE
        /\ u.failed = FALSE /\ u.raised = FALSE
    BY TransactionShape DEF Transaction
  <2> HIDE DEF u
  <2>3. d \in Docsets
    BY DEF LineageInv, Stored
  <2>4. u.todo \in Seq(OwnHeads(u))
    BY <2>2
  <2>5. ApprovalFits("locking", u)
    BY <2>2 DEF ApprovalFits, Withdrawn, Working
  <2>6. TxnFits("locking", u)
    BY <2>2, <2>3, <2>4, <2>5 DEF TxnFits
  <2> QED
    BY <1>1, <2>1, <2>6, QuietStep DEF u
<1>3. CASE RegisterBegin(p)
  <2>1. PICK d \in Docsets, title \in Titles :
          Enter(p, "checking", Transaction("register", d, title, None, None))
    BY <1>3 DEF RegisterBegin
  <2> DEFINE u == Transaction("register", d, title, None, None)
  <2>2. /\ Shape(u) /\ u.op = "register" /\ u.d = d /\ u.todo = <<>>
        /\ u.rooted = FALSE /\ u.failed = FALSE /\ u.raised = FALSE
    BY TransactionShape DEF Transaction
  <2> HIDE DEF u
  <2>3. u.todo \in Seq(OwnHeads(u))
    BY <2>2
  <2>4. TxnFits("checking", u)
    BY <2>2, <2>3 DEF TxnFits
  <2> QED
    BY <1>1, <2>1, <2>4, QuietStep DEF u
<1> QED
  BY <1>2, <1>3 DEF Begin

LEMMA LockingKeepsLineage ==
  ASSUME LineageInv, LockInv', NEW p \in Procs, LockDocset(p) \/ GiveUpLocking(p)
  PROVE  LineageInv'
<1>1. pc[p] = "locking" /\ UNCHANGED <<file, dirs, assets, acked>>
  BY DEF LockDocset, GiveUpLocking
<1>2. TxnFits("locking", txn[p]) /\ \A q \in Procs \ {p} : pc[q] = "idle"
  BY <1>1, Alone
<1>3. CASE LockDocset(p)
  <2>1. Enter(p, "checking", txn[p])
    BY <1>3, StayingEnters DEF LockDocset, LineageInv
  <2>2. TxnFits("checking", txn[p])
    BY <1>2 DEF TxnFits, ApprovalFits, Working
  <2> QED
    BY <1>1, <1>2, <2>1, <2>2, QuietStep
<1>4. CASE GiveUpLocking(p)
  <2>1. Stored' /\ LineageIntact' /\ AckedRootsStay'
    BY <1>1, NothingWritten
  <2> QED
    BY <1>1, <1>4, <2>1, GoingOut DEF GiveUpLocking
<1> QED
  BY <1>3, <1>4

LEMMA CheckApprovalKeepsLineage ==
  ASSUME LineageInv, LockInv', NEW p \in Procs, CheckApproval(p)
  PROVE  LineageInv'
<1>1. PICK t : t = txn[p]
  OBVIOUS
<1> DEFINE u == [t EXCEPT !.orig = Capture(t), !.title = file[DocsetHead(t.d)].content.title]
<1>2. /\ pc[p] = "checking" /\ t.op = "approve" /\ Coherent(t.d) /\ Enter(p, "staging", u)
      /\ UNCHANGED <<file, dirs, assets, acked>>
  BY <1>1 DEF CheckApproval, heads
<1>3. TxnFits("checking", t) /\ \A q \in Procs \ {p} : pc[q] = "idle"
  BY <1>1, <1>2, Alone
<1>4. Shape(t) /\ t.d \in Docsets /\ ApprovalFits("checking", t)
  BY <1>2, <1>3 DEF TxnFits
<1>5. /\ Shape(u) /\ u.op = t.op /\ u.d = t.d /\ u.asset = t.asset /\ u.run = t.run /\ u.pub = t.pub
      /\ u.orig = Capture(t) /\ u.todo = t.todo /\ u.rooted = t.rooted /\ u.failed = t.failed
      /\ u.raised = t.raised
  BY <1>4 DEF Shape
<1> HIDE DEF u
<1>6. /\ u.orig[CurrentHead(t.d)] = file[CurrentHead(t.d)]
      /\ Supersedes(u) = file[DocsetHead(t.d)].content.asset
  BY <1>4, <1>5, HeadNames DEF Capture, Supersedes
<1>7. PointerFits(t.d, file[CurrentHead(t.d)])
  BY <1>4 DEF LineageInv, Stored
<1>8. RootOf(t.d, Supersedes(u))
  <2>1. CASE PointerOf(t.d) = None
    BY <1>2, <1>6, <2>1 DEF Coherent, Bound, RootOf
  <2>2. CASE PointerOf(t.d) # None
    <3>1. /\ file[CurrentHead(t.d)] # None /\ PointerOf(t.d) = file[CurrentHead(t.d)].content
      BY <2>2 DEF PointerOf
    <3>2. /\ Supersedes(u) = PointerOf(t.d).asset
          /\ assets[PointerOf(t.d).asset] = PointerOf(t.d).digest
      BY <1>2, <1>6, <2>2 DEF Coherent, Bound, Verified
    <3> QED
      BY <1>7, <3>1, <3>2 DEF PointerFits, RootOf
  <2> QED
    BY <2>1, <2>2
<1>9. ApprovalFits("staging", u)
  BY <1>4, <1>5, <1>6, <1>7, <1>8 DEF ApprovalFits, Withdrawn
<1>10. TxnFits("staging", u)
  BY <1>3, <1>5, <1>9 DEF TxnFits, OwnHeads
<1> QED
  BY <1>2, <1>3, <1>10, QuietStep

LEMMA CheckRegistrationKeepsLineage ==
  ASSUME LineageInv, LockInv', NEW p \in Procs, CheckRegistration(p)
  PROVE  LineageInv'
<1>1. PICK t : t = txn[p]
  OBVIOUS
<1> DEFINE known == file[DocsetHead(t.d)]
           asset == IF known = None THEN None ELSE known.content.asset
           c == [t EXCEPT !.orig = Capture(t), !.asset = asset]
           w == [c EXCEPT !.todo = <<DocsetHead(t.d), CatalogHead>>]
<1>2. /\ pc[p] = "checking" /\ t.op = "register"
      /\ Enter(p, "writing", w) \/ Enter(p, "staging", c)
      /\ UNCHANGED <<file, dirs, assets, acked>>
  BY <1>1 DEF CheckRegistration, heads
<1>3. TxnFits("checking", t) /\ \A q \in Procs \ {p} : pc[q] = "idle"
  BY <1>1, <1>2, Alone
<1>4. Shape(t)
  BY <1>3 DEF TxnFits
<1>5. /\ Shape(c) /\ c.op = t.op /\ c.d = t.d /\ c.todo = t.todo
      /\ c.rooted = t.rooted /\ c.failed = t.failed /\ c.raised = t.raised
      /\ Shape(w) /\ w.op = t.op /\ w.d = t.d /\ w.todo = <<DocsetHead(t.d), CatalogHead>>
      /\ w.rooted = t.rooted /\ w.failed = t.failed /\ w.raised = t.raised
  BY <1>4 DEF Shape
<1> HIDE DEF c, w
<1>6. w.todo \in Seq(OwnHeads(w)) /\ w.todo # <<>>
  BY <1>2, <1>5 DEF OwnHeads
<1>7. TxnFits("staging", c) /\ TxnFits("writing", w)
  BY <1>2, <1>3, <1>5, <1>6 DEF TxnFits, OwnHeads
<1> QED
  BY <1>2, <1>3, <1>7, QuietStep

LEMMA RefuseKeepsLineage ==
  ASSUME LineageInv, LockInv', NEW p \in Procs, Refuse(p)
  PROVE  LineageInv'
<1>1. PICK t : t = txn[p]
  OBVIOUS
<1> DEFINE u == [t EXCEPT !.raised = TRUE]
<1>2. pc[p] = "checking" /\ Enter(p, "unlocking", u) /\ UNCHANGED <<file, dirs, assets, acked>>
  BY <1>1 DEF Refuse, heads
<1>3. TxnFits("checking", t) /\ \A q \in Procs \ {p} : pc[q] = "idle"
  BY <1>1, <1>2, Alone
<1>4. /\ Shape(u) /\ u.op = t.op /\ u.d = t.d /\ u.asset = t.asset /\ u.run = t.run /\ u.pub = t.pub
      /\ u.orig = t.orig /\ u.todo = t.todo /\ u.rooted = t.rooted /\ u.failed = t.failed
      /\ u.raised = TRUE
  BY <1>3 DEF TxnFits, Shape
<1> HIDE DEF u
<1>5. ASSUME u.op = "approve"
      PROVE  ApprovalFits("unlocking", u)
  <2>1. ApprovalFits("checking", t)
    BY <1>3, <1>4, <1>5 DEF TxnFits
  <2> QED
    BY <1>4, <2>1 DEF ApprovalFits, Withdrawn, Working
<1>6. TxnFits("unlocking", u)
  BY <1>3, <1>4, <1>5 DEF TxnFits, OwnHeads
<1> QED
  BY <1>2, <1>3, <1>6, QuietStep

\* Publishing a root: its predecessor is a root of the docset, and nothing
\* can have named it before.
LEMMA RootPublished ==
  ASSUME LineageInv, NEW t, t.d \in Docsets, t.asset \in Assets, t.run \in Runs,
         RootOf(t.d, Supersedes(t)), assets[t.asset] = None,
         assets' = [assets EXCEPT ![t.asset] = NewManifest(t)],
         UNCHANGED <<file, dirs, acked>>
  PROVE  Stored' /\ LineageIntact' /\ AckedRootsStay' /\ OwnRoot(t)'
<1>1. PICK m : m = NewManifest(t)
  OBVIOUS
<1>2. PICK s : s = Supersedes(t)
  OBVIOUS
<1>3. s # None => s \in Assets /\ assets[s] # None /\ assets[s].docset = t.d
  BY <1>2 DEF RootOf
<1>4. m # None /\ m.docset = t.d /\ m.supersedes = s
  <2>1. m = [docset |-> t.d, run |-> t.run, supersedes |-> s]
    BY <1>1, <1>2 DEF NewManifest
  <2>2. m \in Manifest
    BY <1>3, <2>1 DEF Manifest
  <2> QED
    BY <2>1, <2>2, AbsenceAssumption
<1>5. assets'[t.asset] = m /\ \A b \in Assets \ {t.asset} : assets'[b] = assets[b]
  BY <1>1 DEF LineageInv, Stored
<1>6. \A b \in Assets : assets[b] # None => assets[b].supersedes # t.asset
  <2>1. t.asset # None
    BY NoneAssumption
  <2> QED
    BY <2>1 DEF LineageInv, LineageIntact
<1>7. Stored'
  BY DEF LineageInv, Stored
<1>8. LineageIntact'
  <2>1. ASSUME NEW b \in Assets, assets'[b] # None, assets'[b].supersedes # None
        PROVE  /\ assets'[assets'[b].supersedes] # None
               /\ assets'[assets'[b].supersedes].docset = assets'[b].docset
    <3>1. CASE b = t.asset
      BY <1>3, <1>4, <1>5, <2>1, <3>1
    <3>2. CASE b # t.asset
      <4>1. assets[b] # None /\ assets[b].supersedes # None /\ assets'[b] = assets[b]
        BY <1>5, <2>1, <3>2
      <4>2. /\ assets[assets[b].supersedes] # None
            /\ assets[assets[b].supersedes].docset = assets[b].docset
        BY <4>1 DEF LineageInv, LineageIntact
      <4>3. assets[b].supersedes # t.asset
        BY <1>6, <4>1
      <4>4. assets'[assets[b].supersedes] = assets[assets[b].supersedes]
        BY <4>3 DEF LineageInv, Stored
      <4> QED
        BY <4>1, <4>2, <4>4
    <3> QED
      BY <3>1, <3>2
  <2> QED
    BY <2>1 DEF LineageIntact
<1>9. AckedRootsStay'
  BY <1>5 DEF LineageInv, AckedRootsStay
<1>10. OwnRoot(t)'
  <2>1. \A b \in Assets : assets'[b] # None => assets'[b].supersedes # t.asset
    BY <1>3, <1>4, <1>5, <1>6, NoneAssumption
  <2>2. \A d \in Docsets : t.asset \notin acked[d]
    BY DEF LineageInv, AckedRootsStay
  <2> QED
    BY <1>4, <1>5, <2>1, <2>2 DEF OwnRoot
<1> QED
  BY <1>7, <1>8, <1>9, <1>10

LEMMA PublishRootKeepsLineage ==
  ASSUME LineageInv, LockInv', NEW p \in Procs, PublishRoot(p)
  PROVE  LineageInv'
<1>1. PICK t : t = txn[p]
  OBVIOUS
<1> DEFINE u == [t EXCEPT !.rooted = TRUE, !.todo = WriteOrder(t)]
<1>2. /\ pc[p] = "staging"
      /\ Enter(p, "writing", u) \/ Fail(p, u, FALSE)
      /\ IF u.op = "approve"
         THEN /\ assets[u.asset] = None /\ assets' = [assets EXCEPT ![u.asset] = NewManifest(u)]
              /\ UNCHANGED <<file, dirs>>
         ELSE /\ dirs' = dirs \cup {u.d} /\ UNCHANGED assets
              /\ \E f : file' = [file EXCEPT ![DocsetHead(u.d)] = f]
  BY <1>1 DEF PublishRoot
<1>3. UNCHANGED acked
  BY DEF PublishRoot
<1>4. TxnFits("staging", t) /\ \A q \in Procs \ {p} : pc[q] = "idle"
  BY <1>1, <1>2, Alone
<1>5. /\ Shape(u) /\ u.op = t.op /\ u.d = t.d /\ u.asset = t.asset /\ u.run = t.run /\ u.pub = t.pub
      /\ u.orig = t.orig /\ u.todo = WriteOrder(t) /\ u.rooted = TRUE /\ u.failed = t.failed
      /\ u.raised = t.raised
  BY <1>4 DEF TxnFits, Shape
<1> HIDE DEF u
<1>6. u.d \in Docsets /\ u.todo \in Seq(OwnHeads(u)) /\ u.todo # <<>>
  <2>1. CASE t.op = "approve"
    BY <1>4, <1>5, <2>1 DEF TxnFits, WriteOrder, OwnHeads, HeadsOf
  <2>2. CASE t.op # "approve"
    BY <1>4, <1>5, <2>2 DEF TxnFits, WriteOrder, OwnHeads
  <2> QED
    BY <2>1, <2>2
<1>7. Stored' /\ LineageIntact' /\ AckedRootsStay' /\ (u.op = "approve" => OwnRoot(u)')
  <2>1. CASE u.op = "approve"
    <3>1. /\ u.asset \in Assets /\ u.run \in Runs /\ RootOf(u.d, Supersedes(u))
      BY <1>4, <1>5, <2>1 DEF TxnFits, ApprovalFits, Supersedes
    <3> QED
      BY <1>2, <1>3, <1>6, <2>1, <3>1, RootPublished
  <2>2. CASE u.op # "approve"
    <3>1. PICK f : file' = [file EXCEPT ![DocsetHead(u.d)] = f]
      BY <1>2, <2>2
    <3>2. /\ DocsetHead(u.d) \in Heads /\ \A e \in Docsets : DocsetHead(u.d) # CurrentHead(e)
          /\ dirs' \subseteq dirs \cup Docsets
      BY <1>2, <1>6, <2>2 DEF Heads, DocsetHead, CurrentHead
    <3> QED
      BY <1>2, <1>3, <2>2, <3>1, <3>2, OneHeadWritten
  <2> QED
    BY <2>1, <2>2
<1>8. u.op = "approve" =>
        /\ u.asset \in Assets /\ u.run \in Runs /\ u.pub = [h \in HeadsOf(u.d) |-> u.pub[h]]
        /\ PointerFits(u.d, u.orig[CurrentHead(u.d)])
  BY <1>4, <1>5 DEF TxnFits, ApprovalFits, Working
<1>9. Rollable(u)'
  BY <1>4, <1>5, <1>6, <1>7, <1>8 DEF TxnFits, Rollable
<1>10. TxnFits("writing", u)'
  <2>1. u.op = "approve" => ApprovalFits("writing", u)'
    BY <1>5, <1>7, <1>8 DEF ApprovalFits, Working
  <2> QED
    BY <1>4, <1>5, <1>6, <2>1 DEF TxnFits
<1>11. CASE Enter(p, "writing", u)
  BY <1>4, <1>7, <1>10, <1>11, GoingOn
<1>12. CASE Fail(p, u, FALSE)
  BY <1>2, <1>7, <1>9, <1>12, FailingRollsBack
<1> QED
  BY <1>2, <1>11, <1>12

LEMMA StageFailsKeepsLineage ==
  ASSUME LineageInv, LockInv', NEW p \in Procs, StageFails(p)
  PROVE  LineageInv'
<1>1. PICK t : t = txn[p]
  OBVIOUS
<1>2. pc[p] = "staging" /\ UNCHANGED <<file, dirs, assets, acked>>
  BY DEF StageFails, heads
<1>3. PICK recovery \in BOOLEAN : Fail(p, t, recovery)
  BY <1>1 DEF StageFails
<1>4. Rollable(t)
  BY <1>1, <1>2, Alone, MayRollBack DEF Working
<1> QED
  BY <1>2, <1>3, <1>4, QuietFailure

LEMMA OwnHeadsAreHeads ==
  ASSUME NEW t, t.d \in Docsets
  PROVE  OwnHeads(t) \subseteq Heads /\ OwnHeads(t) \subseteq HeadsOf(t.d)
BY HeadNames DEF OwnHeads

\* Whatever a transaction puts under the pointer's name fits the docset.
LEMMA PointersFit ==
  ASSUME NEW l \in {"writing", "linking", "retiring", "relinking"}, NEW t, TxnFits(l, t),
         NEW h \in OwnHeads(t), NEW d \in Docsets, h = CurrentHead(d)
  PROVE  /\ PointerFits(d, None) /\ PointerFits(d, t.orig[h])
         /\ \A n : PointerFits(d, [content |-> Content(t, h), inode |-> n])
<1>1. t.op = "approve" /\ d = t.d
  BY HeadNames, OwnHeadsAreHeads DEF TxnFits, OwnHeads
<1>2. t.asset \in Assets /\ OwnRoot(t) /\ PointerFits(t.d, t.orig[CurrentHead(t.d)])
  BY <1>1 DEF TxnFits, ApprovalFits, Working
<1>3. Content(t, h) = [asset |-> t.asset, digest |-> assets[t.asset]]
  BY <1>1, HeadNames DEF Content
<1> QED
  BY <1>1, <1>2, <1>3 DEF PointerFits, OwnRoot

\* A transaction that is writing, after a head was written: it may go on with
\* the same record, or fail.
LEMMA WritingGoesOn ==
  ASSUME NEW l \in {"writing", "linking", "retiring"}, NEW t, TxnFits(l, t),
         OwnRoot(t) => OwnRoot(t)'
  PROVE  /\ \A k \in {"writing", "linking", "retiring"} : TxnFits(k, t)'
         /\ Rollable(t)'
<1>1. ASSUME t.op = "approve"
      PROVE  /\ \A k \in {"writing", "linking", "retiring"} : ApprovalFits(k, t)'
             /\ t.rooted = TRUE
  BY <1>1 DEF TxnFits, ApprovalFits, Working
<1>2. Rollable(t)
  BY MayRollBack DEF Working
<1>3. Rollable(t)'
  BY <1>1, <1>2, RollableStays
<1> QED
  BY <1>1, <1>3 DEF TxnFits

LEMMA MoveHeadKeepsLineage ==
  ASSUME LineageInv, LockInv', NEW p \in Procs, MoveHead(p)
  PROVE  LineageInv'
<1>1. PICK t : t = txn[p]
  OBVIOUS
<1>2. PICK h : h = Head(t.todo)
  OBVIOUS
<1>3. /\ pc[p] = "writing" /\ file' = [file EXCEPT ![h] = None]
      /\ Goto(p, "linking") /\ UNCHANGED txn /\ UNCHANGED dirs /\ UNCHANGED <<assets, acked>>
  BY <1>1, <1>2 DEF MoveHead
<1>4. TxnFits("writing", t) /\ \A q \in Procs \ {p} : pc[q] = "idle"
  BY <1>1, <1>3, Alone
<1>5. t.d \in Docsets /\ h \in OwnHeads(t)
  BY <1>2, <1>4, ElemsOfTail DEF TxnFits
<1>6. Enter(p, "linking", t)
  BY <1>1, <1>3, StayingEnters DEF LineageInv
<1>7. /\ Stored' /\ LineageIntact' /\ AckedRootsStay'
      /\ OwnRoot(t) => OwnRoot(t)'
  <2>1. h \in Heads /\ \A d \in Docsets : h = CurrentHead(d) => PointerFits(d, None)
    BY <1>4, <1>5, PointersFit, OwnHeadsAreHeads
  <2>2. dirs' \subseteq dirs \cup Docsets /\ UNCHANGED <<assets, acked>>
    BY <1>3
  <2> QED
    BY <1>3, <2>1, <2>2, OneHeadWritten
<1>8. TxnFits("linking", t)'
  BY <1>4, <1>7, WritingGoesOn
<1> QED
  BY <1>4, <1>6, <1>7, <1>8, GoingOn

LEMMA WriteRefusedKeepsLineage ==
  ASSUME LineageInv, LockInv', NEW p \in Procs, WriteRefused(p) \/ RetireFails(p)
  PROVE  LineageInv'
<1>1. PICK t : t = txn[p]
  OBVIOUS
<1>2. pc[p] \in {"writing", "retiring"} /\ UNCHANGED <<file, dirs, assets, acked>>
  BY DEF WriteRefused, RetireFails, heads
<1>3. PICK recovery : Fail(p, t, recovery)
  BY <1>1 DEF WriteRefused, RetireFails
<1>4. Rollable(t)
  BY <1>1, <1>2, Alone, MayRollBack DEF Working
<1> QED
  BY <1>2, <1>3, <1>4, QuietFailure

LEMMA LinkHeadKeepsLineage ==
  ASSUME LineageInv, LockInv', NEW p \in Procs, LinkHead(p)
  PROVE  LineageInv'
<1>1. PICK t : t = txn[p]
  OBVIOUS
<1>2. PICK h : h = Head(t.todo)
  OBVIOUS
<1>3. PICK n : n = Fresh(h)
  OBVIOUS
<1>4. PICK f : f = [content |-> Content(t, h), inode |-> n]
  OBVIOUS
<1> DEFINE u == [t EXCEPT !.pub[h] = n]
<1>5. /\ pc[p] = "linking" /\ file' = [file EXCEPT ![h] = f] /\ Enter(p, "retiring", u)
      /\ UNCHANGED dirs /\ UNCHANGED <<assets, acked>>
  BY <1>1, <1>2, <1>3, <1>4 DEF LinkHead, NewFile
<1>6. TxnFits("linking", t) /\ \A q \in Procs \ {p} : pc[q] = "idle"
  BY <1>1, <1>5, Alone
<1>7. t.d \in Docsets /\ h \in OwnHeads(t)
  BY <1>2, <1>6, ElemsOfTail DEF TxnFits
<1>8. /\ Shape(u) /\ u.op = t.op /\ u.d = t.d /\ u.asset = t.asset /\ u.run = t.run
      /\ u.pub = [t.pub EXCEPT ![h] = n] /\ u.orig = t.orig /\ u.todo = t.todo
      /\ u.rooted = t.rooted /\ u.failed = t.failed /\ u.raised = t.raised
  BY <1>6 DEF TxnFits, Shape
<1> HIDE DEF u
<1>9. /\ Stored' /\ LineageIntact' /\ AckedRootsStay'
      /\ OwnRoot(u) => OwnRoot(u)'
  <2>1. h \in Heads /\ \A d \in Docsets : h = CurrentHead(d) => PointerFits(d, f)
    BY <1>4, <1>6, <1>7, PointersFit, OwnHeadsAreHeads
  <2>2. dirs' \subseteq dirs \cup Docsets /\ UNCHANGED <<assets, acked>>
    BY <1>5
  <2> QED
    BY <1>5, <2>1, <2>2, OneHeadWritten
<1>10. TxnFits("linking", u)
  <2>1. ASSUME u.op = "approve"
        PROVE  ApprovalFits("linking", u)
    <3>1. ApprovalFits("linking", t)
      BY <1>6, <1>8, <2>1 DEF TxnFits
    <3>2. OwnRoot(u) /\ u.pub = [g \in HeadsOf(u.d) |-> u.pub[g]]
      BY <1>8, <3>1 DEF ApprovalFits, OwnRoot
    <3> QED
      BY <1>8, <3>1, <3>2 DEF ApprovalFits, Working
  <2> QED
    BY <1>6, <1>8, <2>1 DEF TxnFits, OwnHeads
<1>11. TxnFits("retiring", u)'
  BY <1>9, <1>10, WritingGoesOn
<1> QED
  BY <1>5, <1>6, <1>9, <1>11, GoingOn

\* What may be under a head's name when linking it failed.
LEMMA LinkFailsKeepsLineage ==
  ASSUME LineageInv, LockInv', NEW p \in Procs, LinkFails(p) \/ VerifyFails(p)
  PROVE  LineageInv'
<1>1. PICK t : t = txn[p]
  OBVIOUS
<1>2. PICK h : h = Head(t.todo)
  OBVIOUS
<1>3. pc[p] = "linking" /\ UNCHANGED dirs /\ UNCHANGED <<assets, acked>>
  BY DEF LinkFails, VerifyFails
<1>4. PICK recovery : Fail(p, t, recovery)
  BY <1>1 DEF LinkFails, VerifyFails
<1>5. TxnFits("linking", t)
  BY <1>1, <1>3, Alone
<1>6. t.d \in Docsets /\ h \in OwnHeads(t)
  BY <1>2, <1>5, ElemsOfTail DEF TxnFits
<1>7. \/ UNCHANGED file
      \/ file' = [file EXCEPT ![h] = t.orig[h]]
      \/ \E n : file' = [file EXCEPT ![h] = [content |-> Content(t, h), inode |-> n]]
  BY <1>1, <1>2 DEF LinkFails, VerifyFails, NewFile
<1>8. CASE UNCHANGED file
  BY <1>3, <1>4, <1>5, <1>8, MayRollBack, QuietFailure DEF Working
<1>9. CASE \E f : /\ file' = [file EXCEPT ![h] = f]
                  /\ \A d \in Docsets : h = CurrentHead(d) => PointerFits(d, f)
  <2>1. /\ Stored' /\ LineageIntact' /\ AckedRootsStay'
        /\ OwnRoot(t) => OwnRoot(t)'
    BY <1>3, <1>6, <1>9, OwnHeadsAreHeads, OneHeadWritten
  <2>2. Rollable(t)'
    BY <1>5, <2>1, WritingGoesOn
  <2> QED
    BY <1>3, <1>4, <2>1, <2>2, FailingRollsBack
<1>10. CASE file' = [file EXCEPT ![h] = t.orig[h]]
  BY <1>5, <1>6, <1>9, <1>10, PointersFit
<1>11. CASE \E n : file' = [file EXCEPT ![h] = [content |-> Content(t, h), inode |-> n]]
  <2>1. PICK n : file' = [file EXCEPT ![h] = [content |-> Content(t, h), inode |-> n]]
    BY <1>11
  <2>2. PICK f : f = [content |-> Content(t, h), inode |-> n]
    OBVIOUS
  <2>3. \A d \in Docsets : h = CurrentHead(d) => PointerFits(d, f)
    BY <1>5, <1>6, <2>2, PointersFit
  <2> QED
    BY <1>9, <2>1, <2>2, <2>3
<1> QED
  BY <1>7, <1>8, <1>10, <1>11

LEMMA AdvancedFields ==
  ASSUME NEW S, NEW t, Shape(t), t.todo \in Seq(S), t.todo # <<>>
  PROVE  LET u == Advanced(t) IN
         /\ Shape(u) /\ u.op = t.op /\ u.d = t.d /\ u.asset = t.asset /\ u.run = t.run
         /\ u.pub = t.pub /\ u.orig = t.orig /\ u.todo = Tail(t.todo) /\ u.todo \in Seq(S)
         /\ u.rooted = t.rooted /\ u.failed = t.failed /\ u.raised = t.raised
         /\ Left(u) \subseteq Left(t) /\ Left(t) \subseteq Left(u) \cup {Head(t.todo)}
<1>1. LET u == Advanced(t) IN
      /\ Shape(u) /\ u.op = t.op /\ u.d = t.d /\ u.asset = t.asset /\ u.run = t.run
      /\ u.pub = t.pub /\ u.orig = t.orig /\ u.todo = Tail(t.todo)
      /\ u.rooted = t.rooted /\ u.failed = t.failed /\ u.raised = t.raised
  BY DEF Advanced, Shape
<1> QED
  BY <1>1, ElemsOfTail DEF Left

LEMMA RetireHeadKeepsLineage ==
  ASSUME LineageInv, LockInv', NEW p \in Procs, RetireHead(p)
  PROVE  LineageInv'
<1>1. PICK t : t = txn[p]
  OBVIOUS
<1>2. PICK u : u = Advanced(t)
  OBVIOUS
<1>3. /\ pc[p] = "retiring" /\ UNCHANGED <<file, dirs, assets, acked>>
      /\ Enter(p, IF u.todo = <<>> THEN "unlocking" ELSE "writing", u)
  BY <1>1, <1>2 DEF RetireHead, heads
<1>4. TxnFits("retiring", t) /\ \A q \in Procs \ {p} : pc[q] = "idle"
  BY <1>1, <1>3, Alone
<1>5. /\ Shape(u) /\ u.op = t.op /\ u.d = t.d /\ u.asset = t.asset /\ u.run = t.run
      /\ u.pub = t.pub /\ u.orig = t.orig /\ u.todo \in Seq(OwnHeads(t))
      /\ u.rooted = t.rooted /\ u.failed = t.failed /\ u.raised = t.raised
  BY <1>2, <1>4, AdvancedFields DEF TxnFits
<1>6. ASSUME NEW l \in {"unlocking", "writing"}, l = "writing" => u.todo # <<>>
      PROVE  TxnFits(l, u)
  <2>1. ASSUME u.op = "approve"
        PROVE  ApprovalFits(l, u)
    <3>1. ApprovalFits("retiring", t)
      BY <1>4, <1>5, <2>1 DEF TxnFits
    <3>2. OwnRoot(u)
      BY <1>5, <3>1 DEF ApprovalFits, OwnRoot
    <3> QED
      BY <1>5, <3>1, <3>2 DEF ApprovalFits, Working
  <2> QED
    BY <1>4, <1>5, <1>6, <2>1 DEF TxnFits, OwnHeads
<1> QED
  BY <1>3, <1>4, <1>6, QuietStep

LEMMA SameHeads ==
  ASSUME NEW t, NEW u, u.op = t.op, u.d = t.d
  PROVE  OwnHeads(u) = OwnHeads(t)
BY DEF OwnHeads

\* One head is dealt with: taken back, or the rollback counts as failed.
LEMMA HeadDealtWith ==
  ASSUME NEW l \in {"restoring", "relinking"}, NEW t, TxnFits(l, t), t.todo # <<>>,
         NEW failed \in BOOLEAN, NEW u, u = [Advanced(t) EXCEPT !.failed = failed],
         OwnRoot(t) => OwnRoot(t)',
         \A g \in HeadsOf(t.d) \ {Head(t.todo)} : Withdrawn(t, g) => Withdrawn(t, g)',
         t.op = "approve" /\ t.rooted = FALSE => Withdrawn(t, Head(t.todo))',
         failed = FALSE => t.failed = FALSE /\ Withdrawn(t, Head(t.todo))'
  PROVE  TxnFits("restoring", u)'
<1>1. PICK a : a = Advanced(t)
  OBVIOUS
<1>2. /\ Shape(a) /\ a.op = t.op /\ a.d = t.d /\ a.asset = t.asset /\ a.run = t.run
      /\ a.pub = t.pub /\ a.orig = t.orig /\ a.todo \in Seq(OwnHeads(t))
      /\ a.rooted = t.rooted /\ a.raised = t.raised
      /\ Left(a) \subseteq Left(t) /\ Left(t) \subseteq Left(a) \cup {Head(t.todo)}
  BY <1>1, AdvancedFields DEF TxnFits
<1>3. /\ Shape(u) /\ u.op = t.op /\ u.d = t.d /\ u.asset = t.asset /\ u.run = t.run
      /\ u.pub = t.pub /\ u.orig = t.orig /\ u.todo = a.todo
      /\ u.rooted = t.rooted /\ u.raised = t.raised /\ u.failed = failed
  BY <1>1, <1>2 DEF Shape
<1>4. Left(u) = Left(a) /\ OwnHeads(u) = OwnHeads(t)
  <2>1. Left(u) = Left(a)
    BY <1>3 DEF Left
  <2>2. OwnHeads(u) = OwnHeads(t)
    BY <1>3, SameHeads
  <2> QED
    BY <2>1, <2>2
<1>5. ASSUME u.op = "approve"
      PROVE  ApprovalFits("restoring", u)'
  <2>1. ApprovalFits(l, t)
    BY <1>3, <1>5 DEF TxnFits
  <2>2. \A g : Withdrawn(t, g)' => Withdrawn(u, g)'
    BY <1>3 DEF Withdrawn
  <2>3. t.rooted = TRUE => OwnRoot(u)'
    <3>1. t.rooted = TRUE => OwnRoot(t)'
      BY <2>1 DEF ApprovalFits
    <3> QED
      BY <1>3, <3>1 DEF OwnRoot
  <2>4. t.rooted = FALSE => \A g \in HeadsOf(t.d) : Withdrawn(u, g)'
    BY <1>3, <1>5, <2>1, <2>2 DEF ApprovalFits
  <2>5. failed = FALSE => \A g \in HeadsOf(t.d) \ Left(u) : Withdrawn(u, g)'
    BY <1>2, <1>4, <2>1, <2>2 DEF ApprovalFits
  <2>6. /\ t.asset \in Assets /\ t.run \in Runs /\ t.pub = [h \in HeadsOf(t.d) |-> t.pub[h]]
        /\ PointerFits(t.d, t.orig[CurrentHead(t.d)])
        /\ t.raised = TRUE /\ \A h \in Left(t) : t.pub[h] # None
    BY <2>1 DEF ApprovalFits, Working
  <2>7. \A h \in Left(u) : u.pub[h] # None
    BY <1>2, <1>3, <1>4, <2>6
  <2> QED
    BY <1>3, <2>3, <2>4, <2>5, <2>6, <2>7 DEF ApprovalFits
<1> QED
  BY <1>2, <1>3, <1>4, <1>5 DEF TxnFits

LEMMA RestoreHeadKeepsLineage ==
  ASSUME LineageInv, LockInv', NEW p \in Procs, RestoreHead(p)
  PROVE  LineageInv'
<1>1. PICK t : t = txn[p]
  OBVIOUS
<1>2. PICK h : h = Head(t.todo)
  OBVIOUS
<1>3. /\ pc[p] = "restoring" /\ t.todo # <<>> /\ file[h] # None /\ file[h].inode = t.pub[h]
      /\ file' = [file EXCEPT ![h] = None] /\ UNCHANGED dirs /\ UNCHANGED <<assets, acked>>
  BY <1>1, <1>2 DEF RestoreHead
<1>4. TxnFits("restoring", t) /\ \A q \in Procs \ {p} : pc[q] = "idle"
  BY <1>1, <1>3, Alone
<1>5. t.d \in Docsets /\ h \in OwnHeads(t) /\ h \in Left(t)
  BY <1>2, <1>3, <1>4, ElemsOfTail DEF TxnFits, Left
<1>6. h \in Heads /\ HeadsOf(t.d) \subseteq Heads /\ h \in HeadsOf(t.d)
  BY <1>5, OwnHeadsAreHeads, HeadNames
<1>7. /\ Stored' /\ LineageIntact' /\ AckedRootsStay'
      /\ OwnRoot(t) => OwnRoot(t)'
      /\ file'[h] = None /\ \A g \in Heads \ {h} : file'[g] = file[g]
  <2>1. \A d \in Docsets : h = CurrentHead(d) => PointerFits(d, None)
    BY DEF PointerFits
  <2>2. dirs' \subseteq dirs \cup Docsets /\ UNCHANGED <<assets, acked>>
    BY <1>3
  <2> QED
    BY <1>3, <1>6, <2>1, <2>2, OneHeadWritten
<1>8. /\ Withdrawn(t, h)'
      /\ \A g \in HeadsOf(t.d) \ {h} : Withdrawn(t, g) => Withdrawn(t, g)'
  BY <1>6, <1>7 DEF Withdrawn
<1>9. t.op = "approve" => t.rooted = TRUE
  <2>1. ASSUME t.op = "approve" PROVE ApprovalFits("restoring", t)
    BY <1>4, <2>1 DEF TxnFits
  <2>2. t.op = "approve" => t.pub[h] # None
    BY <1>5, <2>1 DEF ApprovalFits
  <2>3. t.op = "approve" /\ t.rooted = FALSE => Withdrawn(t, h)
    BY <1>6, <2>1 DEF ApprovalFits
  <2> QED
    BY <1>3, <1>4, <2>2, <2>3 DEF TxnFits, Withdrawn
<1>10. CASE t.orig[h] = None
  <2>1. PICK failed \in BOOLEAN :
          Enter(p, "restoring", [Advanced(t) EXCEPT !.failed = @ \/ failed])
    BY <1>1, <1>2, <1>10 DEF RestoreHead
  <2>2. PICK u : u = [Advanced(t) EXCEPT !.failed = @ \/ failed]
    OBVIOUS
  <2>3. t.failed \in BOOLEAN /\ Advanced(t).failed = t.failed
    BY <1>3, <1>4, AdvancedFields DEF TxnFits
  <2>4. u = [Advanced(t) EXCEPT !.failed = t.failed \/ failed]
    BY <2>2, <2>3
  <2>5. TxnFits("restoring", u)'
    BY <1>2, <1>3, <1>4, <1>7, <1>8, <2>3, <2>4, HeadDealtWith
  <2> QED
    BY <1>4, <1>7, <2>1, <2>2, <2>5, GoingOn
<1>11. CASE t.orig[h] # None
  <2>1. Enter(p, "relinking", t)
    BY <1>1, <1>2, <1>11, StayingEnters DEF RestoreHead, LineageInv
  <2>2. ASSUME t.op = "approve" PROVE ApprovalFits("relinking", t)'
    <3>1. ApprovalFits("restoring", t)
      BY <1>4, <2>2 DEF TxnFits
    <3>2. t.failed = FALSE => \A g \in HeadsOf(t.d) \ Left(t) : Withdrawn(t, g)'
      BY <1>5, <1>8, <3>1 DEF ApprovalFits
    <3> QED
      BY <1>2, <1>7, <1>9, <1>11, <2>2, <3>1, <3>2 DEF ApprovalFits, Working
  <2>3. TxnFits("relinking", t)'
    BY <1>3, <1>4, <2>2 DEF TxnFits
  <2> QED
    BY <1>4, <1>7, <2>1, <2>3, GoingOn
<1> QED
  BY <1>10, <1>11

LEMMA RestoreFailsKeepsLineage ==
  ASSUME LineageInv, LockInv', NEW p \in Procs, RestoreFails(p)
  PROVE  LineageInv'
<1>1. PICK t : t = txn[p]
  OBVIOUS
<1>2. PICK h : h = Head(t.todo)
  OBVIOUS
<1>3. PICK failed \in BOOLEAN : failed = TRUE
  OBVIOUS
<1>4. PICK u : u = [Advanced(t) EXCEPT !.failed = failed]
  OBVIOUS
<1>5. /\ pc[p] = "restoring" /\ t.todo # <<>> /\ UNCHANGED <<file, dirs, assets, acked>>
      /\ Enter(p, "restoring", u)
  BY <1>1, <1>3, <1>4 DEF RestoreFails, heads
<1>6. TxnFits("restoring", t) /\ \A q \in Procs \ {p} : pc[q] = "idle"
  BY <1>1, <1>5, Alone
<1>7. h \in HeadsOf(t.d)
  BY <1>2, <1>5, <1>6, ElemsOfTail, OwnHeadsAreHeads DEF TxnFits
<1>8. /\ Stored' /\ LineageIntact' /\ AckedRootsStay'
      /\ OwnRoot(t) => OwnRoot(t)' /\ \A g : Withdrawn(t, g) => Withdrawn(t, g)'
  BY <1>5, NothingWritten
<1>9. t.op = "approve" /\ t.rooted = FALSE => Withdrawn(t, h)
  BY <1>6, <1>7 DEF TxnFits, ApprovalFits
<1>10. /\ t.op = "approve" /\ t.rooted = FALSE => Withdrawn(t, h)'
       /\ \A g \in HeadsOf(t.d) \ {h} : Withdrawn(t, g) => Withdrawn(t, g)'
       /\ OwnRoot(t) => OwnRoot(t)'
  BY <1>5, <1>8, <1>9 DEF Withdrawn
<1>11. TxnFits("restoring", u)'
  BY <1>2, <1>3, <1>4, <1>5, <1>6, <1>10, HeadDealtWith
<1> QED
  BY <1>5, <1>6, <1>8, <1>11, GoingOn

\* The heads a relinking transaction may leave under a name.
LEMMA RelinkHeadKeepsLineage ==
  ASSUME LineageInv, LockInv', NEW p \in Procs, RelinkHead(p)
  PROVE  LineageInv'
<1>1. PICK t : t = txn[p]
  OBVIOUS
<1>2. PICK h : h = Head(t.todo)
  OBVIOUS
<1>3. PICK n : n = Fresh(h)
  OBVIOUS
<1>4. PICK f : f = [content |-> t.orig[h].content, inode |-> n]
  OBVIOUS
<1>5. /\ pc[p] = "relinking" /\ file' = [file EXCEPT ![h] = f]
      /\ UNCHANGED dirs /\ UNCHANGED <<assets, acked>>
  BY <1>1, <1>2, <1>3, <1>4 DEF RelinkHead, NewFile
<1>6. TxnFits("relinking", t) /\ \A q \in Procs \ {p} : pc[q] = "idle"
  BY <1>1, <1>5, Alone
<1>7. t.d \in Docsets /\ h \in OwnHeads(t) /\ t.todo # <<>>
  BY <1>2, <1>6, ElemsOfTail DEF TxnFits
<1>8. h \in Heads /\ HeadsOf(t.d) \subseteq Heads /\ h \in HeadsOf(t.d)
  BY <1>7, OwnHeadsAreHeads, HeadNames
<1>9. n # t.pub[h]
  <2>1. pc[p] # "idle" /\ h \in HeadsOf(txn[p].d)
    BY <1>1, <1>5, <1>8
  <2> QED
    BY <1>1, <1>3, <2>1, FreshIsNew DEF LineageInv
<1>10. t.op = "approve" => t.rooted = TRUE /\ t.orig[h] # None
  BY <1>2, <1>6 DEF TxnFits, ApprovalFits
<1>11. \A d \in Docsets : h = CurrentHead(d) => PointerFits(d, f)
  <2>1. ASSUME NEW d \in Docsets, h = CurrentHead(d) PROVE PointerFits(d, f)
    <3>1. PointerFits(d, t.orig[h])
      BY <1>6, <1>7, <2>1, PointersFit
    <3>2. t.op = "approve"
      BY <1>7, <2>1, HeadNames DEF OwnHeads
    <3>3. t.orig[h] # None
      BY <1>10, <3>2
    <3>4. f.content = t.orig[h].content
      BY <1>4
    <3> QED
      BY <3>1, <3>3, <3>4 DEF PointerFits
  <2> QED
    BY <2>1
<1>12. /\ Stored' /\ LineageIntact' /\ AckedRootsStay'
       /\ OwnRoot(t) => OwnRoot(t)'
       /\ file'[h] = f /\ \A g \in Heads \ {h} : file'[g] = file[g]
  <2>1. dirs' \subseteq dirs \cup Docsets /\ UNCHANGED <<assets, acked>>
    BY <1>5
  <2> QED
    BY <1>5, <1>8, <1>11, <2>1, OneHeadWritten
<1>13. Withdrawn(t, h)'
  BY <1>4, <1>9, <1>12 DEF Withdrawn
<1>14. \A g \in HeadsOf(t.d) \ {h} : Withdrawn(t, g) => Withdrawn(t, g)'
  BY <1>8, <1>12 DEF Withdrawn
<1>15. PICK failed \in BOOLEAN :
         Enter(p, "restoring", [Advanced(t) EXCEPT !.failed = @ \/ failed])
  BY <1>1 DEF RelinkHead
<1>16. PICK u : u = [Advanced(t) EXCEPT !.failed = @ \/ failed]
  OBVIOUS
<1>17. t.failed \in BOOLEAN /\ Advanced(t).failed = t.failed
  BY <1>6, <1>7, AdvancedFields DEF TxnFits
<1>18. u = [Advanced(t) EXCEPT !.failed = t.failed \/ failed]
  BY <1>16, <1>17
<1>19. TxnFits("restoring", u)'
  BY <1>2, <1>6, <1>7, <1>12, <1>13, <1>14, <1>17, <1>18, HeadDealtWith
<1> QED
  BY <1>6, <1>12, <1>15, <1>16, <1>19, GoingOn

LEMMA RelinkFailsKeepsLineage ==
  ASSUME LineageInv, LockInv', NEW p \in Procs, RelinkFails(p)
  PROVE  LineageInv'
<1>1. PICK t : t = txn[p]
  OBVIOUS
<1>2. PICK h : h = Head(t.todo)
  OBVIOUS
<1>3. PICK f : f = [content |-> Content(t, h), inode |-> t.pub[h]]
  OBVIOUS
<1>4. PICK failed \in BOOLEAN : failed = TRUE
  OBVIOUS
<1>5. PICK u : u = [Advanced(t) EXCEPT !.failed = failed]
  OBVIOUS
<1>6. UNCHANGED file \/ file' = [file EXCEPT ![h] = f]
  BY <1>1, <1>2, <1>3 DEF RelinkFails
<1>7. pc[p] = "relinking" /\ UNCHANGED dirs /\ UNCHANGED <<assets, acked>> /\ Enter(p, "restoring", u)
  BY <1>1, <1>4, <1>5 DEF RelinkFails
<1>8. TxnFits("relinking", t) /\ \A q \in Procs \ {p} : pc[q] = "idle"
  BY <1>1, <1>7, Alone
<1>9. t.d \in Docsets /\ h \in OwnHeads(t) /\ t.todo # <<>>
  BY <1>2, <1>8, ElemsOfTail DEF TxnFits
<1>10. h \in Heads /\ HeadsOf(t.d) \subseteq Heads
  BY <1>9, OwnHeadsAreHeads, HeadNames
<1>11. /\ Stored' /\ LineageIntact' /\ AckedRootsStay'
       /\ OwnRoot(t) => OwnRoot(t)'
       /\ \A g \in Heads \ {h} : file'[g] = file[g]
  <2>1. CASE UNCHANGED file
    <3>1. UNCHANGED <<file, dirs, assets, acked>>
      BY <1>7, <2>1
    <3> QED
      BY <2>1, <3>1, NothingWritten
  <2>2. CASE file' = [file EXCEPT ![h] = f]
    <3>1. \A d \in Docsets : h = CurrentHead(d) => PointerFits(d, f)
      BY <1>3, <1>8, <1>9, PointersFit
    <3>2. dirs' \subseteq dirs \cup Docsets /\ UNCHANGED <<assets, acked>>
      BY <1>7
    <3> QED
      BY <1>10, <2>2, <3>1, <3>2, OneHeadWritten
  <2> QED
    BY <1>6, <2>1, <2>2
<1>12. \A g \in HeadsOf(t.d) \ {h} : Withdrawn(t, g) => Withdrawn(t, g)'
  BY <1>10, <1>11 DEF Withdrawn
<1>13. t.op = "approve" => t.rooted = TRUE
  BY <1>8 DEF TxnFits, ApprovalFits
<1>14. TxnFits("restoring", u)'
  BY <1>2, <1>4, <1>5, <1>8, <1>9, <1>11, <1>12, <1>13, HeadDealtWith
<1> QED
  BY <1>7, <1>8, <1>11, <1>14, GoingOn

\* A root nothing descends from goes, and nothing else.
LEMMA RootRetired ==
  ASSUME LineageInv, NEW t, OwnRoot(t),
         assets' = [assets EXCEPT ![t.asset] = None], UNCHANGED <<file, dirs, acked>>
  PROVE  Stored' /\ LineageIntact' /\ AckedRootsStay'
<1>1. \A b \in Assets : assets'[b] # None =>
        b # t.asset /\ assets'[b] = assets[b]
  BY DEF LineageInv, Stored
<1>2. \A b \in Assets \ {t.asset} : assets'[b] = assets[b]
  BY DEF LineageInv, Stored
<1>3. Stored'
  BY DEF LineageInv, Stored
<1>4. LineageIntact'
  <2>1. ASSUME NEW b \in Assets, assets'[b] # None, assets'[b].supersedes # None
        PROVE  /\ assets'[assets'[b].supersedes] # None
               /\ assets'[assets'[b].supersedes].docset = assets'[b].docset
    <3>1. b # t.asset /\ assets'[b] = assets[b]
      BY <1>1, <2>1
    <3>2. assets[b].supersedes # t.asset
      BY <2>1, <3>1 DEF OwnRoot
    <3>3. assets'[assets[b].supersedes] = assets[assets[b].supersedes]
      BY <3>2 DEF LineageInv, Stored
    <3> QED
      BY <2>1, <3>1, <3>3 DEF LineageInv, LineageIntact
  <2> QED
    BY <2>1 DEF LineageIntact
<1>5. AckedRootsStay'
  BY <1>2 DEF LineageInv, AckedRootsStay, OwnRoot
<1> QED
  BY <1>3, <1>4, <1>5

LEMMA CleanUpKeepsLineage ==
  ASSUME LineageInv, LockInv', NEW p \in Procs, CleanUp(p)
  PROVE  LineageInv'
<1>1. PICK t : t = txn[p]
  OBVIOUS
<1> DEFINE u == [t EXCEPT !.rooted = FALSE]
<1>2. /\ pc[p] = "restoring" /\ t.todo = <<>> /\ t.failed # TRUE /\ UNCHANGED acked
      /\ t.rooted = TRUE /\ t.op = "approve" => assets' = [assets EXCEPT ![t.asset] = None]
      /\ ~(t.rooted = TRUE /\ t.op = "approve") => UNCHANGED assets
      /\ t.rooted = TRUE /\ t.op = "register" =>
           dirs' = dirs \ {t.d} /\ file' = [file EXCEPT ![DocsetHead(t.d)] = None]
      /\ ~(t.rooted = TRUE /\ t.op = "register") => UNCHANGED <<file, dirs>>
  <2>1. TxnFits("restoring", t)
    BY <1>1, Alone DEF CleanUp
  <2>2. t.rooted \in BOOLEAN /\ t.failed \in BOOLEAN
    BY <2>1 DEF TxnFits
  <2> QED
    BY <1>1, <2>2 DEF CleanUp
<1>3. Leave(p) \/ Enter(p, "forcing", u) \/ Enter(p, "unlocking", u)
  BY <1>1 DEF CleanUp
<1>4. TxnFits("restoring", t) /\ \A q \in Procs \ {p} : pc[q] = "idle"
  BY <1>1, <1>2, Alone
<1>5. /\ Shape(u) /\ u.op = t.op /\ u.d = t.d /\ u.asset = t.asset /\ u.run = t.run /\ u.pub = t.pub
      /\ u.orig = t.orig /\ u.todo = t.todo /\ u.rooted = FALSE /\ u.failed = t.failed
      /\ u.raised = t.raised
  BY <1>4 DEF TxnFits, Shape
<1> HIDE DEF u
<1>6. t.op \in {"approve", "register"} /\ t.rooted \in BOOLEAN /\ t.d \in Docsets
  BY <1>4 DEF TxnFits, Shape
<1>7. t.op = "approve" => ApprovalFits("restoring", t)
  BY <1>4 DEF TxnFits
<1>8. Stored' /\ LineageIntact' /\ AckedRootsStay'
  <2>1. CASE t.rooted = TRUE /\ t.op = "approve"
    <3>1. OwnRoot(t)
      BY <1>7, <2>1 DEF ApprovalFits
    <3> QED
      BY <1>2, <2>1, <3>1, RootRetired
  <2>2. CASE t.rooted = TRUE /\ t.op = "register"
    <3>1. DocsetHead(t.d) \in Heads /\ \A d \in Docsets : PointerFits(d, None)
      BY <1>6 DEF Heads, PointerFits
    <3>2. dirs' \subseteq dirs \cup Docsets /\ UNCHANGED <<assets, acked>>
      BY <1>2, <2>2
    <3> QED
      BY <1>2, <2>2, <3>1, <3>2, OneHeadWritten
  <2>3. CASE t.rooted = FALSE
    <3>1. UNCHANGED <<file, dirs, assets, acked>>
      BY <1>2, <2>3
    <3> QED
      BY <3>1, NothingWritten
  <2> QED
    BY <1>6, <2>1, <2>2, <2>3
<1>9. ASSUME NEW l \in {"forcing", "unlocking"}
      PROVE  TxnFits(l, u)'
  <2>1. ASSUME u.op = "approve" PROVE ApprovalFits(l, u)'
    <3>1. ApprovalFits("restoring", t) /\ UNCHANGED file
      BY <1>2, <1>5, <1>7, <2>1
    <3>2. Left(t) = {} /\ t.failed = FALSE
      <4>1. Left(t) = {}
        BY <1>2 DEF Left, Elems
      <4> QED
        BY <1>2, <1>4, <4>1 DEF TxnFits
    <3>3. \A h \in HeadsOf(t.d) : Withdrawn(t, h)
      BY <3>1, <3>2 DEF ApprovalFits
    <3>4. \A h \in HeadsOf(t.d) : Withdrawn(u, h)'
      BY <1>5, <3>1, <3>3 DEF Withdrawn
    <3>5. /\ t.asset \in Assets /\ t.run \in Runs /\ t.pub = [h \in HeadsOf(t.d) |-> t.pub[h]]
          /\ PointerFits(t.d, t.orig[CurrentHead(t.d)]) /\ t.raised = TRUE
      BY <3>1 DEF ApprovalFits, Working
    <3> QED
      BY <1>5, <3>4, <3>5 DEF ApprovalFits, Working
  <2>2. u.todo \in Seq(OwnHeads(u)) /\ t.failed \in BOOLEAN /\ t.raised \in BOOLEAN
    BY <1>4, <1>5, SameHeads DEF TxnFits
  <2> QED
    BY <1>5, <1>6, <2>1, <2>2 DEF TxnFits
<1>10. CASE Leave(p)
  BY <1>2, <1>8, <1>10, GoingOut
<1>11. CASE Enter(p, "forcing", u) \/ Enter(p, "unlocking", u)
  BY <1>4, <1>8, <1>9, <1>11, GoingOn
<1> QED
  BY <1>3, <1>10, <1>11

LEMMA UnlockDocsetKeepsLineage ==
  ASSUME LineageInv, LockInv', NEW p \in Procs, UnlockDocset(p)
  PROVE  LineageInv'
<1>1. PICK t : t = txn[p]
  OBVIOUS
<1>2. pc[p] = "unlocking" /\ UNCHANGED <<file, dirs, assets, acked>>
  BY DEF UnlockDocset
<1>3. Enter(p, "releasing", t)
  BY <1>1, StayingEnters DEF UnlockDocset, LineageInv
<1>4. TxnFits("unlocking", t) /\ \A q \in Procs \ {p} : pc[q] = "idle"
  BY <1>1, <1>2, Alone
<1>5. t.op = "approve" => ApprovalFits("releasing", t)
  <2>1. t.op = "approve" => ApprovalFits("unlocking", t)
    BY <1>4 DEF TxnFits
  <2> QED
    BY <2>1 DEF ApprovalFits, Working
<1>6. TxnFits("releasing", t)
  BY <1>4, <1>5 DEF TxnFits
<1> QED
  BY <1>2, <1>3, <1>4, <1>6, QuietStep

\* The approval returns: its root is published.
LEMMA UnlockCatalogKeepsLineage ==
  ASSUME LineageInv, LockInv', NEW p \in Procs, UnlockCatalog(p)
  PROVE  LineageInv'
<1>1. PICK t : t = txn[p]
  OBVIOUS
<1>2. /\ pc[p] \in {"unlocking", "releasing"} /\ Leave(p) /\ UNCHANGED <<file, dirs, assets>>
      /\ acked' = IF t.raised \/ t.op = "register" THEN acked
                  ELSE [acked EXCEPT ![t.d] = @ \cup {t.asset}]
  BY <1>1 DEF UnlockCatalog
<1>3. TxnFits(pc[p], t)
  BY <1>1, <1>2, Alone
<1>4. CASE t.raised \/ t.op = "register"
  <2>1. UNCHANGED <<file, dirs, assets, acked>>
    BY <1>2, <1>4
  <2>2. Stored' /\ LineageIntact' /\ AckedRootsStay'
    BY <2>1, NothingWritten
  <2> QED
    BY <1>2, <2>2, GoingOut
<1>5. CASE ~(t.raised \/ t.op = "register")
  <2>1. t.op = "approve" /\ t.raised = FALSE
    BY <1>3, <1>5 DEF TxnFits, Shape
  <2>2. ApprovalFits(pc[p], t)
    BY <1>3, <2>1 DEF TxnFits
  <2>3. t.asset \in Assets /\ OwnRoot(t)
    BY <1>2, <2>1, <2>2 DEF ApprovalFits
  <2>4. acked' = [acked EXCEPT ![t.d] = acked[t.d] \cup {t.asset}]
    BY <1>2, <1>5
  <2>5. AckedRootsStay'
    <3>1. ASSUME NEW d \in Docsets, NEW a \in acked'[d]
          PROVE  a \in acked[d] \/ a = t.asset
      BY <2>4, <3>1 DEF LineageInv, Stored
    <3> QED
      BY <1>2, <2>3, <3>1 DEF LineageInv, AckedRootsStay, OwnRoot
  <2>6. Stored' /\ LineageIntact'
    BY <1>2, <2>4 DEF LineageInv, Stored, LineageIntact
  <2> QED
    BY <1>2, <2>5, <2>6, GoingOut
<1> QED
  BY <1>4, <1>5

LEMMA UnlockFailsKeepsLineage ==
  ASSUME LineageInv, LockInv', NEW p \in Procs, UnlockFails(p)
  PROVE  LineageInv'
<1>1. PICK t : t = txn[p]
  OBVIOUS
<1> DEFINE u == [t EXCEPT !.closing = TRUE]
<1>2. pc[p] \in {"unlocking", "releasing"} /\ UNCHANGED <<file, dirs, assets, acked>>
  BY DEF UnlockFails, heads
<1>3. TxnFits(pc[p], t) /\ \A q \in Procs \ {p} : pc[q] = "idle"
  BY <1>1, <1>2, Alone
<1>4. /\ Shape(u) /\ u.op = t.op /\ u.d = t.d /\ u.asset = t.asset /\ u.run = t.run /\ u.pub = t.pub
      /\ u.orig = t.orig /\ u.todo = t.todo /\ u.rooted = t.rooted /\ u.failed = t.failed
      /\ u.raised = t.raised
  BY <1>3 DEF TxnFits, Shape
<1>5. \/ Leave(p)
      \/ Enter(p, "forcing", u)
      \/ u.orig # None /\ Fail(p, u, FALSE)
  BY <1>1 DEF UnlockFails
<1> HIDE DEF u
<1>6. /\ u.d \in Docsets /\ u.rooted \in BOOLEAN /\ u.failed \in BOOLEAN /\ u.raised \in BOOLEAN
      /\ u.todo \in Seq(OwnHeads(u))
  BY <1>3, <1>4, SameHeads DEF TxnFits
<1>7. ASSUME u.op = "approve"
      PROVE  /\ u.asset \in Assets /\ u.run \in Runs /\ u.pub = [h \in HeadsOf(u.d) |-> u.pub[h]]
             /\ u.orig # None => PointerFits(u.d, u.orig[CurrentHead(u.d)])
             /\ u.rooted = FALSE => \A h \in HeadsOf(u.d) : Withdrawn(u, h)
             /\ u.rooted = TRUE => OwnRoot(u)
  <2>1. ApprovalFits(pc[p], t)
    BY <1>3, <1>4, <1>7 DEF TxnFits
  <2>2. u.rooted = TRUE => OwnRoot(u)
    <3>1. t.rooted = TRUE => OwnRoot(t)
      BY <2>1 DEF ApprovalFits
    <3> QED
      BY <1>4, <3>1 DEF OwnRoot
  <2>3. u.rooted = FALSE => \A h \in HeadsOf(u.d) : Withdrawn(u, h)
    <3>1. t.rooted = FALSE => \A h \in HeadsOf(t.d) : Withdrawn(t, h)
      BY <2>1 DEF ApprovalFits
    <3> QED
      BY <1>4, <3>1 DEF Withdrawn
  <2> QED
    BY <1>4, <2>1, <2>2, <2>3 DEF ApprovalFits
<1>8. TxnFits("forcing", u)
  BY <1>4, <1>6, <1>7 DEF TxnFits, ApprovalFits, Working
<1>9. u.orig # None => Rollable(u)
  BY <1>4, <1>6, <1>7 DEF Rollable
<1>10. CASE Leave(p)
  <2>1. Stored' /\ LineageIntact' /\ AckedRootsStay'
    BY <1>2, NothingWritten
  <2> QED
    BY <1>2, <1>10, <2>1, GoingOut
<1>11. CASE Enter(p, "forcing", u)
  BY <1>2, <1>3, <1>8, <1>11, QuietStep
<1>12. CASE u.orig # None /\ Fail(p, u, FALSE)
  BY <1>2, <1>9, <1>12, QuietFailure
<1> QED
  BY <1>5, <1>10, <1>11, <1>12

\* A process that gives up, or dies, leaves what is on disk.
LEMMA LeavingKeepsLineage ==
  ASSUME LineageInv, LockInv', NEW p \in Procs,
         Abandon(p) \/ ForceClose(p) \/ ForceCloseFails(p) \/ Crash(p)
  PROVE  LineageInv'
<1>1. pc[p] # "idle" /\ Leave(p) /\ UNCHANGED <<file, dirs, assets, acked>>
  BY DEF Abandon, ForceClose, ForceCloseFails, Crash, heads
<1>2. Stored' /\ LineageIntact' /\ AckedRootsStay'
  BY <1>1, NothingWritten
<1> QED
  BY <1>1, <1>2, GoingOut

\* Readers, and an operator who removes locks, write no head and no root.
LEMMA OthersKeepLineage ==
  ASSUME LineageInv, LockInv', UNCHANGED <<file, dirs, assets, acked, pc, txn>>
  PROVE  LineageInv'
<1>1. CASE \E p \in Procs : pc[p] # "idle"
  <2>1. PICK p \in Procs : pc[p] # "idle"
    BY <1>1
  <2>2. TxnFits(pc[p], txn[p]) /\ \A q \in Procs \ {p} : pc[q] = "idle"
    BY <2>1, Alone
  <2>3. PICK l, t : l = pc[p] /\ t = txn[p]
    OBVIOUS
  <2>4. Enter(p, l, t)
    BY <2>3 DEF Enter, Goto, LineageInv, LockInv, Shapes
  <2> QED
    BY <2>2, <2>3, <2>4, QuietStep
<1>2. CASE \A p \in Procs : pc[p] = "idle"
  <2>1. Stored' /\ LineageIntact' /\ AckedRootsStay'
    BY NothingWritten
  <2> QED
    BY <1>2, <2>1 DEF LineageInv
<1> QED
  BY <1>1, <1>2

LEMMA LineageInvInit ==
  Init => LineageInv
<1> SUFFICES ASSUME Init PROVE LineageInv
  OBVIOUS
<1>1. LockInv /\ \A p \in Procs : pc[p] = "idle"
  BY LockInvInit DEF Init
<1>2. Stored
  BY DEF Init, Stored, PointerFits, Heads, CurrentHead
<1>3. LineageIntact /\ AckedRootsStay
  BY DEF Init, LineageIntact, AckedRootsStay
<1> QED
  BY <1>1, <1>2, <1>3 DEF LineageInv

LEMMA LineageInvNext ==
  LineageInv /\ [Next]_vars => LineageInv'
<1> SUFFICES ASSUME LineageInv, [Next]_vars
             PROVE  LineageInv'
  OBVIOUS
<1>1. LockInv'
  BY LockInvNext DEF LineageInv
<1>2. ASSUME NEW p \in Procs, Begin(p)
      PROVE  LineageInv'
  BY <1>1, <1>2, BeginKeepsLineage
<1>3. ASSUME NEW p \in Procs, Step(p)
      PROVE  LineageInv'
  <2>1. CASE \/ LockDocset(p) \/ GiveUpLocking(p)
             \/ CheckApproval(p) \/ CheckRegistration(p) \/ Refuse(p)
             \/ PublishRoot(p) \/ StageFails(p)
    BY <1>1, <2>1, LockingKeepsLineage, CheckApprovalKeepsLineage, CheckRegistrationKeepsLineage,
       RefuseKeepsLineage, PublishRootKeepsLineage, StageFailsKeepsLineage
  <2>2. CASE \/ MoveHead(p) \/ WriteRefused(p) \/ LinkHead(p) \/ LinkFails(p)
             \/ VerifyFails(p) \/ RetireHead(p) \/ RetireFails(p)
    BY <1>1, <2>2, MoveHeadKeepsLineage, WriteRefusedKeepsLineage, LinkHeadKeepsLineage,
       LinkFailsKeepsLineage, RetireHeadKeepsLineage
  <2>3. CASE \/ RestoreHead(p) \/ RestoreFails(p) \/ RelinkHead(p) \/ RelinkFails(p)
             \/ CleanUp(p) \/ Abandon(p)
    BY <1>1, <2>3, RestoreHeadKeepsLineage, RestoreFailsKeepsLineage, RelinkHeadKeepsLineage,
       RelinkFailsKeepsLineage, CleanUpKeepsLineage, LeavingKeepsLineage
  <2>4. CASE \/ UnlockDocset(p) \/ UnlockCatalog(p) \/ UnlockFails(p)
             \/ ForceClose(p) \/ ForceCloseFails(p)
    BY <1>1, <2>4, UnlockDocsetKeepsLineage, UnlockCatalogKeepsLineage, UnlockFailsKeepsLineage,
       LeavingKeepsLineage
  <2> QED
    BY <1>3, <2>1, <2>2, <2>3, <2>4 DEF Step
<1>4. ASSUME NEW p \in Procs, Crash(p)
      PROVE  LineageInv'
  BY <1>1, <1>4, LeavingKeepsLineage
<1>5. CASE ClearLocks
  BY <1>1, <1>5, OthersKeepLineage DEF ClearLocks
<1>6. ASSUME NEW r \in Readers, Read(r)
      PROVE  LineageInv'
  BY <1>1, <1>6, OthersKeepLineage
  DEF Read, ReadPointer, ReadDocset, ReadCatalog, ReadAsset, ReadReturns, heads
<1>7. CASE UNCHANGED vars
  BY <1>1, <1>7, OthersKeepLineage DEF vars, heads
<1> QED
  BY <1>2, <1>3, <1>4, <1>5, <1>6, <1>7 DEF Next

\* supersedes never dangles: whatever failed, crashed, could not be verified or
\* was unlocked by hand, the predecessor of every published root is a published
\* root of the same docset.  A rollback retires a root only when it has taken
\* back every head it published (approve.py: _raise_approval_failure), and
\* nothing can have been approved on top of it under the locks it holds.
THEOREM SupersedesNeverDangles == Spec => []LineageIntact
<1>1. LineageInv => LineageIntact
  BY DEF LineageInv
<1> QED
  BY <1>1, LineageInvInit, LineageInvNext, PTL DEF Spec

\* No rollback, of whichever later transaction, retires the root of an approval
\* that returned.
THEOREM AckedRootsAreKept == Spec => []AckedRootsStay
<1>1. LineageInv => AckedRootsStay
  BY DEF LineageInv
<1> QED
  BY <1>1, LineageInvInit, LineageInvNext, PTL DEF Spec

-----------------------------------------------------------------------------
(* The inductive invariant, on top of LineageInv: the types, and what a    *)
(* transaction has on disk, in named parts.                                *)

Kind(h) == IF h = CatalogHead THEN Catalogs
           ELSE IF \E d \in Docsets : h = DocsetHead(d) THEN Entry ELSE Pointer

Typed(h, f) == f # None => f \in [content : Kind(h), inode : Nat]

\* What a rollback may start from.
TypesRoll(t) ==
  /\ t # None /\ t \in Transactions(t.d) /\ t.d \in Docsets
  /\ t.orig # None => \A h \in HeadsOf(t.d) : Typed(h, t.orig[h])
  /\ t.orig # None \/ t.op = "register" => t.title \in Titles
  /\ t.op = "approve" => t.d \in dirs
  /\ t.op = "register" =>
       /\ t.d \notin dirs => t.rooted = FALSE
       /\ t.d \notin dirs \/ t.rooted = TRUE => t.pub[DocsetHead(t.d)] = None
       /\ t.rooted = TRUE =>
            /\ file[CurrentHead(t.d)] = None
            /\ \A a \in Assets : assets[a] # None => assets[a].docset # t.d

\* The phases before anything has failed.
Forward == {"locking", "checking", "staging", "writing", "linking", "retiring"}

TypesFit(l, t) ==
  /\ TypesRoll(t)
  /\ l \in Forward => t.raised = FALSE
  /\ l \in {"restoring", "relinking"} => t.raised = TRUE
  /\ t.orig = None => l \in {"locking", "checking", "unlocking", "releasing", "forcing"}
  /\ l \in {"locking", "checking"} => t.orig = None
  /\ l \in {"locking", "checking", "staging"} => t.rooted = FALSE /\ \A h \in HeadsOf(t.d) : t.pub[h] = None
  /\ l \in {"restoring", "relinking"} => \A h \in Left(t) : t.pub[h] # None
  /\ l = "relinking" => t.orig[Head(t.todo)] # None
  /\ l \in Working \ {"staging"} /\ t.op = "register" /\ (t.d \notin dirs \/ t.rooted = TRUE) =>
       DocsetHead(t.d) \notin Left(t)

DiskTyped ==
  /\ \A h \in Heads : Typed(h, file[h])
  /\ dirs \subseteq Docsets
  /\ \A d \in Docsets \ dirs : file[DocsetHead(d)] = None /\ file[CurrentHead(d)] = None
  /\ assets \in [Assets -> Manifest \cup {None}]
  /\ \A a \in Assets : assets[a] # None => assets[a].docset \in dirs

TypesInv ==
  /\ DiskTyped
  /\ \A p \in Procs : IF pc[p] = "idle" THEN txn[p] = None ELSE TypesFit(pc[p], txn[p])

Same(f, g) == (f = None <=> g = None) /\ (f # None => f.content = g.content)

Said(f) == IF f = None THEN None ELSE f.content

\* Coherent, of the heads in a snapshot.
CoherentIn(F, d) ==
  /\ F[DocsetHead(d)] # None
  /\ Bound(Said(F[CurrentHead(d)]), F[DocsetHead(d)].content, CatalogOf(F[CatalogHead])[d])
  /\ Verified(Said(F[CurrentHead(d)]))

AtRest == \A d \in dirs : Coherent(d)

\* The heads as they were when the transaction captured its own.
Before(t) == [h \in Heads |-> IF h \in HeadsOf(t.d) THEN t.orig[h] ELSE file[h]]

\* A registration that has published its docset directory.
Making(t) == t.op = "register" /\ t.rooted = TRUE

Home(t) == IF Making(t) THEN dirs \ {t.d} ELSE dirs

\* The heads agreed when they were captured, and none named the new root.
Baseline(t) ==
  /\ \A d \in Home(t) : CoherentIn(Before(t), d)
  /\ t.op = "approve" =>
       /\ \A d \in Docsets : Before(t)[CurrentHead(d)] # None =>
                               Before(t)[CurrentHead(d)].content.asset # t.asset
       /\ t.rooted = TRUE => assets[t.asset] = NewManifest(t)
  /\ t.op = "register" =>
       /\ t.asset = IF t.orig[DocsetHead(t.d)] = None THEN None ELSE t.orig[DocsetHead(t.d)].content.asset
       /\ Making(t) => t.orig[DocsetHead(t.d)] = None /\ t.orig[CurrentHead(t.d)] = None

Untouched(t, h) == file[h] = t.orig[h] /\ t.pub[h] = None

Written(t, h) ==
  /\ file[h] # None /\ file[h].content = Content(t, h)
  /\ t.pub[h] # None \/ (Making(t) /\ h = DocsetHead(t.d))

\* A head of the docset that is written when the transaction writes it.
Finished(t, h) == IF h \in OwnHeads(t) THEN Written(t, h) ELSE Untouched(t, h)

\* A head there is nothing to take back of, and one that is dealt with.
Unharmed(t, h) == Same(file[h], t.orig[h]) \/ (Making(t) /\ h = DocsetHead(t.d))
Back(t, h) == Unharmed(t, h) \/ (t.recovery = TRUE /\ file[h] = None)

\* Under the inode it published is what the transaction wrote.
Genuine(t, h, f) ==
  t.pub[h] # None /\ f # None /\ f.inode = t.pub[h] => f.content = Content(t, h)
PubFits(t) == \A h \in OwnHeads(t) : Genuine(t, h, file[h])

TodoFits(t) ==
  LET s == DocsetHead(t.d)  c == CurrentHead(t.d)  k == CatalogHead IN
  IF t.op = "approve" THEN t.todo \in {<<s, k, c>>, <<k, c>>, <<c>>}
  ELSE t.todo \in {<<s, k>>, <<k>>} /\ (Making(t) => t.todo = <<k>>)

\* The head in turn, those still to write and those written.
Turn(t) == Head(t.todo)
WritingFits(t) ==
  /\ TodoFits(t)
  /\ \A h \in Left(t) \ {Turn(t)} : Untouched(t, h)
  /\ \A h \in HeadsOf(t.d) \ Left(t) : Finished(t, h)

RestoringFits(t) == t.failed = FALSE => \A h \in HeadsOf(t.d) \ Left(t) : Back(t, h)

Restored(t) == t.rooted = FALSE /\ \A h \in HeadsOf(t.d) : Same(file[h], t.orig[h])

PhaseFits(l, t) ==
  /\ l = "staging" => \A h \in HeadsOf(t.d) : Untouched(t, h)
  /\ l \in {"writing", "linking", "retiring"} => WritingFits(t)
  /\ l = "writing" => Untouched(t, Turn(t))
  /\ l = "linking" => file[Turn(t)] = None /\ t.pub[Turn(t)] = None
  /\ l = "retiring" => Written(t, Turn(t)) /\ t.pub[Turn(t)] # None
  /\ l \in {"restoring", "relinking"} => RestoringFits(t)
  /\ l = "relinking" => file[Turn(t)] = None
  /\ l \in {"unlocking", "releasing"} /\ t.raised = FALSE => \A h \in HeadsOf(t.d) : Finished(t, h)
  /\ l = "forcing" \/ (l \in {"unlocking", "releasing"} /\ t.raised = TRUE) => Restored(t)

HeadsFit(l, t) ==
  IF t.orig = None THEN AtRest ELSE Baseline(t) /\ PubFits(t) /\ PhaseFits(l, t)

\* Identities can be verified, and no operator has removed a lock.
Trusted == IdentityFaults = FALSE /\ cleared = 0

HeadsInv ==
  Trusted => /\ CatalogLock \notin locks => AtRest
             /\ \A p \in Procs : pc[p] # "idle" => HeadsFit(pc[p], txn[p])

-----------------------------------------------------------------------------
(* What is put under a head's name is a file of that head.                 *)

LEMMA Kinds ==
  ASSUME NEW d \in Docsets
  PROVE  /\ Kind(DocsetHead(d)) = Entry /\ Kind(CurrentHead(d)) = Pointer
         /\ Kind(CatalogHead) = Catalogs
BY DEF Kind, DocsetHead, CurrentHead, CatalogHead

LEMMA NewFileTyped ==
  ASSUME NEW h, NEW x \in Kind(h), NEW n \in Nat
  PROVE  /\ Typed(h, [content |-> x, inode |-> n]) /\ [content |-> x, inode |-> n] # None
<1>1. [content |-> x, inode |-> n] \in File
  BY DEF Kind, File
<1> QED
  BY <1>1, AbsenceAssumption DEF Typed

LEMMA TypedIsFile ==
  ASSUME NEW h, NEW f, Typed(h, f)
  PROVE  f \in File \cup {None}
BY DEF Typed, Kind, File

LEMMA ContentIs ==
  ASSUME NEW t, t.d \in Docsets
  PROVE  /\ Content(t, DocsetHead(t.d)) = [title |-> t.title, asset |-> t.asset]
         /\ Content(t, CatalogHead) =
              [CatalogOf(t.orig[CatalogHead]) EXCEPT ![t.d] = [title |-> t.title, asset |-> t.asset]]
         /\ Content(t, CurrentHead(t.d)) = [asset |-> t.asset, digest |-> assets[t.asset]]
<1>1. /\ DocsetHead(t.d) # CatalogHead /\ DocsetHead(t.d) # CurrentHead(t.d)
      /\ CurrentHead(t.d) # CatalogHead
  BY DEF DocsetHead, CurrentHead, CatalogHead
<1> QED
  BY <1>1 DEF Content

LEMMA ContentTyped ==
  ASSUME DiskTyped, NEW t, TypesRoll(t), t.orig # None, NEW h \in OwnHeads(t),
         h = CurrentHead(t.d) => t.asset \in Assets /\ assets[t.asset] # None
  PROVE  Content(t, h) \in Kind(h)
<1>1. /\ t.d \in Docsets /\ t.title \in Titles /\ t.asset \in Assets \cup {None}
      /\ \A g \in HeadsOf(t.d) : Typed(g, t.orig[g])
  BY DEF TypesRoll, Transactions
<1>2. [title |-> t.title, asset |-> t.asset] \in Entry
  BY <1>1 DEF Entry
<1> DEFINE entry == [title |-> t.title, asset |-> t.asset]
<1>3. CASE h = DocsetHead(t.d)
  <2>1. Content(t, h) = entry
    BY <1>1, <1>3, ContentIs
  <2> QED
    BY <1>1, <1>2, <1>3, <2>1, Kinds
<1>4. CASE h = CatalogHead
  <2>1. CatalogOf(t.orig[h]) \in Catalogs
    <3>1. t.orig[h] # None => t.orig[h].content \in Catalogs
      BY <1>1, <1>4, Kinds, HeadNames DEF Typed
    <3>2. [d \in Docsets |-> None] \in Catalogs
      BY DEF Catalogs
    <3> QED
      BY <3>1, <3>2 DEF CatalogOf
  <2>2. [CatalogOf(t.orig[h]) EXCEPT ![t.d] = entry] \in Catalogs
    BY <1>1, <1>2, <2>1 DEF Catalogs
  <2>3. Content(t, h) = [CatalogOf(t.orig[h]) EXCEPT ![t.d] = entry]
    BY <1>1, <1>4, ContentIs
  <2> QED
    BY <1>1, <1>4, <2>2, <2>3, Kinds
<1>5. CASE h = CurrentHead(t.d)
  <2>1. Content(t, h) = [asset |-> t.asset, digest |-> assets[t.asset]]
    BY <1>1, <1>5, ContentIs
  <2>2. t.asset \in Assets /\ assets[t.asset] \in Manifest
    BY <1>5 DEF DiskTyped
  <2> QED
    BY <1>1, <1>5, <2>1, <2>2, Kinds DEF Pointer
<1> QED
  BY <1>3, <1>4, <1>5 DEF OwnHeads, HeadsOf

\* One head is rewritten, by something that may be there.
LEMMA OneHeadTyped ==
  ASSUME LineageInv, DiskTyped, NEW h \in Heads, NEW f, Typed(h, f),
         file' = [file EXCEPT ![h] = f], UNCHANGED <<dirs, assets>>,
         \A d \in Docsets \ dirs : h \in {DocsetHead(d), CurrentHead(d)} => f = None
  PROVE  DiskTyped' /\ file'[h] = f /\ \A g \in Heads \ {h} : file'[g] = file[g]
<1>1. file'[h] = f /\ \A g \in Heads \ {h} : file'[g] = file[g]
  BY DEF LineageInv, Stored
<1>2. \A g \in Heads : Typed(g, file'[g])
  BY <1>1 DEF DiskTyped
<1>3. \A d \in Docsets \ dirs : file'[DocsetHead(d)] = None /\ file'[CurrentHead(d)] = None
  <2>1. \A d \in Docsets : DocsetHead(d) \in Heads /\ CurrentHead(d) \in Heads
    BY DEF Heads
  <2> QED
    BY <1>1, <2>1 DEF DiskTyped
<1> QED
  BY <1>1, <1>2, <1>3 DEF DiskTyped, Typed

LEMMA NothingUntyped ==
  ASSUME DiskTyped, UNCHANGED <<file, dirs, assets>>
  PROVE  DiskTyped'
BY DEF DiskTyped, Typed

-----------------------------------------------------------------------------
(* Transactions that go on, leave or fail.                                 *)

LEMMA Acting ==
  ASSUME LineageInv, TypesInv, HeadsInv, NEW p \in Procs, pc[p] # "idle"
  PROVE  /\ TxnFits(pc[p], txn[p]) /\ TypesFit(pc[p], txn[p]) /\ DiskTyped
         /\ \A q \in Procs \ {p} : pc[q] = "idle"
         /\ CatalogLock \in locks
         /\ Trusted => HeadsFit(pc[p], txn[p])
<1>1. TxnFits(pc[p], txn[p]) /\ \A q \in Procs \ {p} : pc[q] = "idle"
  BY Alone
<1>2. TypesFit(pc[p], txn[p]) /\ DiskTyped
  BY DEF TypesInv
<1>3. CatalogLock \in locks
  BY DEF LineageInv, LockInv, ActiveLocksCatalog
<1> QED
  BY <1>1, <1>2, <1>3 DEF HeadsInv

LEMMA ActingOn ==
  ASSUME LineageInv, TypesInv, HeadsInv, NEW p \in Procs, pc[p] # "idle"
  PROVE  /\ TypesRoll(txn[p]) /\ txn[p].d \in Docsets /\ txn[p] \in Transactions(txn[p].d)
         /\ txn[p].op \in {"approve", "register"}
         /\ pc[p] \in Working => txn[p].orig # None
<1>1. PICK t : t = txn[p]
  OBVIOUS
<1>2. TypesFit(pc[p], t)
  BY <1>1, Acting
<1>3. TypesRoll(t)
  BY <1>2 DEF TypesFit
<1>4. t.d \in Docsets /\ t \in Transactions(t.d)
  BY <1>3 DEF TypesRoll
<1>5. t.op \in {"approve", "register"}
  BY <1>4 DEF Transactions
<1>6. pc[p] \in Working => t.orig # None
  BY <1>2 DEF TypesFit, Working
<1> QED
  BY <1>1, <1>3, <1>4, <1>5, <1>6

LEMMA KeepingOn ==
  ASSUME LineageInv, TypesInv, NEW p \in Procs, \A q \in Procs \ {p} : pc[q] = "idle",
         NEW l, NEW t, Enter(p, l, t), l # "idle", CatalogLock \in locks', UNCHANGED cleared,
         DiskTyped', TypesFit(l, t)', Trusted => HeadsFit(l, t)'
  PROVE  TypesInv' /\ HeadsInv'
<1>1. /\ pc'[p] = l /\ txn'[p] = t
      /\ \A q \in Procs \ {p} : pc'[q] = "idle" /\ txn'[q] = txn[q]
  BY DEF Enter, Goto, LineageInv, LockInv, Shapes
<1>2. TypesInv'
  BY <1>1 DEF TypesInv
<1>3. Trusted' => Trusted
  BY DEF Trusted
<1> QED
  BY <1>1, <1>2, <1>3 DEF HeadsInv

LEMMA KeepingOut ==
  ASSUME LineageInv, TypesInv, NEW p \in Procs, \A q \in Procs \ {p} : pc[q] = "idle",
         Leave(p), UNCHANGED cleared, DiskTyped', Trusted /\ CatalogLock \notin locks' => AtRest'
  PROVE  TypesInv' /\ HeadsInv'
<1>1. /\ pc'[p] = "idle" /\ txn'[p] = None
      /\ \A q \in Procs \ {p} : pc'[q] = "idle" /\ txn'[q] = txn[q]
  BY DEF Leave, Goto, LineageInv, LockInv, Shapes
<1>2. TypesInv'
  BY <1>1 DEF TypesInv
<1>3. Trusted' => Trusted
  BY DEF Trusted
<1> QED
  BY <1>1, <1>2, <1>3 DEF HeadsInv

-----------------------------------------------------------------------------
(* What a step keeps that writes at most one head of its own.              *)

\* One transaction at two moments, its root published at both or at neither.
Alike(t, u) ==
  /\ u.op = t.op /\ u.d = t.d /\ u.title = t.title /\ u.asset = t.asset /\ u.run = t.run
  /\ u.orig = t.orig /\ u.rooted = t.rooted

LEMMA AlikeSame ==
  ASSUME NEW t, NEW u, Alike(t, u)
  PROVE  /\ OwnHeads(u) = OwnHeads(t) /\ HeadsOf(u.d) = HeadsOf(t.d) /\ Making(u) = Making(t)
         /\ NewManifest(u) = NewManifest(t)
BY DEF Alike, OwnHeads, Making, NewManifest, Supersedes

\* The snapshot before a transaction only depends on the heads of others.
LEMMA BeforeStays ==
  ASSUME NEW t, NEW u, u.d = t.d, u.orig = t.orig, NEW h \in HeadsOf(t.d),
         \A g \in Heads \ {h} : file'[g] = file[g]
  PROVE  Before(u)' = Before(t)
<1>1. \A g \in Heads : IF g \in HeadsOf(u.d) THEN u.orig[g] = t.orig[g] /\ g \in HeadsOf(t.d)
                       ELSE file'[g] = file[g] /\ g \notin HeadsOf(t.d)
  OBVIOUS
<1> QED
  BY <1>1 DEF Before

LEMMA BaselineStays ==
  ASSUME NEW t, NEW u, Alike(t, u), NEW h \in HeadsOf(t.d),
         \A g \in Heads \ {h} : file'[g] = file[g], UNCHANGED <<dirs, assets>>, Baseline(t)
  PROVE  Baseline(u)'
<1>1. PICK F : F = Before(t)
  OBVIOUS
<1>2. Before(u)' = F
  BY <1>1, BeforeStays DEF Alike
<1>3. Home(u)' = Home(t) /\ Making(u)' = Making(t) /\ NewManifest(u)' = NewManifest(t)
  BY AlikeSame DEF Home, Alike, Making, NewManifest, Supersedes
<1>4. \A d \in Home(u)' : CoherentIn(Before(u), d)'
  <2>1. ASSUME NEW d \in Home(t) PROVE CoherentIn(F, d)
    BY <1>1 DEF Baseline
  <2>2. ASSUME NEW d \in Home(t) PROVE CoherentIn(Before(u), d)'
    BY <1>2, <2>1, <2>2 DEF CoherentIn, Verified
  <2> QED
    BY <1>3, <2>2
<1>5. u.op = "approve" =>
        /\ \A d \in Docsets : Before(u)'[CurrentHead(d)] # None =>
                                Before(u)'[CurrentHead(d)].content.asset # u.asset
        /\ u.rooted = TRUE => assets'[u.asset] = NewManifest(u)'
  BY <1>1, <1>2, <1>3 DEF Baseline, Alike
<1>6. u.op = "register" =>
        /\ u.asset = IF u.orig[DocsetHead(u.d)] = None THEN None ELSE u.orig[DocsetHead(u.d)].content.asset
        /\ Making(u)' => u.orig[DocsetHead(u.d)] = None /\ u.orig[CurrentHead(u.d)] = None
  BY <1>3 DEF Baseline, Alike
<1> QED
  BY <1>4, <1>5, <1>6 DEF Baseline

LEMMA ContentStays ==
  ASSUME NEW t, NEW u, Alike(t, u), UNCHANGED assets, t.d \in Docsets, NEW h \in HeadsOf(t.d)
  PROVE  Content(u, h)' = Content(t, h)
BY DEF Content, Alike

\* What holds of a head that is not written holds on.
LEMMA HeadStays ==
  ASSUME NEW t, NEW u, Alike(t, u), UNCHANGED assets, t.d \in Docsets,
         NEW h \in HeadsOf(t.d), file'[h] = file[h], u.pub[h] = t.pub[h]
  PROVE  /\ Untouched(t, h) => Untouched(u, h)'
         /\ Written(t, h) => Written(u, h)'
         /\ Finished(t, h) => Finished(u, h)'
         /\ Same(file[h], t.orig[h]) => Same(file'[h], u.orig[h])
         /\ Unharmed(t, h) => Unharmed(u, h)'
         /\ u.recovery = t.recovery /\ Back(t, h) => Back(u, h)'
<1>1. /\ u.orig[h] = t.orig[h] /\ Making(u) = Making(t) /\ OwnHeads(u) = OwnHeads(t)
      /\ u.d = t.d
  BY AlikeSame DEF Alike
<1>2. Content(u, h)' = Content(t, h)
  BY ContentStays
<1>3. Untouched(t, h) => Untouched(u, h)'
  BY <1>1 DEF Untouched
<1>4. Written(t, h) => Written(u, h)'
  BY <1>1, <1>2 DEF Written, Making
<1>5. Finished(t, h) => Finished(u, h)'
  BY <1>1, <1>3, <1>4 DEF Finished, OwnHeads
<1>6. u.recovery = t.recovery /\ Back(t, h) => Back(u, h)'
  BY <1>1 DEF Back, Unharmed, Making, Same
<1>7. Unharmed(t, h) => Unharmed(u, h)'
  BY <1>1 DEF Unharmed, Making, Same
<1> QED
  BY <1>1, <1>3, <1>4, <1>5, <1>6, <1>7

LEMMA PubFitsStays ==
  ASSUME NEW t, NEW u, Alike(t, u), UNCHANGED assets, t.d \in Docsets, PubFits(t),
         NEW h \in HeadsOf(t.d), \A g \in Heads \ {h} : file'[g] = file[g],
         \A g \in HeadsOf(t.d) \ {h} : u.pub[g] = t.pub[g],
         Genuine(u, h, file'[h])
  PROVE  PubFits(u)'
<1> SUFFICES ASSUME NEW g \in OwnHeads(u), u.pub[g] # None /\ file'[g] # None /\ file'[g].inode = u.pub[g]
             PROVE  file'[g].content = Content(u, g)'
  BY DEF PubFits, Genuine, OwnHeads
<1>1. g \in OwnHeads(t) /\ g \in HeadsOf(t.d) /\ g \in Heads
  BY AlikeSame, OwnHeadsAreHeads
<1>2. Content(u, g)' = Content(t, g)
  BY <1>1, ContentStays
<1>3. CASE g = h
  BY <1>2, <1>3, ContentStays DEF Genuine, Content, Alike
<1>4. CASE g # h
  BY <1>1, <1>2, <1>4 DEF PubFits, Genuine
<1> QED
  BY <1>3, <1>4


LEMMA TypesRollStays ==
  ASSUME NEW t, NEW u, Alike(t, u), TypesRoll(t), u \in Transactions(t.d),
         UNCHANGED <<dirs, assets>>, NEW h \in OwnHeads(t),
         \A g \in Heads \ {h} : file'[g] = file[g],
         t.op = "register" /\ (t.d \notin dirs \/ t.rooted = TRUE) =>
           u.pub[DocsetHead(t.d)] = t.pub[DocsetHead(t.d)]
  PROVE  TypesRoll(u)'
<1>1. u # None /\ t.d \in Docsets
  BY AbsenceAssumption DEF TypesRoll
<1>2. /\ u.orig # None => \A g \in HeadsOf(u.d) : Typed(g, u.orig[g])
      /\ u.orig # None \/ u.op = "register" => u.title \in Titles
  BY DEF TypesRoll, Alike
<1>3. t.op = "register" => file'[CurrentHead(t.d)] = file[CurrentHead(t.d)]
  <2>1. t.op = "register" => h # CurrentHead(t.d) /\ CurrentHead(t.d) \in Heads
    BY <1>1, HeadNames DEF OwnHeads, Heads
  <2> QED
    BY <2>1
<1>4. \A g, f : Typed(g, f)' <=> Typed(g, f)
  BY DEF Typed, Kind, Catalogs, Entry, Pointer, Manifest
<1> QED
  BY <1>1, <1>2, <1>3, <1>4 DEF TypesRoll, Alike

\* A failing transaction starts to roll back: what it has not published is
\* back, and the rest is what it takes back.
LEMMA FailingKeepsHeads ==
  ASSUME LineageInv, LineageInv', TypesInv, NEW p \in Procs, \A q \in Procs \ {p} : pc[q] = "idle",
         NEW t, NEW recovery \in BOOLEAN, Fail(p, t, recovery),
         CatalogLock \in locks', UNCHANGED cleared,
         DiskTyped', TypesRoll(t)', t.orig # None,
         Trusted => /\ Baseline(t)' /\ PubFits(t)'
                    /\ \A h \in HeadsOf(t.d) :
                         t.pub[h] = None \/ h \notin OwnHeads(t) =>
                           Unharmed(t, h)' \/ (recovery = TRUE /\ file'[h] = None)
  PROVE  TypesInv' /\ HeadsInv'
<1>1. PICK u : u = [t EXCEPT !.raised = TRUE, !.recovery = recovery, !.todo = RestoreOrder(t)]
  OBVIOUS
<1>2. Enter(p, "restoring", u)
  BY <1>1 DEF Fail
<1>3. t \in Transactions(t.d) /\ t.d \in Docsets
  BY DEF TypesRoll
<1>4. /\ Alike(t, u) /\ u.pub = t.pub /\ u.recovery = recovery /\ u.todo = RestoreOrder(t)
      /\ u.failed = t.failed /\ u.raised = TRUE
  BY <1>1, <1>3 DEF Alike, Transactions
<1>5. OwnHeads(u) = OwnHeads(t) /\ HeadsOf(u.d) = HeadsOf(t.d) /\ Making(u) = Making(t)
  BY <1>4, AlikeSame
<1>6. u.todo \in Seq(OwnHeads(t)) /\ Left(u) = {h \in OwnHeads(t) : t.pub[h] # None}
  BY <1>4, RestoreOrderIs DEF Left
<1>7. u \in Transactions(t.d)
  <2>1. u.todo \in Seq(Heads)
    <3>1. OwnHeads(t) \subseteq Heads
      BY <1>3, OwnHeadsAreHeads
    <3> QED
      BY <1>6, <3>1
  <2> QED
    BY <1>1, <1>3, <2>1 DEF Transactions
<1>8. TypesRoll(u)'
  BY <1>3, <1>4, <1>7, AbsenceAssumption DEF TypesRoll, Alike
<1>9. TypesFit("restoring", u)'
  <2>1. \A h \in Left(u) : u.pub[h] # None
    BY <1>4, <1>6
  <2>2. u.op = "register" /\ (u.d \notin dirs' \/ u.rooted = TRUE) => DocsetHead(u.d) \notin Left(u)
    <3>1. u.op = "register" /\ (u.d \notin dirs' \/ u.rooted = TRUE) => u.pub[DocsetHead(u.d)] = None
      BY <1>8 DEF TypesRoll
    <3> QED
      BY <2>1, <3>1
  <2> QED
    BY <1>4, <1>8, <2>1, <2>2 DEF TypesFit, Alike, Left, Forward
<1>10. ASSUME Trusted PROVE HeadsFit("restoring", u)'
  <2>1. /\ Baseline(t)' /\ PubFits(t)'
        /\ \A h \in HeadsOf(t.d) :
             t.pub[h] = None \/ h \notin OwnHeads(t) => Unharmed(t, h)' \/ (recovery = TRUE /\ file'[h] = None)
    BY <1>10
  <2>2. Baseline(u)'
    BY <1>4, <2>1 DEF Baseline, Alike, Home, Before, Making, NewManifest, Supersedes
  <2>3. PubFits(u)'
    <3>1. \A h : Content(u, h)' = Content(t, h)'
      BY <1>4 DEF Content, Alike
    <3> QED
      BY <1>4, <1>5, <2>1, <3>1 DEF PubFits, Genuine, OwnHeads
  <2>4. \A h \in HeadsOf(u.d) \ Left(u) : Back(u, h)'
    <3>1. ASSUME NEW h \in HeadsOf(t.d) \ Left(u) PROVE Unharmed(t, h)' \/ (recovery = TRUE /\ file'[h] = None)
      BY <1>6, <2>1
    <3>2. \A h : Making(t) /\ h = DocsetHead(t.d) => Making(u) /\ h = DocsetHead(u.d)
      BY <1>4 DEF Alike, Making
    <3>3. \A h : Same(file'[h], t.orig[h]) => Same(file'[h], u.orig[h])
      BY <1>4 DEF Alike
    <3>4. Making(t)' = Making(t) /\ Making(u)' = Making(u)
      BY DEF Making
    <3> QED
      BY <1>4, <1>5, <2>1, <3>1, <3>2, <3>3, <3>4 DEF Back, Unharmed
  <2> QED
    BY <1>4, <2>2, <2>3, <2>4 DEF HeadsFit, PhaseFits, RestoringFits, Alike, Left
<1> QED
  BY <1>2, <1>9, <1>10, KeepingOn

-----------------------------------------------------------------------------
(* The steps that write no head.                                           *)

LEMMA CoherentIsIn ==
  ASSUME NEW d
  PROVE  Coherent(d) <=> CoherentIn(file, d)
BY DEF Coherent, CoherentIn, PointerOf, Said, Catalog, CatalogOf

LEMMA NothingChanges ==
  ASSUME UNCHANGED <<file, dirs, assets>>, NEW l, NEW t
  PROVE  /\ AtRest => AtRest'
         /\ Baseline(t) => Baseline(t)'
         /\ TypesRoll(t) => TypesRoll(t)'
         /\ TypesFit(l, t) => TypesFit(l, t)'
         /\ PubFits(t) => PubFits(t)'
         /\ \A h : Unharmed(t, h) => Unharmed(t, h)'
         /\ HeadsFit(l, t) => HeadsFit(l, t)'
<1>1. AtRest => AtRest'
  BY DEF AtRest, Coherent, PointerOf, Catalog, Verified
<1>2. Baseline(t) => Baseline(t)'
  BY DEF Baseline, Home, Making, Before, CoherentIn, Verified, NewManifest, Supersedes
<1>3. TypesRoll(t) => TypesRoll(t)'
  BY DEF TypesRoll, Typed, Kind, Catalogs, Entry, Pointer, Manifest
<1>4. TypesFit(l, t) => TypesFit(l, t)'
  BY <1>3 DEF TypesFit, Left
<1>5. \A h : Content(t, h)' = Content(t, h)
  BY DEF Content
<1>6. PubFits(t) => PubFits(t)'
  BY <1>5 DEF PubFits, Genuine, OwnHeads
<1>7. \A h : Unharmed(t, h) => Unharmed(t, h)'
  BY DEF Unharmed, Same, Making
<1>8. \A h : /\ Untouched(t, h) => Untouched(t, h)'
             /\ Written(t, h) => Written(t, h)'
             /\ Back(t, h) => Back(t, h)'
             /\ Finished(t, h) => Finished(t, h)'
  BY <1>5, <1>7 DEF Untouched, Written, Making, Back, Finished, OwnHeads
<1>9. /\ TodoFits(t)' = TodoFits(t) /\ Left(t)' = Left(t) /\ Turn(t)' = Turn(t)
  BY DEF TodoFits, Left, Turn, Making
<1>10. /\ WritingFits(t) => WritingFits(t)'
       /\ RestoringFits(t) => RestoringFits(t)'
       /\ Restored(t) => Restored(t)'
  BY <1>8, <1>9 DEF WritingFits, RestoringFits, Restored, Same
<1>11. PhaseFits(l, t) => PhaseFits(l, t)'
  BY <1>8, <1>9, <1>10 DEF PhaseFits
<1> QED
  BY <1>1, <1>2, <1>3, <1>4, <1>6, <1>7, <1>11 DEF HeadsFit

LEMMA QuietKeeping ==
  ASSUME LineageInv, TypesInv, NEW p \in Procs, \A q \in Procs \ {p} : pc[q] = "idle",
         NEW l, NEW t, Enter(p, l, t), l # "idle", CatalogLock \in locks',
         UNCHANGED <<file, dirs, assets, cleared>>,
         TypesFit(l, t), Trusted => HeadsFit(l, t)
  PROVE  TypesInv' /\ HeadsInv'
<1>1. UNCHANGED <<file, dirs, assets>>
  OBVIOUS
<1>2. DiskTyped'
  BY <1>1, NothingUntyped DEF TypesInv
<1> QED
  BY <1>1, <1>2, NothingChanges, KeepingOn

LEMMA QuietKeepingOut ==
  ASSUME LineageInv, TypesInv, NEW p \in Procs, \A q \in Procs \ {p} : pc[q] = "idle",
         Leave(p), UNCHANGED <<file, dirs, assets, cleared>>,
         Trusted /\ CatalogLock \notin locks' => AtRest
  PROVE  TypesInv' /\ HeadsInv'
<1>1. UNCHANGED <<file, dirs, assets>>
  OBVIOUS
<1>2. DiskTyped'
  BY <1>1, NothingUntyped DEF TypesInv
<1> QED
  BY <1>1, <1>2, NothingChanges, KeepingOut

LEMMA QuietKeepingBack ==
  ASSUME LineageInv, LineageInv', TypesInv, NEW p \in Procs, \A q \in Procs \ {p} : pc[q] = "idle",
         NEW t, NEW recovery \in BOOLEAN, Fail(p, t, recovery),
         CatalogLock \in locks', UNCHANGED <<file, dirs, assets, cleared>>,
         TypesRoll(t), t.orig # None,
         Trusted => /\ Baseline(t) /\ PubFits(t)
                    /\ \A h \in HeadsOf(t.d) :
                         t.pub[h] = None \/ h \notin OwnHeads(t) =>
                           Unharmed(t, h) \/ (recovery = TRUE /\ file[h] = None)
  PROVE  TypesInv' /\ HeadsInv'
<1>1. UNCHANGED <<file, dirs, assets>>
  OBVIOUS
<1>2. DiskTyped'
  BY <1>1, NothingUntyped DEF TypesInv
<1>3. /\ TypesRoll(t)' /\ (Baseline(t) => Baseline(t)') /\ (PubFits(t) => PubFits(t)')
      /\ \A h : Unharmed(t, h) => Unharmed(t, h)'
  BY <1>1, NothingChanges
<1> QED
  BY <1>2, <1>3, FailingKeepsHeads

LEMMA BeginKeepsHeads ==
  ASSUME LineageInv, TypesInv, HeadsInv, NEW p \in Procs, Begin(p)
  PROVE  TypesInv' /\ HeadsInv'
<1>1. /\ CatalogLock \notin locks /\ CatalogLock \in locks'
      /\ UNCHANGED <<file, dirs, assets, cleared>>
  BY DEF Begin, ApproveBegin, RegisterBegin, LockFree
<1>2. (\A q \in Procs : pc[q] = "idle") /\ (Trusted => AtRest)
  BY <1>1 DEF HeadsInv, LineageInv, LockInv, ActiveLocksCatalog
<1>3. dirs \subseteq Docsets
  BY DEF TypesInv, DiskTyped
<1>4. \A op \in {"approve", "register"}, d \in Docsets, title \in Titles \cup {None},
         a \in Assets \cup {None}, r \in Runs \cup {None} :
        LET u == Transaction(op, d, title, a, r) IN
        /\ u \in Transactions(d) /\ u.op = op /\ u.d = d /\ u.title = title /\ u.orig = None /\ u.rooted = FALSE /\ u.raised = FALSE
        /\ \A h \in HeadsOf(d) : u.pub[h] = None
  BY DEF Transaction, Transactions
<1>5. ASSUME NEW op \in {"approve", "register"}, NEW d \in Docsets, NEW title \in Titles \cup {None},
             NEW a \in Assets \cup {None}, NEW r \in Runs \cup {None},
             op = "approve" => d \in dirs, op = "register" => title \in Titles,
             NEW l \in {"locking", "checking"}
      PROVE  LET u == Transaction(op, d, title, a, r) IN
             TypesFit(l, u) /\ (Trusted => HeadsFit(l, u))
  <2>1. PICK u : u = Transaction(op, d, title, a, r)
    OBVIOUS
  <2>2. /\ u \in Transactions(d) /\ u.op = op /\ u.d = d /\ u.title = title /\ u.orig = None /\ u.rooted = FALSE /\ u.raised = FALSE
        /\ \A h \in HeadsOf(d) : u.pub[h] = None
    BY <1>4, <2>1
  <2>3. u # None /\ DocsetHead(d) \in HeadsOf(d)
    BY <2>2, AbsenceAssumption, HeadNames
  <2>4. TypesRoll(u)
    BY <1>5, <2>2, <2>3 DEF TypesRoll
  <2>5. TypesFit(l, u)
    BY <2>2, <2>4 DEF TypesFit, Working, Forward
  <2>6. Trusted => HeadsFit(l, u)
    BY <1>2, <2>2 DEF HeadsFit
  <2> QED
    BY <2>1, <2>5, <2>6
<1>6. CASE ApproveBegin(p)
  <2>1. PICK d \in dirs, a \in Assets, r \in Runs :
          Enter(p, "locking", Transaction("approve", d, None, a, r))
    BY <1>6 DEF ApproveBegin
  <2>2. PICK u : u = Transaction("approve", d, None, a, r)
    OBVIOUS
  <2>3. TypesFit("locking", u) /\ (Trusted => HeadsFit("locking", u))
    BY <1>3, <1>5, <2>2
  <2> QED
    BY <1>1, <1>2, <2>1, <2>2, <2>3, QuietKeeping
<1>7. CASE RegisterBegin(p)
  <2>1. PICK d \in Docsets, title \in Titles :
          Enter(p, "checking", Transaction("register", d, title, None, None))
    BY <1>7 DEF RegisterBegin
  <2>2. PICK u : u = Transaction("register", d, title, None, None)
    OBVIOUS
  <2>3. TypesFit("checking", u) /\ (Trusted => HeadsFit("checking", u))
    BY <1>5, <2>2
  <2> QED
    BY <1>1, <1>2, <2>1, <2>2, <2>3, QuietKeeping
<1> QED
  BY <1>6, <1>7 DEF Begin

LEMMA LockingKeepsHeads ==
  ASSUME LineageInv, LineageInv', TypesInv, HeadsInv, NEW p \in Procs, LockDocset(p) \/ GiveUpLocking(p)
  PROVE  TypesInv' /\ HeadsInv'
<1>1. PICK t : t = txn[p]
  OBVIOUS
<1>2. pc[p] = "locking" /\ UNCHANGED <<file, dirs, assets, cleared>>
  BY DEF LockDocset, GiveUpLocking
<1>3. /\ TypesFit("locking", t) /\ \A q \in Procs \ {p} : pc[q] = "idle"
  BY <1>1, <1>2, Acting
<1>4. CatalogLock \in locks /\ (Trusted => HeadsFit("locking", t))
  BY <1>1, <1>2, Acting
<1>5. TypesFit("checking", t) /\ t.orig = None
  BY <1>3 DEF TypesFit, Working, Forward
<1>6. Trusted => AtRest
  BY <1>4, <1>5 DEF HeadsFit
<1>7. CASE LockDocset(p)
  <2>1. Enter(p, "checking", t) /\ CatalogLock \in locks'
    BY <1>1, <1>4, <1>7, StayingEnters DEF LockDocset, LineageInv
  <2>2. Trusted => HeadsFit("checking", t)
    BY <1>5, <1>6 DEF HeadsFit
  <2> QED
    BY <1>2, <1>3, <1>5, <2>1, <2>2, QuietKeeping
<1>8. CASE GiveUpLocking(p)
  <2>1. Leave(p)
    BY <1>8 DEF GiveUpLocking
  <2> QED
    BY <1>2, <1>3, <1>6, <2>1, QuietKeepingOut
<1> QED
  BY <1>7, <1>8

\* What a transaction captures.
LEMMA Captured ==
  ASSUME LineageInv, DiskTyped, NEW t, t.d \in Docsets
  PROVE  /\ Capture(t) \in Snapshots(t.d) /\ Capture(t) # None
         /\ \A h \in HeadsOf(t.d) : Capture(t)[h] = file[h] /\ Typed(h, file[h])
         /\ \A u : u.orig = Capture(t) /\ u.d = t.d => Before(u) = file
<1>1. HeadsOf(t.d) \subseteq Heads
  BY HeadNames
<1>2. \A h \in HeadsOf(t.d) : Capture(t)[h] = file[h] /\ Typed(h, file[h])
  BY <1>1 DEF Capture, DiskTyped
<1>3. \A h \in HeadsOf(t.d) : file[h] \in File \cup {None}
  BY <1>2, TypedIsFile
<1>4. Capture(t) \in Snapshots(t.d)
  BY <1>3 DEF Capture, Snapshots
<1>5. Capture(t) # None
  BY <1>4, AbsenceAssumption
<1>6. \A u : u.orig = Capture(t) /\ u.d = t.d => Before(u) = file
  <2>1. file = [h \in Heads |-> file[h]]
    BY DEF LineageInv, Stored
  <2>2. \A u : u.orig = Capture(t) /\ u.d = t.d => Before(u) = [h \in Heads |-> file[h]]
    BY <1>2 DEF Before
  <2> QED
    BY <2>1, <2>2
<1> QED
  BY <1>2, <1>4, <1>5, <1>6

\* At rest, every pointer there is names an asset root that is published.
LEMMA PointersVerified ==
  ASSUME LineageInv, DiskTyped, AtRest, NEW d \in Docsets, file[CurrentHead(d)] # None
  PROVE  assets[file[CurrentHead(d)].content.asset] # None
<1>1. d \in dirs
  BY DEF DiskTyped
<1>2. PointerOf(d) = file[CurrentHead(d)].content
  BY DEF PointerOf
<1>3. Typed(CurrentHead(d), file[CurrentHead(d)])
  BY HeadNames DEF DiskTyped
<1>4. PointerOf(d) \in Pointer
  BY <1>2, <1>3, Kinds DEF Typed
<1>5. PointerOf(d) # None /\ PointerOf(d).digest # None
  BY <1>4, AbsenceAssumption DEF Pointer
<1>6. Verified(PointerOf(d))
  BY <1>1 DEF AtRest, Coherent
<1> QED
  BY <1>2, <1>5, <1>6 DEF Verified

LEMMA CheckApprovalKeepsHeads ==
  ASSUME LineageInv, LineageInv', TypesInv, HeadsInv, NEW p \in Procs, CheckApproval(p)
  PROVE  TypesInv' /\ HeadsInv'
<1>1. PICK t : t = txn[p]
  OBVIOUS
<1>2. PICK u : u = [t EXCEPT !.orig = Capture(t), !.title = file[DocsetHead(t.d)].content.title]
  OBVIOUS
<1>3. /\ pc[p] = "checking" /\ t.op = "approve" /\ Coherent(t.d) /\ Enter(p, "staging", u)
      /\ assets[t.asset] = None /\ UNCHANGED <<file, dirs, assets, cleared>> /\ UNCHANGED locks
  BY <1>1, <1>2 DEF CheckApproval, heads
<1>4. /\ TypesFit("checking", t) /\ DiskTyped /\ CatalogLock \in locks
      /\ \A q \in Procs \ {p} : pc[q] = "idle"
  BY <1>1, <1>3, Acting
<1>5. /\ t \in Transactions(t.d) /\ t.d \in Docsets /\ t.orig = None /\ t.rooted = FALSE /\ t.raised = FALSE
      /\ t.d \in dirs /\ \A h \in HeadsOf(t.d) : t.pub[h] = None
  BY <1>3, <1>4 DEF TypesFit, TypesRoll, Forward
<1>6. /\ Capture(t) \in Snapshots(t.d) /\ Capture(t) # None
      /\ \A h \in HeadsOf(t.d) : Capture(t)[h] = file[h] /\ Typed(h, file[h])
      /\ \A x : x.orig = Capture(t) /\ x.d = t.d => Before(x) = file
  BY <1>4, <1>5, Captured
<1>7. file[DocsetHead(t.d)].content.title \in Titles
  <2>1. file[DocsetHead(t.d)] # None
    BY <1>3 DEF Coherent
  <2>2. file[DocsetHead(t.d)].content \in Entry
    BY <1>5, <1>6, <2>1, HeadNames, Kinds DEF Typed
  <2> QED
    BY <2>2 DEF Entry
<1>8. /\ u \in Transactions(t.d) /\ u.op = "approve" /\ u.d = t.d /\ u.asset = t.asset
      /\ u.orig = Capture(t) /\ u.pub = t.pub /\ u.rooted = FALSE /\ u.title \in Titles
      /\ u.raised = FALSE
  BY <1>2, <1>3, <1>5, <1>6, <1>7 DEF Transactions
<1>9. TypesFit("staging", u)
  <2>1. TypesRoll(u)
    BY <1>5, <1>6, <1>8, AbsenceAssumption DEF TypesRoll
  <2> QED
    BY <1>5, <1>6, <1>8, <2>1 DEF TypesFit, Working, Forward
<1>10. ASSUME Trusted PROVE HeadsFit("staging", u)
  <2>1. AtRest
    BY <1>1, <1>3, <1>5, <1>10, Acting DEF HeadsFit
  <2>2. Before(u) = file
    BY <1>6, <1>8
  <2>3. \A d \in Home(u) : CoherentIn(Before(u), d)
    BY <1>8, <2>1, <2>2, CoherentIsIn DEF AtRest, Home, Making
  <2>4. \A d \in Docsets : file[CurrentHead(d)] # None => file[CurrentHead(d)].content.asset # t.asset
    BY <1>3, <1>4, <2>1, PointersVerified
  <2>5. Baseline(u)
    BY <1>8, <2>2, <2>3, <2>4 DEF Baseline
  <2>6. PubFits(u)
    BY <1>5, <1>8, OwnHeadsAreHeads DEF PubFits, Genuine
  <2>7. \A h \in HeadsOf(u.d) : Untouched(u, h)
    BY <1>5, <1>6, <1>8 DEF Untouched
  <2> QED
    BY <1>6, <1>8, <2>5, <2>6, <2>7 DEF HeadsFit, PhaseFits
<1> QED
  BY <1>3, <1>4, <1>9, <1>10, QuietKeeping

LEMMA CheckRegistrationKeepsHeads ==
  ASSUME LineageInv, LineageInv', TypesInv, HeadsInv, NEW p \in Procs, CheckRegistration(p)
  PROVE  TypesInv' /\ HeadsInv'
<1>1. PICK t : t = txn[p]
  OBVIOUS
<1>2. PICK asset : asset = IF file[DocsetHead(t.d)] = None THEN None
                           ELSE file[DocsetHead(t.d)].content.asset
  OBVIOUS
<1>3. PICK c : c = [t EXCEPT !.orig = Capture(t), !.asset = asset]
  OBVIOUS
<1>4. PICK w : w = [c EXCEPT !.todo = <<DocsetHead(t.d), CatalogHead>>]
  OBVIOUS
<1>5. /\ pc[p] = "checking" /\ t.op = "register"
      /\ IF t.d \in dirs THEN Enter(p, "writing", w) ELSE Enter(p, "staging", c)
      /\ UNCHANGED <<file, dirs, assets, cleared>> /\ UNCHANGED locks
  BY <1>1, <1>2, <1>3, <1>4 DEF CheckRegistration, heads
<1>6. /\ TypesFit("checking", t) /\ DiskTyped /\ CatalogLock \in locks
      /\ \A q \in Procs \ {p} : pc[q] = "idle"
  BY <1>1, <1>5, Acting
<1>7. /\ t \in Transactions(t.d) /\ t.d \in Docsets /\ t.orig = None /\ t.rooted = FALSE /\ t.raised = FALSE
      /\ t.title \in Titles /\ \A h \in HeadsOf(t.d) : t.pub[h] = None
  BY <1>5, <1>6 DEF TypesFit, TypesRoll, Forward
<1>8. /\ Capture(t) \in Snapshots(t.d) /\ Capture(t) # None
      /\ \A h \in HeadsOf(t.d) : Capture(t)[h] = file[h] /\ Typed(h, file[h])
      /\ \A x : x.orig = Capture(t) /\ x.d = t.d => Before(x) = file
  BY <1>6, <1>7, Captured
<1>9. /\ DocsetHead(t.d) \in HeadsOf(t.d) /\ CatalogHead \in HeadsOf(t.d) /\ HeadsOf(t.d) \subseteq Heads
      /\ DocsetHead(t.d) # CatalogHead
  BY <1>7, HeadNames
<1>10. asset \in Assets \cup {None}
  <2>1. CASE file[DocsetHead(t.d)] # None
    <3>1. file[DocsetHead(t.d)].content \in Entry
      BY <1>7, <1>8, <1>9, <2>1, Kinds DEF Typed
    <3> QED
      BY <1>2, <2>1, <3>1 DEF Entry
  <2> QED
    BY <1>2, <2>1
<1>11. \A u \in {c, w} :
         /\ u \in Transactions(t.d) /\ u.op = "register" /\ u.d = t.d /\ u.asset = asset
         /\ u.orig = Capture(t) /\ u.pub = t.pub /\ u.rooted = FALSE /\ u.title = t.title
         /\ u.raised = FALSE
  <2>1. <<DocsetHead(t.d), CatalogHead>> \in Seq(Heads)
    BY <1>9
  <2>2. /\ c \in Transactions(t.d) /\ c.op = "register" /\ c.d = t.d /\ c.asset = asset
        /\ c.orig = Capture(t) /\ c.pub = t.pub /\ c.rooted = FALSE /\ c.title = t.title
        /\ c.raised = FALSE
    BY <1>3, <1>5, <1>7, <1>8, <1>10 DEF Transactions
  <2>3. /\ w \in Transactions(t.d) /\ w.op = "register" /\ w.d = t.d /\ w.asset = asset
        /\ w.orig = Capture(t) /\ w.pub = t.pub /\ w.rooted = FALSE /\ w.title = t.title
        /\ w.raised = FALSE
    BY <1>4, <2>1, <2>2 DEF Transactions
  <2> QED
    BY <2>2, <2>3
<1>12. w.todo = <<DocsetHead(t.d), CatalogHead>>
  BY <1>4, <1>11 DEF Transactions
<1>13. \A u \in {c, w} : TypesRoll(u)
  BY <1>7, <1>8, <1>9, <1>11, AbsenceAssumption DEF TypesRoll
<1>14. TypesFit("staging", c) /\ (t.d \in dirs => TypesFit("writing", w))
  BY <1>7, <1>8, <1>11, <1>13 DEF TypesFit, Working, Forward
<1>15. ASSUME Trusted
       PROVE  HeadsFit("staging", c) /\ HeadsFit("writing", w)
  <2>1. AtRest
    BY <1>1, <1>5, <1>7, <1>15, Acting DEF HeadsFit
  <2>2. \A u \in {c, w} : Before(u) = file
    BY <1>8, <1>11
  <2>3. \A u \in {c, w} : \A d \in Home(u) : CoherentIn(Before(u), d)
    BY <1>11, <2>1, <2>2, CoherentIsIn DEF AtRest, Home, Making
  <2>4. \A u \in {c, w} : Baseline(u)
    BY <1>2, <1>8, <1>9, <1>11, <2>3 DEF Baseline, Making
  <2>5. \A u \in {c, w} : PubFits(u)
    BY <1>7, <1>11, OwnHeadsAreHeads DEF PubFits, Genuine
  <2>6. \A u \in {c, w} : \A h \in HeadsOf(u.d) : Untouched(u, h)
    BY <1>7, <1>8, <1>11 DEF Untouched
  <2>7. Left(w) = {DocsetHead(w.d), CatalogHead} /\ Turn(w) = DocsetHead(w.d)
    BY <1>11, <1>12 DEF Left, Elems, Turn
  <2>8. WritingFits(w)
    <3>1. TodoFits(w)
      BY <1>11, <1>12 DEF TodoFits, Making
    <3>2. \A h \in HeadsOf(w.d) \ Left(w) : h \notin OwnHeads(w)
      BY <1>11, <2>7 DEF OwnHeads
    <3>3. Left(w) \subseteq HeadsOf(w.d)
      BY <1>9, <1>11, <2>7
    <3> QED
      BY <2>6, <3>1, <3>2, <3>3 DEF WritingFits, Finished
  <2> QED
    BY <1>8, <1>9, <1>11, <2>4, <2>5, <2>6, <2>7, <2>8 DEF HeadsFit, PhaseFits
<1>16. CASE t.d \in dirs
  BY <1>5, <1>6, <1>14, <1>15, <1>16, QuietKeeping
<1>17. CASE t.d \notin dirs
  BY <1>5, <1>6, <1>14, <1>15, <1>17, QuietKeeping
<1> QED
  BY <1>16, <1>17

LEMMA RefuseKeepsHeads ==
  ASSUME LineageInv, LineageInv', TypesInv, HeadsInv, NEW p \in Procs, Refuse(p)
  PROVE  TypesInv' /\ HeadsInv'
<1>1. PICK t : t = txn[p]
  OBVIOUS
<1>2. PICK u : u = [t EXCEPT !.raised = TRUE]
  OBVIOUS
<1>3. /\ pc[p] = "checking" /\ Enter(p, "unlocking", u)
      /\ UNCHANGED <<file, dirs, assets, cleared>> /\ UNCHANGED locks
  BY <1>1, <1>2 DEF Refuse, heads
<1>4. /\ TypesFit("checking", t) /\ CatalogLock \in locks
      /\ \A q \in Procs \ {p} : pc[q] = "idle"
  BY <1>1, <1>3, Acting
<1>5. TypesRoll(t) /\ t \in Transactions(t.d) /\ t.orig = None
  BY <1>4 DEF TypesFit, TypesRoll
<1>6. /\ u \in Transactions(t.d) /\ u.op = t.op /\ u.d = t.d /\ u.asset = t.asset
      /\ u.orig = None /\ u.pub = t.pub /\ u.rooted = t.rooted /\ u.title = t.title
  BY <1>2, <1>5 DEF Transactions
<1>7. TypesRoll(u)
  BY <1>5, <1>6, AbsenceAssumption DEF TypesRoll
<1>8. TypesFit("unlocking", u)
  BY <1>4, <1>6, <1>7 DEF TypesFit, Working, Forward
<1>9. Trusted => HeadsFit("unlocking", u)
  <2>1. Trusted => HeadsFit("checking", t)
    BY <1>1, <1>3, Acting
  <2> QED
    BY <1>5, <1>6, <2>1 DEF HeadsFit
<1> QED
  BY <1>3, <1>4, <1>8, <1>9, QuietKeeping

LEMMA StageFailsKeepsHeads ==
  ASSUME LineageInv, LineageInv', TypesInv, HeadsInv, NEW p \in Procs, StageFails(p)
  PROVE  TypesInv' /\ HeadsInv'
<1>1. PICK t : t = txn[p]
  OBVIOUS
<1>2. pc[p] = "staging" /\ UNCHANGED <<file, dirs, assets, cleared>> /\ UNCHANGED locks
  BY DEF StageFails, heads
<1>3. PICK recovery \in BOOLEAN : Fail(p, t, recovery)
  BY <1>1 DEF StageFails
<1>4. /\ TypesFit("staging", t) /\ CatalogLock \in locks
      /\ \A q \in Procs \ {p} : pc[q] = "idle"
  BY <1>1, <1>2, Acting
<1>5. TypesRoll(t) /\ t.orig # None
  BY <1>4 DEF TypesFit
<1>6. ASSUME Trusted
      PROVE  Baseline(t) /\ PubFits(t) /\ \A h \in HeadsOf(t.d) : Unharmed(t, h)
  <2>1. HeadsFit("staging", t)
    BY <1>1, <1>2, <1>6, Acting
  <2> QED
    BY <1>5, <2>1 DEF HeadsFit, PhaseFits, Untouched, Unharmed, Same
<1> QED
  BY <1>2, <1>3, <1>4, <1>5, <1>6, QuietKeepingBack

\* An approval publishes its asset root, which no head names yet.
LEMMA AssetPublished ==
  ASSUME LineageInv, DiskTyped, NEW t, NEW u, ApprovalFits("staging", t), TypesFit("staging", t),
         t.op = "approve", assets[t.asset] = None, assets' = [assets EXCEPT ![t.asset] = NewManifest(u)],
         UNCHANGED <<file, dirs>>,
         u \in Transactions(t.d), u.op = t.op, u.d = t.d, u.title = t.title, u.asset = t.asset,
         u.run = t.run, u.orig = t.orig, u.pub = t.pub, u.raised = t.raised, u.rooted = TRUE, u.todo = WriteOrder(t)
  PROVE  /\ DiskTyped' /\ TypesFit("writing", u)'
         /\ HeadsFit("staging", t) => /\ HeadsFit("writing", u)'
                                      /\ Baseline(u)' /\ PubFits(u)'
                                      /\ \A h \in HeadsOf(u.d) : Unharmed(u, h)'
<1>1. /\ t.asset \in Assets /\ t.run \in Runs /\ RootOf(t.d, Supersedes(t))
      /\ TypesRoll(t) /\ t.d \in Docsets /\ t.d \in dirs /\ t.orig # None
      /\ \A h \in HeadsOf(t.d) : t.pub[h] = None
  BY DEF ApprovalFits, TypesFit, TypesRoll
<1>2. PICK m : m = NewManifest(u)
  OBVIOUS
<1>3. m \in Manifest /\ m.docset = t.d
  BY <1>1, <1>2 DEF NewManifest, Manifest, RootOf, Supersedes
<1>4. assets'[t.asset] = m /\ \A a \in Assets \ {t.asset} : assets'[a] = assets[a]
  BY <1>1, <1>2 DEF DiskTyped
<1>5. DiskTyped'
  <2>1. assets' \in [Assets -> Manifest \cup {None}]
    BY <1>2, <1>3 DEF DiskTyped
  <2>2. \A a \in Assets : assets'[a] # None => assets'[a].docset \in dirs'
    BY <1>1, <1>3, <1>4 DEF DiskTyped
  <2> QED
    BY <2>1, <2>2 DEF DiskTyped, Typed
<1>6. TypesRoll(u)'
  BY <1>1, AbsenceAssumption DEF TypesRoll, Typed
<1>7. TypesFit("writing", u)'
  BY <1>1, <1>6 DEF TypesFit, Forward
<1>8. u.todo = <<DocsetHead(u.d), CatalogHead, CurrentHead(u.d)>>
  BY DEF WriteOrder
<1>9. Left(u) = HeadsOf(u.d) /\ Turn(u) \in HeadsOf(u.d)
  BY <1>8 DEF Left, Elems, Turn, HeadsOf
<1>10. ASSUME HeadsFit("staging", t)
       PROVE  HeadsFit("writing", u)' /\ Baseline(u)' /\ PubFits(u)' /\ \A h \in HeadsOf(u.d) : Unharmed(u, h)'
  <2>1. Baseline(t) /\ \A h \in HeadsOf(t.d) : Untouched(t, h)
    BY <1>1, <1>10 DEF HeadsFit, PhaseFits
  <2>2. PICK F : F = Before(t)
    OBVIOUS
  <2>3. Before(u)' = F
    BY <2>2 DEF Before
  <2>4. \A d \in Docsets : F[CurrentHead(d)] # None => F[CurrentHead(d)].content.asset # t.asset
    BY <2>1, <2>2 DEF Baseline
  <2>5. ASSUME NEW d \in dirs
        PROVE  CoherentIn(Before(u), d)'
    <3>1. CoherentIn(F, d) /\ d \in Docsets
      BY <2>1, <2>2 DEF Baseline, Home, Making, DiskTyped
    <3>2. Verified(Said(F[CurrentHead(d)]))'
      <4>1. CASE Said(F[CurrentHead(d)]) = None
        BY <4>1 DEF Verified
      <4>2. CASE Said(F[CurrentHead(d)]) # None
        <5>1. /\ F[CurrentHead(d)] # None /\ Said(F[CurrentHead(d)]) = F[CurrentHead(d)].content
          BY <4>2 DEF Said
        <5>2. Said(F[CurrentHead(d)]).asset # t.asset
          BY <2>4, <3>1, <5>1
        <5>3. assets'[Said(F[CurrentHead(d)]).asset] = assets[Said(F[CurrentHead(d)]).asset]
          BY <5>2 DEF DiskTyped
        <5> QED
          BY <3>1, <4>2, <5>3 DEF CoherentIn, Verified
      <4> QED
        BY <4>1, <4>2
    <3> QED
      BY <2>3, <3>1, <3>2 DEF CoherentIn
  <2>6. Baseline(u)'
    BY <1>2, <1>4, <2>3, <2>4, <2>5 DEF Baseline, Home, Making, NewManifest, Supersedes
  <2>7. PubFits(u)'
    BY <1>1, OwnHeadsAreHeads DEF PubFits, Genuine
  <2>8. \A h \in HeadsOf(u.d) : Untouched(u, h)' /\ Unharmed(u, h)'
    BY <1>1, <2>1 DEF Untouched, Unharmed, Same
  <2>9. WritingFits(u)'
    <3>1. TodoFits(u)'
      BY <1>8 DEF TodoFits
    <3>2. \A h \in Left(u)' \ {Turn(u)'} : Untouched(u, h)'
      BY <1>9, <2>8 DEF Left, Turn
    <3>3. HeadsOf(u.d) \ Left(u)' = {}
      BY <1>9 DEF Left
    <3> QED
      BY <3>1, <3>2, <3>3 DEF WritingFits
  <2>10. Untouched(u, Turn(u))'
    BY <1>9, <2>8 DEF Untouched, Turn
  <2> QED
    BY <1>1, <2>6, <2>7, <2>8, <2>9, <2>10 DEF HeadsFit, PhaseFits
<1> QED
  BY <1>5, <1>7, <1>10

\* A registration publishes its docset directory, with docset.json inside.
LEMMA DirectoryPublished ==
  ASSUME LineageInv, DiskTyped, NEW t, NEW u, TypesFit("staging", t),
         t.op = "register", t.d \notin dirs, NEW n \in Nat,
         file' = [file EXCEPT ![DocsetHead(t.d)] =
                    [content |-> [title |-> t.title, asset |-> t.asset], inode |-> n]],
         dirs' = dirs \cup {t.d}, UNCHANGED assets,
         u \in Transactions(t.d), u.op = t.op, u.d = t.d, u.title = t.title, u.asset = t.asset,
         u.run = t.run, u.orig = t.orig, u.pub = t.pub, u.raised = t.raised, u.rooted = TRUE, u.todo = WriteOrder(t)
  PROVE  /\ DiskTyped' /\ TypesFit("writing", u)'
         /\ HeadsFit("staging", t) => /\ HeadsFit("writing", u)'
                                      /\ Baseline(u)' /\ PubFits(u)'
                                      /\ \A h \in HeadsOf(u.d) : Unharmed(u, h)'
<1> DEFINE entry == [title |-> t.title, asset |-> t.asset]
<1>1. /\ TypesRoll(t) /\ t.d \in Docsets /\ t.orig # None /\ t.title \in Titles
      /\ t.asset \in Assets \cup {None} /\ \A h \in HeadsOf(t.d) : t.pub[h] = None
  BY DEF TypesFit, TypesRoll, Transactions
<1>2. PICK s, c, k : s = DocsetHead(t.d) /\ c = CurrentHead(t.d) /\ k = CatalogHead
  OBVIOUS
<1>3. /\ HeadsOf(t.d) = {s, c, k} /\ HeadsOf(t.d) \subseteq Heads
      /\ s # c /\ s # k /\ c # k /\ OwnHeads(t) = {s, k}
  BY <1>1, <1>2, HeadNames DEF HeadsOf, OwnHeads
<1>4. PICK f : f = [content |-> entry, inode |-> n]
  OBVIOUS
<1>5. entry \in Kind(s)
  BY <1>1, <1>2, Kinds DEF Entry
<1>6. Typed(s, f) /\ f # None
  BY <1>4, <1>5, NewFileTyped
<1>7. file'[s] = f /\ \A g \in Heads \ {s} : file'[g] = file[g]
  BY <1>2, <1>3, <1>4 DEF LineageInv, Stored
<1>8. file[s] = None /\ file[c] = None /\ \A a \in Assets : assets[a] # None => assets[a].docset # t.d
  BY <1>1, <1>2 DEF DiskTyped
<1>9. DiskTyped'
  <2>1. \A h \in Heads : Typed(h, file'[h])
    BY <1>6, <1>7 DEF DiskTyped
  <2>2. \A d \in Docsets \ dirs' : file'[DocsetHead(d)] = None /\ file'[CurrentHead(d)] = None
    <3>1. ASSUME NEW d \in Docsets \ dirs'
          PROVE  DocsetHead(d) \in Heads \ {s} /\ CurrentHead(d) \in Heads \ {s}
      BY <1>2 DEF Heads, DocsetHead, CurrentHead
    <3> QED
      BY <1>7, <3>1 DEF DiskTyped
  <2> QED
    BY <1>1, <2>1, <2>2 DEF DiskTyped, Typed
<1>10. TypesRoll(u)'
  <2>1. file'[c] = None
    BY <1>3, <1>7, <1>8
  <2> QED
    BY <1>1, <1>2, <1>3, <1>8, <2>1, AbsenceAssumption DEF TypesRoll, Typed
<1>11. u.todo = <<k>>
  BY <1>2 DEF WriteOrder
<1>12. Left(u) = {k} /\ Turn(u) = k
  BY <1>11 DEF Left, Elems, Turn
<1>13. TypesFit("writing", u)'
  <2>1. DocsetHead(u.d) \notin Left(u)
    BY <1>2, <1>3, <1>12
  <2> QED
    BY <1>1, <1>10, <2>1 DEF TypesFit, Left, Forward
<1>14. ASSUME HeadsFit("staging", t)
       PROVE  HeadsFit("writing", u)' /\ Baseline(u)' /\ PubFits(u)' /\ \A h \in HeadsOf(u.d) : Unharmed(u, h)'
  <2>1. Baseline(t) /\ \A h \in HeadsOf(t.d) : Untouched(t, h)
    BY <1>1, <1>14 DEF HeadsFit, PhaseFits
  <2>2. PICK F : F = Before(t)
    OBVIOUS
  <2>3. Before(u)' = F
    BY <1>3, <1>7, <2>2, BeforeStays
  <2>4. Home(t) = dirs /\ Home(u)' = dirs /\ Making(u)
    BY DEF Home, Making, TypesFit
  <2>5. ASSUME NEW d \in dirs PROVE CoherentIn(Before(u), d)'
    <3>1. CoherentIn(F, d)
      BY <2>1, <2>2, <2>4 DEF Baseline
    <3> QED
      BY <2>3, <3>1 DEF CoherentIn, Verified
  <2>6. t.orig[s] = None /\ t.orig[c] = None
    BY <1>3, <1>8, <2>1 DEF Untouched
  <2>7. Baseline(u)'
    BY <1>2, <2>1, <2>4, <2>5, <2>6 DEF Baseline
  <2>8. PubFits(u)'
    BY <1>1, OwnHeadsAreHeads DEF PubFits, Genuine
  <2>9. Untouched(u, c)' /\ Untouched(u, k)'
    BY <1>1, <1>3, <1>7, <2>1 DEF Untouched
  <2>10. Making(u)'
    BY <2>4 DEF Making
  <2>11. \A h \in HeadsOf(u.d) : Unharmed(u, h)'
    BY <1>2, <1>3, <2>9, <2>10 DEF Unharmed, Untouched, Same
  <2>12. Finished(u, s)'
    <3>1. Content(u, s)' = entry
      <4>1. Content(u, s) = entry
        BY <1>1, <1>2, ContentIs
      <4>2. Content(u, s)' = Content(u, s)
        BY DEF Content
      <4> QED
        BY <4>1, <4>2
    <3>2. Written(u, s)'
      BY <1>2, <1>4, <1>6, <1>7, <2>10, <3>1 DEF Written
    <3> QED
      BY <1>2, <1>3, <3>2 DEF Finished, OwnHeads
  <2>13. Finished(u, c)'
    BY <1>2, <1>3, <2>9 DEF Finished, OwnHeads
  <2>14. WritingFits(u)'
    <3>1. TodoFits(u)'
      BY <1>2, <1>11 DEF TodoFits
    <3>2. \A h \in Left(u)' \ {Turn(u)'} : Untouched(u, h)'
      BY <1>12 DEF Left, Turn
    <3>3. \A h \in HeadsOf(u.d) \ Left(u)' : h = s \/ h = c
      BY <1>3, <1>12 DEF Left
    <3> QED
      BY <2>12, <2>13, <3>1, <3>2, <3>3 DEF WritingFits
  <2>15. Untouched(u, Turn(u))'
    BY <1>12, <2>9 DEF Turn, Untouched
  <2> QED
    BY <1>1, <2>7, <2>8, <2>11, <2>14, <2>15 DEF HeadsFit, PhaseFits
<1> QED
  BY <1>9, <1>13, <1>14

LEMMA PublishRootKeepsHeads ==
  ASSUME LineageInv, LineageInv', TypesInv, HeadsInv, NEW p \in Procs, PublishRoot(p)
  PROVE  TypesInv' /\ HeadsInv'
<1>1. PICK t : t = txn[p]
  OBVIOUS
<1>2. PICK u : u = [t EXCEPT !.rooted = TRUE, !.todo = WriteOrder(t)]
  OBVIOUS
<1>3. pc[p] = "staging" /\ UNCHANGED <<cleared, locks>> /\ (Enter(p, "writing", u) \/ Fail(p, u, FALSE))
  BY <1>1, <1>2 DEF PublishRoot
<1>4. /\ TxnFits("staging", t) /\ TypesFit("staging", t) /\ DiskTyped
      /\ CatalogLock \in locks /\ \A q \in Procs \ {p} : pc[q] = "idle"
  BY <1>1, <1>3, Acting
<1>5. Trusted => HeadsFit("staging", t)
  BY <1>1, <1>3, Acting
<1>6. t \in Transactions(t.d) /\ t.d \in Docsets /\ t.orig # None
  BY <1>4 DEF TypesFit, TypesRoll
<1>7. HeadsOf(t.d) \subseteq Heads /\ DocsetHead(t.d) \in HeadsOf(t.d)
  BY <1>6, HeadNames
<1>8. WriteOrder(t) \in Seq(Heads)
  BY <1>7 DEF WriteOrder, HeadsOf
<1>9. /\ u \in Transactions(t.d) /\ u.op = t.op /\ u.d = t.d /\ u.title = t.title
      /\ u.asset = t.asset /\ u.run = t.run /\ u.orig = t.orig /\ u.pub = t.pub
      /\ u.rooted = TRUE /\ u.todo = WriteOrder(t) /\ u.raised = t.raised
  BY <1>2, <1>6, <1>8 DEF Transactions
<1>10. /\ DiskTyped' /\ TypesFit("writing", u)'
       /\ HeadsFit("staging", t) => /\ HeadsFit("writing", u)' /\ Baseline(u)' /\ PubFits(u)'
                                    /\ \A h \in HeadsOf(u.d) : Unharmed(u, h)'
  <2>1. CASE t.op = "approve"
    <3>1. /\ assets[t.asset] = None /\ UNCHANGED <<file, dirs>>
          /\ assets' = [assets EXCEPT ![t.asset] = NewManifest(u)]
      BY <1>1, <1>2, <1>9, <2>1 DEF PublishRoot
    <3>2. ApprovalFits("staging", t)
      BY <1>4, <2>1 DEF TxnFits
    <3> QED
      BY <1>4, <1>9, <2>1, <3>1, <3>2, AssetPublished
  <2>2. CASE t.op = "register"
    <3>1. PICK n : n = Fresh(DocsetHead(t.d))
      OBVIOUS
    <3>2. n \in Nat
      <4>1. pc[p] # "idle" /\ DocsetHead(t.d) \in HeadsOf(txn[p].d)
        BY <1>1, <1>3, <1>7
      <4> QED
        BY <3>1, <4>1, FreshIsNew DEF LineageInv
    <3>3. /\ t.d \notin dirs /\ dirs' = dirs \cup {t.d} /\ UNCHANGED assets
          /\ file' = [file EXCEPT ![DocsetHead(t.d)] =
                        [content |-> [title |-> t.title, asset |-> t.asset], inode |-> n]]
      BY <1>1, <1>2, <1>9, <2>2, <3>1 DEF PublishRoot, NewFile
    <3> QED
      BY <1>4, <1>9, <2>2, <3>2, <3>3, DirectoryPublished
  <2> QED
    BY <1>6, <2>1, <2>2 DEF Transactions
<1>11. CASE Enter(p, "writing", u)
  BY <1>3, <1>4, <1>5, <1>10, <1>11, KeepingOn
<1>12. CASE Fail(p, u, FALSE)
  <2>1. TypesRoll(u)' /\ u.orig # None
    BY <1>6, <1>9, <1>10 DEF TypesFit
  <2> QED
    BY <1>3, <1>4, <1>5, <1>10, <1>12, <2>1, FailingKeepsHeads
<1> QED
  BY <1>3, <1>11, <1>12

-----------------------------------------------------------------------------
(* Writing a head.                                                         *)

\* The head in turn is a head of the transaction, and one that may be written.
LEMMA InTurn ==
  ASSUME NEW l \in Working, NEW t, TxnFits(l, t), TypesFit(l, t), t.todo # <<>>, l # "staging"
  PROVE  /\ TypesRoll(t) /\ t.d \in Docsets /\ t.orig # None
         /\ HeadsOf(t.d) \subseteq Heads /\ OwnHeads(t) \subseteq HeadsOf(t.d)
         /\ Turn(t) \in OwnHeads(t) /\ Turn(t) \in HeadsOf(t.d) /\ Turn(t) \in Heads
         /\ Turn(t) \in Left(t) /\ Typed(Turn(t), t.orig[Turn(t)])
         /\ t.op = "register" /\ (t.d \notin dirs \/ t.rooted = TRUE) => Turn(t) # DocsetHead(t.d)
         /\ \A d \in Docsets \ dirs : Turn(t) \notin {DocsetHead(d), CurrentHead(d)}
<1>1. TypesRoll(t) /\ t.d \in Docsets /\ t.orig # None
  BY DEF TypesFit, TypesRoll, Working
<1>2. Turn(t) \in OwnHeads(t) /\ Turn(t) \in Left(t)
  BY ElemsOfTail DEF TxnFits, Left, Turn
<1>3. HeadsOf(t.d) \subseteq Heads /\ OwnHeads(t) \subseteq HeadsOf(t.d)
  BY <1>1, HeadNames, OwnHeadsAreHeads
<1>4. Typed(Turn(t), t.orig[Turn(t)])
  BY <1>1, <1>2, <1>3 DEF TypesRoll
<1>5. t.op = "register" /\ (t.d \notin dirs \/ t.rooted = TRUE) => Turn(t) # DocsetHead(t.d)
  BY <1>2 DEF TypesFit
<1>6. ASSUME NEW d \in Docsets \ dirs PROVE Turn(t) \notin {DocsetHead(d), CurrentHead(d)}
  <2>1. CASE t.op = "approve"
    <3>1. d # t.d
      BY <1>1, <1>6, <2>1 DEF TypesRoll
    <3> QED
      BY <1>2, <1>3, <3>1 DEF HeadsOf, DocsetHead, CurrentHead, CatalogHead
  <2>2. CASE t.op # "approve"
    <3>1. t.op = "register" /\ Turn(t) \in {DocsetHead(t.d), CatalogHead}
      BY <1>1, <1>2, <2>2 DEF OwnHeads, TypesRoll, Transactions
    <3>2. Turn(t) = DocsetHead(t.d) => d # t.d
      BY <1>5, <1>6, <3>1
    <3> QED
      BY <3>1, <3>2 DEF DocsetHead, CurrentHead, CatalogHead
  <2> QED
    BY <2>1, <2>2
<1> QED
  BY <1>1, <1>2, <1>3, <1>4, <1>5, <1>6

LEMMA OneHeadIs ==
  ASSUME LineageInv, NEW h \in Heads, NEW f, file' = [file EXCEPT ![h] = f]
  PROVE  file'[h] = f /\ \A g \in Heads \ {h} : file'[g] = file[g]
BY DEF LineageInv, Stored

\* What writing the head in turn leaves as it was.
LEMMA TurnWritten ==
  ASSUME LineageInv, DiskTyped, NEW l \in Working, NEW t, TxnFits(l, t), TypesFit(l, t),
         t.todo # <<>>, l # "staging",
         NEW h, h = Turn(t), NEW f, Typed(h, f), file' = [file EXCEPT ![h] = f],
         UNCHANGED <<dirs, assets>>, NEW u, Alike(t, u), u \in Transactions(t.d),
         \A g \in HeadsOf(t.d) \ {h} : u.pub[g] = t.pub[g]
  PROVE  /\ DiskTyped' /\ TypesRoll(u)' /\ u.orig # None
         /\ Baseline(t) => Baseline(u)'
         /\ PubFits(t) /\ Genuine(u, h, f) => PubFits(u)'
<1>1. /\ TypesRoll(t) /\ t.d \in Docsets /\ t.orig # None
      /\ h \in OwnHeads(t) /\ h \in HeadsOf(t.d) /\ h \in Heads /\ HeadsOf(t.d) \subseteq Heads
      /\ t.op = "register" /\ (t.d \notin dirs \/ t.rooted = TRUE) => h # DocsetHead(t.d)
      /\ \A d \in Docsets \ dirs : h \notin {DocsetHead(d), CurrentHead(d)}
  BY InTurn
<1>2. DiskTyped' /\ file'[h] = f /\ \A g \in Heads \ {h} : file'[g] = file[g]
  BY <1>1, OneHeadTyped
<1>3. TypesRoll(u)'
  <2>1. t.op = "register" /\ (t.d \notin dirs \/ t.rooted = TRUE) =>
          u.pub[DocsetHead(t.d)] = t.pub[DocsetHead(t.d)]
    BY <1>1, HeadNames
  <2> QED
    BY <1>1, <1>2, <2>1, TypesRollStays
<1>4. Baseline(t) => Baseline(u)'
  BY <1>1, <1>2, BaselineStays
<1>5. ASSUME PubFits(t), Genuine(u, h, f)
      PROVE  PubFits(u)'
  <2>1. UNCHANGED assets
    OBVIOUS
  <2>2. Genuine(u, h, file'[h])
    BY <1>2, <1>5
  <2> QED
    BY <1>1, <1>2, <1>5, <2>1, <2>2, PubFitsStays
<1> QED
  BY <1>1, <1>2, <1>3, <1>4, <1>5 DEF Alike

LEMMA WritingStays ==
  ASSUME NEW t, NEW u, Alike(t, u), u.todo = t.todo, UNCHANGED assets, t.d \in Docsets,
         HeadsOf(t.d) \subseteq Heads, NEW h, h = Turn(t), h \in Left(t),
         Left(t) \subseteq HeadsOf(t.d),
         \A g \in Heads \ {h} : file'[g] = file[g],
         \A g \in HeadsOf(t.d) \ {h} : u.pub[g] = t.pub[g], WritingFits(t)
  PROVE  WritingFits(u)'
<1>1. HeadsOf(u.d) = HeadsOf(t.d) /\ Making(u) = Making(t)
  BY AlikeSame
<1>2. Left(u)' = Left(t) /\ Turn(u)' = h
  BY DEF Left, Turn
<1>3. TodoFits(u)'
  <2>1. TodoFits(t)
    BY DEF WritingFits
  <2>2. TodoFits(u)
    BY <1>1, <2>1 DEF TodoFits, Alike
  <2> QED
    BY <2>2 DEF TodoFits, Making
<1>4. ASSUME NEW g \in HeadsOf(t.d) \ {h}
      PROVE  /\ Untouched(t, g) => Untouched(u, g)'
             /\ Finished(t, g) => Finished(u, g)'
  <2>1. file'[g] = file[g] /\ u.pub[g] = t.pub[g] /\ UNCHANGED assets /\ g \in HeadsOf(t.d)
    BY <1>4
  <2> QED
    BY <2>1, HeadStays
<1>5. \A g \in Left(t) \ {h} : Untouched(u, g)'
  BY <1>4 DEF WritingFits
<1>6. \A g \in HeadsOf(t.d) \ Left(t) : Finished(u, g)'
  BY <1>4 DEF WritingFits
<1> QED
  BY <1>1, <1>2, <1>3, <1>5, <1>6 DEF WritingFits

\* A transaction that fails while it writes has to take back what it published.
LEMMA WritingUnharmed ==
  ASSUME NEW t, WritingFits(t), NEW g \in HeadsOf(t.d) \ {Turn(t)},
         t.pub[g] = None \/ g \notin OwnHeads(t)
  PROVE  Unharmed(t, g)
<1>1. CASE g \in Left(t)
  BY <1>1 DEF WritingFits, Untouched, Unharmed, Same
<1>2. CASE g \notin Left(t)
  <2>1. Finished(t, g)
    BY <1>2 DEF WritingFits
  <2> QED
    BY <2>1 DEF Finished, Written, Untouched, Unharmed, Same
<1> QED
  BY <1>1, <1>2

LEMMA LeftAreHeads ==
  ASSUME NEW l, NEW t, TxnFits(l, t)
  PROVE  Left(t) \subseteq OwnHeads(t) /\ Left(t) \subseteq HeadsOf(t.d)
<1>1. t.todo \in Seq(OwnHeads(t)) /\ t.d \in Docsets
  BY DEF TxnFits
<1>2. Left(t) \subseteq OwnHeads(t)
  BY <1>1 DEF Left, Elems
<1> QED
  BY <1>1, <1>2, OwnHeadsAreHeads

LEMMA MoveHeadKeepsHeads ==
  ASSUME LineageInv, LineageInv', TypesInv, HeadsInv, NEW p \in Procs, MoveHead(p)
  PROVE  TypesInv' /\ HeadsInv'
<1>1. PICK t : t = txn[p]
  OBVIOUS
<1>2. PICK h : h = Turn(t)
  OBVIOUS
<1>3. PICK f : f = None
  OBVIOUS
<1>4. /\ pc[p] = "writing" /\ file' = [file EXCEPT ![h] = f]
      /\ UNCHANGED <<dirs, assets>> /\ UNCHANGED <<cleared, locks>>
  BY <1>1, <1>2, <1>3 DEF MoveHead, Turn
<1>5. /\ TxnFits("writing", t) /\ TypesFit("writing", t) /\ DiskTyped
      /\ CatalogLock \in locks /\ \A q \in Procs \ {p} : pc[q] = "idle"
  BY <1>1, <1>4, Acting
<1>6. Trusted => HeadsFit("writing", t)
  BY <1>1, <1>4, Acting
<1>7. t.todo # <<>> /\ t \in Transactions(t.d) /\ Alike(t, t) /\ Typed(h, f)
  BY <1>3, <1>5 DEF TxnFits, TypesFit, TypesRoll, Alike, Typed
<1>8. Enter(p, "linking", t)
  BY <1>1, StayingEnters DEF MoveHead, LineageInv
<1>9. /\ t.d \in Docsets /\ h \in HeadsOf(t.d) /\ HeadsOf(t.d) \subseteq Heads /\ h \in Left(t)
      /\ t.orig # None /\ Left(t) \subseteq HeadsOf(t.d)
  BY <1>2, <1>5, <1>7, InTurn, LeftAreHeads DEF Working
<1>10. /\ DiskTyped' /\ TypesRoll(t)' /\ file'[h] = f /\ \A g \in Heads \ {h} : file'[g] = file[g]
       /\ Baseline(t) => Baseline(t)'
       /\ PubFits(t) => PubFits(t)'
  <2>1. "writing" \in Working /\ "writing" # "staging" /\ \A g \in HeadsOf(t.d) \ {h} : t.pub[g] = t.pub[g]
    BY DEF Working
  <2>2. /\ DiskTyped' /\ TypesRoll(t)'
        /\ Baseline(t) => Baseline(t)'
        /\ PubFits(t) /\ Genuine(t, h, f) => PubFits(t)'
    BY <1>2, <1>4, <1>5, <1>7, <2>1, TurnWritten
  <2>3. file'[h] = f /\ \A g \in Heads \ {h} : file'[g] = file[g]
    BY <1>4, <1>9, OneHeadIs
  <2> QED
    BY <1>3, <2>2, <2>3 DEF Genuine
<1>11. TypesFit("linking", t)'
  BY <1>4, <1>5, <1>10 DEF TypesFit, Left, Forward, Working
<1>12. ASSUME Trusted PROVE HeadsFit("linking", t)'
  <2>1. Baseline(t) /\ PubFits(t) /\ WritingFits(t) /\ Untouched(t, h)
    BY <1>2, <1>6, <1>9, <1>12 DEF HeadsFit, PhaseFits
  <2>2. WritingFits(t)'
    BY <1>2, <1>4, <1>7, <1>9, <1>10, <2>1, WritingStays
  <2>3. file'[h] = None /\ t.pub[h] = None
    BY <1>3, <1>10, <2>1 DEF Untouched
  <2> QED
    BY <1>2, <1>9, <1>10, <2>1, <2>2, <2>3 DEF HeadsFit, PhaseFits, Turn
<1> QED
  BY <1>4, <1>5, <1>8, <1>10, <1>11, <1>12, KeepingOn

LEMMA WriteRefusedKeepsHeads ==
  ASSUME LineageInv, LineageInv', TypesInv, HeadsInv, NEW p \in Procs, WriteRefused(p) \/ RetireFails(p)
  PROVE  TypesInv' /\ HeadsInv'
<1>1. PICK t, l : t = txn[p] /\ l = pc[p]
  OBVIOUS
<1>2. l \in {"writing", "retiring"} /\ UNCHANGED <<file, dirs, assets, cleared>> /\ UNCHANGED locks
  BY <1>1 DEF WriteRefused, RetireFails, heads
<1>3. PICK recovery \in BOOLEAN : Fail(p, t, recovery)
  BY <1>1 DEF WriteRefused, RetireFails
<1>4. /\ TxnFits(l, t) /\ TypesFit(l, t) /\ CatalogLock \in locks
      /\ \A q \in Procs \ {p} : pc[q] = "idle"
  BY <1>1, <1>2, Acting
<1>5. t.todo # <<>>
  BY <1>2, <1>4 DEF TxnFits
<1>6. TypesRoll(t) /\ t.orig # None
  BY <1>2, <1>4, <1>5, InTurn DEF Working
<1>7. ASSUME Trusted
      PROVE  /\ Baseline(t) /\ PubFits(t)
             /\ \A h \in HeadsOf(t.d) : t.pub[h] = None \/ h \notin OwnHeads(t) => Unharmed(t, h)
  <2>1. HeadsFit(l, t)
    BY <1>1, <1>2, <1>7, Acting
  <2>2. Baseline(t) /\ PubFits(t) /\ WritingFits(t)
    BY <1>2, <1>6, <2>1 DEF HeadsFit, PhaseFits
  <2>3. t.pub[Turn(t)] = None \/ Turn(t) \notin OwnHeads(t) => Unharmed(t, Turn(t))
    <3>1. CASE l = "writing"
      BY <1>6, <2>1, <3>1 DEF HeadsFit, PhaseFits, Untouched, Unharmed, Same
    <3>2. CASE l = "retiring"
      <4>1. Turn(t) \in OwnHeads(t) /\ t.pub[Turn(t)] # None
        BY <1>4, <1>5, <1>6, <2>1, <3>2, InTurn DEF HeadsFit, PhaseFits, Working
      <4> QED
        BY <4>1
    <3> QED
      BY <1>2, <3>1, <3>2
  <2> QED
    BY <2>2, <2>3, WritingUnharmed
<1> QED
  BY <1>2, <1>3, <1>4, <1>6, <1>7, QuietKeepingBack

\* What a transaction writes is a file of the head in turn.
LEMMA WhatIsWritten ==
  ASSUME DiskTyped, NEW l \in {"writing", "linking", "retiring", "relinking"}, NEW t,
         TxnFits(l, t), TypesFit(l, t), NEW h \in OwnHeads(t), NEW n \in Nat
  PROVE  /\ Typed(h, [content |-> Content(t, h), inode |-> n])
         /\ [content |-> Content(t, h), inode |-> n] # None
<1>1. TypesRoll(t) /\ t.orig # None /\ t.d \in Docsets
  BY DEF TypesFit, TypesRoll
<1>2. h = CurrentHead(t.d) => t.asset \in Assets /\ assets[t.asset] # None
  <2>1. h = CurrentHead(t.d) => t.op = "approve"
    BY <1>1, HeadNames DEF OwnHeads
  <2> QED
    BY <2>1 DEF TxnFits, ApprovalFits, OwnRoot
<1>3. Content(t, h) \in Kind(h)
  BY <1>1, <1>2, ContentTyped
<1> QED
  BY <1>3, NewFileTyped

LEMMA LinkHeadKeepsHeads ==
  ASSUME LineageInv, LineageInv', TypesInv, HeadsInv, NEW p \in Procs, LinkHead(p)
  PROVE  TypesInv' /\ HeadsInv'
<1>1. PICK t : t = txn[p]
  OBVIOUS
<1>2. PICK h : h = Turn(t)
  OBVIOUS
<1>3. PICK n : n = Fresh(h)
  OBVIOUS
<1>4. PICK f : f = [content |-> Content(t, h), inode |-> n]
  OBVIOUS
<1>5. PICK u : u = [t EXCEPT !.pub[h] = n]
  OBVIOUS
<1>6. /\ pc[p] = "linking" /\ file' = [file EXCEPT ![h] = f] /\ Enter(p, "retiring", u)
      /\ UNCHANGED <<dirs, assets>> /\ UNCHANGED <<cleared, locks>>
  BY <1>1, <1>2, <1>3, <1>4, <1>5 DEF LinkHead, Turn, NewFile
<1>7. /\ TxnFits("linking", t) /\ TypesFit("linking", t) /\ DiskTyped
      /\ CatalogLock \in locks /\ \A q \in Procs \ {p} : pc[q] = "idle"
  BY <1>1, <1>6, Acting
<1>8. Trusted => HeadsFit("linking", t)
  BY <1>1, <1>6, Acting
<1>9. t.todo # <<>> /\ t \in Transactions(t.d)
  BY <1>7 DEF TxnFits, TypesFit, TypesRoll
<1>10. /\ t.d \in Docsets /\ h \in HeadsOf(t.d) /\ HeadsOf(t.d) \subseteq Heads /\ h \in Left(t)
       /\ h \in OwnHeads(t) /\ t.orig # None /\ Left(t) \subseteq HeadsOf(t.d)
       /\ t.op = "register" /\ (t.d \notin dirs \/ t.rooted = TRUE) => h # DocsetHead(t.d)
  BY <1>2, <1>7, <1>9, InTurn, LeftAreHeads DEF Working
<1>11. n \in Nat /\ n # None
  <2>1. pc[p] # "idle" /\ h \in HeadsOf(txn[p].d)
    BY <1>1, <1>6, <1>10
  <2> QED
    BY <1>3, <2>1, FreshIsNew, AbsenceAssumption DEF LineageInv
<1>12. Typed(h, f) /\ f # None
  BY <1>4, <1>7, <1>10, <1>11, WhatIsWritten
<1>13. /\ Alike(t, u) /\ u \in Transactions(t.d) /\ u.pub[h] = n /\ u.todo = t.todo /\ u.raised = t.raised
       /\ \A g \in HeadsOf(t.d) \ {h} : u.pub[g] = t.pub[g]
  BY <1>5, <1>9, <1>10, <1>11 DEF Alike, Transactions
<1>14. /\ DiskTyped' /\ TypesRoll(u)' /\ u.orig # None
       /\ Baseline(t) => Baseline(u)'
       /\ PubFits(t) /\ Genuine(u, h, f) => PubFits(u)'
  <2>1. "linking" \in Working /\ "linking" # "staging"
    BY DEF Working
  <2> QED
    BY <1>2, <1>6, <1>7, <1>9, <1>12, <1>13, <2>1, TurnWritten, ZenonT(60)
<1>15. file'[h] = f /\ \A g \in Heads \ {h} : file'[g] = file[g]
  BY <1>6, <1>10, OneHeadIs
<1>16. TypesFit("retiring", u)'
  BY <1>6, <1>7, <1>13, <1>14 DEF TypesFit, Left, Forward, Working, Alike
<1>17. ASSUME Trusted PROVE HeadsFit("retiring", u)'
  <2>1. Baseline(t) /\ PubFits(t) /\ WritingFits(t)
    BY <1>8, <1>10, <1>17 DEF HeadsFit, PhaseFits
  <2>2. WritingFits(u)'
    BY <1>2, <1>6, <1>10, <1>13, <1>15, <2>1, WritingStays
  <2>3. PubFits(u)'
    <3>1. Genuine(u, h, f)
      BY <1>4, <1>13 DEF Genuine, Content, Alike
    <3> QED
      BY <1>14, <2>1, <3>1
  <2>4. Written(u, h)'
    <3>1. Content(u, h)' = Content(t, h)
      BY <1>6, <1>10, <1>13, ContentStays
    <3> QED
      BY <1>4, <1>11, <1>12, <1>13, <1>15, <3>1 DEF Written
  <2>5. Turn(u) = h
    BY <1>2, <1>13 DEF Turn
  <2>6. Written(u, Turn(u))' /\ u.pub[Turn(u)] # None
    BY <1>11, <1>13, <2>4, <2>5 DEF Written, Turn
  <2> QED
    BY <1>14, <2>1, <2>2, <2>3, <2>6 DEF HeadsFit, PhaseFits, Turn
<1> QED
  BY <1>6, <1>7, <1>14, <1>16, <1>17, KeepingOn

LEMMA LinkFailsKeepsHeads ==
  ASSUME LineageInv, LineageInv', TypesInv, HeadsInv, NEW p \in Procs, LinkFails(p) \/ VerifyFails(p)
  PROVE  TypesInv' /\ HeadsInv'
<1>1. PICK t : t = txn[p]
  OBVIOUS
<1>2. PICK h : h = Turn(t)
  OBVIOUS
<1>3. PICK n : n = Fresh(h)
  OBVIOUS
<1>4. /\ pc[p] = "linking" /\ UNCHANGED <<dirs, assets>> /\ UNCHANGED <<cleared, locks>>
  BY DEF LinkFails, VerifyFails
<1>5. /\ TxnFits("linking", t) /\ TypesFit("linking", t) /\ DiskTyped
      /\ CatalogLock \in locks /\ \A q \in Procs \ {p} : pc[q] = "idle"
  BY <1>1, <1>4, Acting
<1>6. Trusted => HeadsFit("linking", t)
  BY <1>1, <1>4, Acting
<1>7. t.todo # <<>> /\ t \in Transactions(t.d) /\ Alike(t, t)
  BY <1>5 DEF TxnFits, TypesFit, TypesRoll, Alike
<1>8. /\ t.d \in Docsets /\ h \in HeadsOf(t.d) /\ HeadsOf(t.d) \subseteq Heads /\ h \in Left(t)
      /\ h \in OwnHeads(t) /\ t.orig # None /\ TypesRoll(t) /\ Typed(h, t.orig[h])
  BY <1>2, <1>5, <1>7, InTurn DEF Working
<1>9. Trusted => /\ Baseline(t) /\ PubFits(t) /\ file[h] = None /\ t.pub[h] = None
                 /\ \A g \in HeadsOf(t.d) \ {h} : t.pub[g] = None \/ g \notin OwnHeads(t) => Unharmed(t, g)
  <2>1. Trusted => Baseline(t) /\ PubFits(t) /\ WritingFits(t) /\ file[h] = None /\ t.pub[h] = None
    BY <1>2, <1>6, <1>8 DEF HeadsFit, PhaseFits
  <2> QED
    BY <1>2, <2>1, WritingUnharmed
<1>10. ASSUME NEW f, Typed(h, f), file' = [file EXCEPT ![h] = f], Fail(p, t, FALSE),
              Trusted => Same(f, t.orig[h])
       PROVE  TypesInv' /\ HeadsInv'
  <2>1. "linking" \in Working /\ "linking" # "staging" /\ \A g \in HeadsOf(t.d) \ {h} : t.pub[g] = t.pub[g]
    BY DEF Working
  <2>2. /\ DiskTyped' /\ TypesRoll(t)'
        /\ Baseline(t) => Baseline(t)'
        /\ PubFits(t) /\ Genuine(t, h, f) => PubFits(t)'
    BY <1>2, <1>4, <1>5, <1>7, <1>10, <2>1, TurnWritten
  <2>3. file'[h] = f /\ \A g \in Heads \ {h} : file'[g] = file[g]
    BY <1>8, <1>10, OneHeadIs
  <2>4. ASSUME NEW g \in HeadsOf(t.d) \ {h} PROVE Unharmed(t, g) => Unharmed(t, g)'
    BY <1>8, <2>3, <2>4 DEF Unharmed, Same, Making
  <2>5. Same(f, t.orig[h]) => Unharmed(t, h)'
    BY <2>3 DEF Unharmed, Same
  <2>6. Trusted => /\ Baseline(t)' /\ PubFits(t)'
                   /\ \A g \in HeadsOf(t.d) : t.pub[g] = None \/ g \notin OwnHeads(t) => Unharmed(t, g)'
    BY <1>9, <1>10, <2>2, <2>4, <2>5 DEF Genuine
  <2> QED
    BY <1>4, <1>5, <1>8, <1>10, <2>2, <2>6, FailingKeepsHeads
<1>11. CASE LinkFails(p)
  <2>1. CASE file' = [file EXCEPT ![h] = t.orig[h]] /\ Fail(p, t, FALSE)
    <3>1. Same(t.orig[h], t.orig[h])
      BY DEF Same
    <3> QED
      BY <1>8, <1>10, <2>1, <3>1
  <2>2. CASE Fail(p, t, TRUE) /\ UNCHANGED file
    BY <1>4, <1>5, <1>8, <1>9, <2>2, QuietKeepingBack
  <2> QED
    BY <1>1, <1>2, <1>11, <2>1, <2>2 DEF LinkFails, Turn
<1>12. CASE VerifyFails(p)
  <2>1. ~Trusted
    BY <1>12 DEF VerifyFails, Trusted
  <2>2. PICK f : f = [content |-> Content(t, h), inode |-> n]
    OBVIOUS
  <2>3. Fail(p, t, FALSE) /\ (UNCHANGED file \/ file' = [file EXCEPT ![h] = f])
    BY <1>1, <1>2, <1>3, <1>12, <2>2 DEF VerifyFails, NewFile, Turn
  <2>4. n \in Nat
    <3>1. pc[p] # "idle" /\ h \in HeadsOf(txn[p].d)
      BY <1>1, <1>4, <1>8
    <3> QED
      BY <1>3, <3>1, FreshIsNew DEF LineageInv
  <2>5. Typed(h, f)
    BY <1>5, <1>8, <2>2, <2>4, WhatIsWritten
  <2>6. CASE UNCHANGED file
    BY <1>4, <1>5, <1>8, <2>1, <2>3, <2>6, QuietKeepingBack
  <2>7. CASE file' = [file EXCEPT ![h] = f]
    BY <1>10, <2>1, <2>3, <2>5, <2>7
  <2> QED
    BY <2>3, <2>6, <2>7
<1> QED
  BY <1>11, <1>12

LEMMA RetireHeadKeepsHeads ==
  ASSUME LineageInv, LineageInv', TypesInv, HeadsInv, NEW p \in Procs, RetireHead(p)
  PROVE  TypesInv' /\ HeadsInv'
<1>1. PICK t : t = txn[p]
  OBVIOUS
<1>2. PICK u : u = Advanced(t)
  OBVIOUS
<1>3. PICK h : h = Turn(t)
  OBVIOUS
<1>4. PICK l : l = IF u.todo = <<>> THEN "unlocking" ELSE "writing"
  OBVIOUS
<1>5. /\ pc[p] = "retiring" /\ Enter(p, l, u)
      /\ UNCHANGED <<file, dirs, assets, cleared>> /\ UNCHANGED locks
  BY <1>1, <1>2, <1>4 DEF RetireHead, heads
<1>6. /\ TxnFits("retiring", t) /\ TypesFit("retiring", t) /\ DiskTyped
      /\ CatalogLock \in locks /\ \A q \in Procs \ {p} : pc[q] = "idle"
  BY <1>1, <1>5, Acting
<1>7. Trusted => HeadsFit("retiring", t)
  BY <1>1, <1>5, Acting
<1>8. t.todo # <<>> /\ t.todo \in Seq(OwnHeads(t)) /\ t \in Transactions(t.d) /\ t.raised = FALSE
  BY <1>6 DEF TxnFits, TypesFit, TypesRoll, Forward
<1>9. /\ t.d \in Docsets /\ h \in HeadsOf(t.d) /\ HeadsOf(t.d) \subseteq Heads
      /\ h \in OwnHeads(t) /\ t.orig # None /\ TypesRoll(t) /\ OwnHeads(t) \subseteq Heads
  BY <1>3, <1>6, <1>8, InTurn, OwnHeadsAreHeads DEF Working
<1>10. /\ u.todo = Tail(t.todo) /\ u.todo \in Seq(Heads) /\ Left(u) \subseteq Left(t)
       /\ Left(t) \subseteq Left(u) \cup {h}
  <2>1. u.todo = Tail(t.todo)
    BY <1>2, <1>8 DEF Advanced, Transactions
  <2>2. /\ Tail(t.todo) \in Seq(OwnHeads(t)) /\ Elems(Tail(t.todo)) \subseteq Elems(t.todo)
        /\ Elems(t.todo) \subseteq Elems(Tail(t.todo)) \cup {Head(t.todo)}
    BY <1>8, ElemsOfTail
  <2>3. Tail(t.todo) \in Seq(Heads)
    BY <1>9, <2>2
  <2> QED
    BY <1>3, <2>1, <2>2, <2>3 DEF Left, Turn
<1>11. /\ u \in Transactions(t.d) /\ Alike(t, u) /\ u.pub = t.pub /\ u.raised = FALSE
  BY <1>2, <1>8, <1>10 DEF Advanced, Transactions, Alike
<1>12. TypesRoll(u)
  BY <1>9, <1>11, AbsenceAssumption DEF TypesRoll, Alike
<1>13. TypesFit(l, u)
  <2>1. l \in {"writing", "unlocking"}
    BY <1>4
  <2> QED
    BY <1>6, <1>10, <1>11, <1>12, <2>1 DEF TypesFit, Forward, Working, Alike
<1>14. ASSUME Trusted PROVE HeadsFit(l, u)
  <2>1. /\ Baseline(t) /\ PubFits(t) /\ WritingFits(t) /\ Written(t, h) /\ t.pub[h] # None
    BY <1>3, <1>7, <1>9, <1>14 DEF HeadsFit, PhaseFits
  <2>2. /\ OwnHeads(u) = OwnHeads(t) /\ HeadsOf(u.d) = HeadsOf(t.d) /\ Making(u) = Making(t)
        /\ NewManifest(u) = NewManifest(t)
    BY <1>11, AlikeSame
  <2>3. Baseline(u)
    BY <1>11, <2>1, <2>2 DEF Baseline, Alike, Home, Before
  <2>4. \A g : Content(u, g) = Content(t, g)
    BY <1>11 DEF Content, Alike
  <2>5. PubFits(u)
    BY <1>11, <2>1, <2>2, <2>4 DEF PubFits, Genuine
  <2>6. \A g : /\ Untouched(t, g) => Untouched(u, g)
               /\ Written(t, g) => Written(u, g)
               /\ Finished(t, g) => Finished(u, g)
    BY <1>11, <2>2, <2>4 DEF Untouched, Written, Finished, Alike
  <2>7. PICK s, c, k : s = DocsetHead(t.d) /\ c = CurrentHead(t.d) /\ k = CatalogHead
    OBVIOUS
  <2>8. s # c /\ s # k /\ c # k
    BY <1>9, <2>7, HeadNames
  <2>9. /\ IF u.todo = <<>> THEN Left(u) = {}
           ELSE TodoFits(u) /\ Turn(u) \in Left(u)
        /\ h \notin Left(u)
    <3>1. /\ t.op = "approve" => t.todo \in {<<s, k, c>>, <<k, c>>, <<c>>}
          /\ t.op # "approve" => t.todo \in {<<s, k>>, <<k>>} /\ (Making(t) => t.todo = <<k>>)
      BY <2>1, <2>7 DEF WritingFits, TodoFits
    <3>2. CASE t.todo = <<s, k, c>>
      <4>1. u.todo = <<k, c>> /\ h = s /\ Left(u) = {k, c} /\ Turn(u) = k /\ u.todo # <<>>
        BY <1>3, <1>10, <3>2 DEF Turn, Left, Elems
      <4>2. t.op = "approve"
        BY <3>1, <3>2
      <4> QED
        BY <1>11, <2>7, <2>8, <4>1, <4>2 DEF TodoFits, Alike
    <3>3. CASE t.todo = <<k, c>>
      <4>1. u.todo = <<c>> /\ h = k /\ Left(u) = {c} /\ Turn(u) = c /\ u.todo # <<>>
        BY <1>3, <1>10, <3>3 DEF Turn, Left, Elems
      <4>2. t.op = "approve"
        BY <2>8, <3>1, <3>3
      <4> QED
        BY <1>11, <2>7, <2>8, <4>1, <4>2 DEF TodoFits, Alike
    <3>4. CASE \E x : t.todo = <<x>>
      <4>1. u.todo = <<>> /\ Left(u) = {}
        BY <1>10, <3>4 DEF Left, Elems
      <4> QED
        BY <4>1
    <3>5. CASE t.todo = <<s, k>>
      <4>1. u.todo = <<k>> /\ h = s /\ Left(u) = {k} /\ Turn(u) = k /\ u.todo # <<>>
        BY <1>3, <1>10, <3>5 DEF Turn, Left, Elems
      <4>2. t.op # "approve"
        BY <2>8, <3>1, <3>5
      <4> QED
        BY <1>11, <2>7, <2>8, <4>1, <4>2 DEF TodoFits, Alike
    <3> QED
      BY <3>1, <3>2, <3>3, <3>4, <3>5
  <2>10. ASSUME NEW g \in HeadsOf(t.d) \ Left(u) PROVE Finished(u, g)
    <3>1. CASE g = h
      BY <1>9, <2>1, <2>6, <3>1 DEF Finished
    <3>2. CASE g # h
      <4>1. g \notin Left(t)
        BY <1>10, <2>10, <3>2
      <4> QED
        BY <2>1, <2>6, <2>10, <4>1 DEF WritingFits
    <3> QED
      BY <3>1, <3>2
  <2>11. ASSUME NEW g \in Left(u) PROVE Untouched(u, g)
    <3>1. g \in Left(t) /\ g # h
      BY <1>10, <2>9, <2>11
    <3> QED
      BY <1>3, <2>1, <2>6, <3>1 DEF WritingFits
  <2>12. CASE u.todo = <<>>
    BY <1>4, <1>9, <1>11, <2>2, <2>3, <2>5, <2>9, <2>10, <2>12 DEF HeadsFit, PhaseFits, Alike
  <2>13. CASE u.todo # <<>>
    <3>1. WritingFits(u) /\ Untouched(u, Turn(u))
      BY <2>2, <2>9, <2>10, <2>11, <2>13 DEF WritingFits
    <3> QED
      BY <1>4, <1>9, <1>11, <2>3, <2>5, <2>13, <3>1 DEF HeadsFit, PhaseFits, Alike
  <2> QED
    BY <2>12, <2>13
<1> QED
  <2>1. l # "idle"
    BY <1>4
  <2> QED
    BY <1>5, <1>6, <1>13, <1>14, <2>1, QuietKeeping

-----------------------------------------------------------------------------
(* Rolling back.                                                           *)

\* One head is dealt with: it says again what it said, or the rollback failed.
LEMMA TurnDealtWith ==
  ASSUME LineageInv, DiskTyped, NEW l \in {"restoring", "relinking"}, NEW t, TxnFits(l, t), TypesFit(l, t),
         t.todo # <<>>, NEW h, h = Turn(t), NEW failed \in BOOLEAN, failed = FALSE => t.failed = FALSE,
         NEW u, u = [Advanced(t) EXCEPT !.failed = failed],
         NEW f, Typed(h, f), file' = [file EXCEPT ![h] = f], UNCHANGED <<dirs, assets>>,
         failed = FALSE => Same(f, t.orig[h])
  PROVE  /\ DiskTyped' /\ TypesFit("restoring", u)'
         /\ HeadsFit(l, t) /\ Genuine(t, h, f) => HeadsFit("restoring", u)'
<1>1. t.todo \in Seq(OwnHeads(t)) /\ t \in Transactions(t.d) /\ t.raised = TRUE
  BY DEF TxnFits, TypesFit, TypesRoll
<1>2. /\ t.d \in Docsets /\ h \in HeadsOf(t.d) /\ HeadsOf(t.d) \subseteq Heads
      /\ h \in OwnHeads(t) /\ t.orig # None /\ TypesRoll(t) /\ OwnHeads(t) \subseteq Heads
  BY <1>1, InTurn, OwnHeadsAreHeads DEF Working
<1>3. PICK a : a = Advanced(t)
  OBVIOUS
<1>4. /\ Tail(t.todo) \in Seq(OwnHeads(t)) /\ Elems(Tail(t.todo)) \subseteq Elems(t.todo)
      /\ Elems(t.todo) \subseteq Elems(Tail(t.todo)) \cup {Head(t.todo)}
  BY <1>1, ElemsOfTail
<1>5. Tail(t.todo) \in Seq(Heads)
  BY <1>2, <1>4
<1>6. /\ a \in Transactions(t.d) /\ Alike(t, a) /\ a.pub = t.pub /\ a.raised = TRUE
      /\ a.todo = Tail(t.todo) /\ a.recovery = t.recovery
  BY <1>1, <1>3, <1>5 DEF Advanced, Transactions, Alike
<1>7. /\ u \in Transactions(t.d) /\ Alike(t, u) /\ u.pub = t.pub /\ u.raised = TRUE
      /\ u.todo = Tail(t.todo) /\ u.recovery = t.recovery /\ u.failed = failed
  BY <1>3, <1>6 DEF Transactions, Alike
<1>8. Left(u) \subseteq Left(t) /\ Left(t) \subseteq Left(u) \cup {h}
  BY <1>4, <1>7 DEF Left, Turn
<1>9. /\ DiskTyped' /\ TypesRoll(u)' /\ u.orig # None
      /\ Baseline(t) => Baseline(u)'
      /\ PubFits(t) /\ Genuine(u, h, f) => PubFits(u)'
  <2>1. l \in Working /\ l # "staging"
    BY DEF Working
  <2>2. \A g \in HeadsOf(t.d) \ {h} : u.pub[g] = t.pub[g]
    BY <1>7
  <2> QED
    BY <1>1, <1>7, <2>1, <2>2, TurnWritten
<1>10. file'[h] = f /\ \A g \in Heads \ {h} : file'[g] = file[g]
  BY <1>2, OneHeadIs, ZenonT(60)
<1>11. TypesFit("restoring", u)'
  BY <1>7, <1>8, <1>9 DEF TypesFit, Left, Forward, Working, Alike
<1>12. ASSUME HeadsFit(l, t), Genuine(t, h, f)
       PROVE  HeadsFit("restoring", u)'
  <2>1. Baseline(t) /\ PubFits(t) /\ RestoringFits(t)
    BY <1>2, <1>12 DEF HeadsFit, PhaseFits
  <2>2. PubFits(u)'
    BY <1>7, <1>9, <1>12, <2>1 DEF Genuine, Content, Alike
  <2>3. ASSUME failed = FALSE, NEW g \in HeadsOf(t.d) \ Left(u) PROVE Back(u, g)'
    <3>1. CASE g = h
      <4>1. Same(f, u.orig[h])
        BY <1>7, <2>3 DEF Alike
      <4> QED
        BY <1>10, <3>1, <4>1 DEF Back, Unharmed, Same
    <3>2. CASE g # h
      <4>1. Back(t, g)
        BY <1>8, <2>1, <2>3, <3>2 DEF RestoringFits
      <4>2. file'[g] = file[g] /\ u.pub[g] = t.pub[g] /\ UNCHANGED assets /\ g \in HeadsOf(t.d)
        BY <1>2, <1>7, <1>10, <2>3, <3>2
      <4> QED
        BY <1>2, <1>7, <4>1, <4>2, HeadStays
    <3> QED
      BY <3>1, <3>2
  <2>4. RestoringFits(u)'
    BY <1>7, <2>3 DEF RestoringFits, Left, Alike
  <2> QED
    BY <1>9, <2>1, <2>2, <2>4 DEF HeadsFit, PhaseFits
<1> QED
  BY <1>9, <1>11, <1>12

LEMMA RestoreHeadKeepsHeads ==
  ASSUME LineageInv, LineageInv', TypesInv, HeadsInv, NEW p \in Procs, RestoreHead(p)
  PROVE  TypesInv' /\ HeadsInv'
<1>1. PICK t : t = txn[p]
  OBVIOUS
<1>2. PICK h : h = Turn(t)
  OBVIOUS
<1>3. PICK f : f = None
  OBVIOUS
<1>4. /\ pc[p] = "restoring" /\ t.todo # <<>> /\ file' = [file EXCEPT ![h] = f]
      /\ UNCHANGED <<dirs, assets>> /\ UNCHANGED <<cleared, locks>>
  BY <1>1, <1>2, <1>3 DEF RestoreHead, Turn
<1>5. /\ TxnFits("restoring", t) /\ TypesFit("restoring", t) /\ DiskTyped
      /\ CatalogLock \in locks /\ \A q \in Procs \ {p} : pc[q] = "idle"
  BY <1>1, <1>4, Acting
<1>6. Trusted => HeadsFit("restoring", t)
  BY <1>1, <1>4, Acting
<1>7. t.failed \in BOOLEAN /\ t \in Transactions(t.d) /\ Typed(h, f) /\ Alike(t, t)
  BY <1>3, <1>5 DEF TypesFit, TypesRoll, Transactions, Typed, Alike
<1>8. /\ t.d \in Docsets /\ h \in HeadsOf(t.d) /\ HeadsOf(t.d) \subseteq Heads /\ h \in Left(t) /\ t.orig # None
  BY <1>2, <1>4, <1>5, InTurn DEF Working
<1>9. CASE t.orig[h] = None
  <2>1. PICK failed \in BOOLEAN :
          Enter(p, "restoring", [Advanced(t) EXCEPT !.failed = @ \/ failed])
    BY <1>1, <1>2, <1>9 DEF RestoreHead, Turn
  <2>2. PICK u : u = [Advanced(t) EXCEPT !.failed = t.failed \/ failed]
    OBVIOUS
  <2>3. Enter(p, "restoring", u)
    <3>1. Advanced(t).failed = t.failed
      BY <1>7 DEF Advanced, Transactions
    <3> QED
      BY <2>1, <2>2, <3>1
  <2>4. PICK fails \in BOOLEAN : fails = (t.failed \/ failed)
    BY <1>7
  <2>5. u = [Advanced(t) EXCEPT !.failed = fails]
    BY <2>2, <2>4
  <2>6. fails = FALSE => t.failed = FALSE
    BY <1>7, <2>4
  <2>7. Same(f, t.orig[h])
    BY <1>3, <1>9 DEF Same
  <2>8. /\ DiskTyped' /\ TypesFit("restoring", u)'
        /\ HeadsFit("restoring", t) /\ Genuine(t, h, f) => HeadsFit("restoring", u)'
    BY <1>2, <1>3, <1>4, <1>5, <1>7, <2>5, <2>6, <2>7, TurnDealtWith
  <2> QED
    BY <1>3, <1>4, <1>5, <1>6, <2>3, <2>8, KeepingOn DEF Genuine
<1>10. CASE t.orig[h] # None
  <2>1. Enter(p, "relinking", t)
    BY <1>1, <1>2, <1>10, StayingEnters DEF RestoreHead, Turn, LineageInv
  <2>2. /\ DiskTyped' /\ TypesRoll(t)'
        /\ Baseline(t) => Baseline(t)'
        /\ PubFits(t) /\ Genuine(t, h, f) => PubFits(t)'
    <3>1. "restoring" \in Working /\ "restoring" # "staging" /\ \A g \in HeadsOf(t.d) \ {h} : t.pub[g] = t.pub[g]
      BY DEF Working
    <3> QED
      BY <1>2, <1>4, <1>5, <1>7, <3>1, TurnWritten
  <2>3. file'[h] = f /\ \A g \in Heads \ {h} : file'[g] = file[g]
    BY <1>4, <1>8, OneHeadIs
  <2>4. TypesFit("relinking", t)'
    BY <1>2, <1>4, <1>5, <1>10, <2>2 DEF TypesFit, Left, Forward, Working, Turn
  <2>5. ASSUME Trusted PROVE HeadsFit("relinking", t)'
    <3>1. Baseline(t) /\ PubFits(t) /\ RestoringFits(t)
      BY <1>6, <1>8, <2>5 DEF HeadsFit, PhaseFits
    <3>2. ASSUME t.failed = FALSE, NEW g \in HeadsOf(t.d) \ Left(t) PROVE Back(t, g)'
      <4>1. Back(t, g)
        BY <3>1, <3>2 DEF RestoringFits
      <4>2. file'[g] = file[g] /\ t.pub[g] = t.pub[g] /\ t.recovery = t.recovery /\ UNCHANGED assets
            /\ g \in HeadsOf(t.d)
        BY <1>4, <1>8, <2>3, <3>2
      <4> QED
        BY <1>7, <1>8, <4>1, <4>2, HeadStays
    <3>3. RestoringFits(t)'
      BY <3>2 DEF RestoringFits, Left
    <3>4. file'[Turn(t)] = None
      BY <1>2, <1>3, <2>3
    <3> QED
      BY <1>3, <1>8, <2>2, <3>1, <3>3, <3>4 DEF HeadsFit, PhaseFits, Turn, Genuine
  <2> QED
    BY <1>4, <1>5, <2>1, <2>2, <2>4, <2>5, KeepingOn
<1> QED
  BY <1>9, <1>10

LEMMA RestoreFailsKeepsHeads ==
  ASSUME LineageInv, LineageInv', TypesInv, HeadsInv, NEW p \in Procs, RestoreFails(p) \/ RelinkFails(p)
  PROVE  TypesInv' /\ HeadsInv'
<1>1. PICK t, l : t = txn[p] /\ l = pc[p]
  OBVIOUS
<1>2. PICK h : h = Turn(t)
  OBVIOUS
<1>3. PICK failed \in BOOLEAN : failed = TRUE
  OBVIOUS
<1>4. PICK u : u = [Advanced(t) EXCEPT !.failed = failed]
  OBVIOUS
<1>5. PICK g : g = [content |-> Content(t, h), inode |-> t.pub[h]]
  OBVIOUS
<1>6. /\ l \in {"restoring", "relinking"} /\ Enter(p, "restoring", u)
      /\ UNCHANGED <<dirs, assets>> /\ UNCHANGED <<cleared, locks>>
      /\ l = "restoring" => t.todo # <<>>
      /\ UNCHANGED file \/ (l = "relinking" /\ file' = [file EXCEPT ![h] = g])
  BY <1>1, <1>2, <1>3, <1>4, <1>5 DEF RestoreFails, RelinkFails, heads, Turn
<1>7. /\ TxnFits(l, t) /\ TypesFit(l, t) /\ DiskTyped
      /\ CatalogLock \in locks /\ \A q \in Procs \ {p} : pc[q] = "idle"
  BY <1>1, <1>6, Acting
<1>8. Trusted => HeadsFit(l, t)
  BY <1>1, <1>6, Acting
<1>9. t.todo # <<>> /\ t \in Transactions(t.d) /\ failed # FALSE
  BY <1>3, <1>6, <1>7 DEF TxnFits, TypesFit, TypesRoll
<1>10. /\ t.d \in Docsets /\ h \in HeadsOf(t.d) /\ h \in Heads /\ h \in Left(t) /\ t.orig # None
       /\ h \in OwnHeads(t)
  BY <1>2, <1>6, <1>7, <1>9, InTurn DEF Working
<1>11. t.pub[h] # None /\ t.pub[h] \in Nat
  BY <1>6, <1>7, <1>9, <1>10 DEF TypesFit, Transactions
<1>12. CASE UNCHANGED file
  <2>1. file' = [file EXCEPT ![h] = file[h]]
    BY <1>12 DEF LineageInv, Stored
  <2>2. PICK f : f = file[h]
    OBVIOUS
  <2>3. Typed(h, f)
    BY <1>7, <1>10, <2>2 DEF DiskTyped
  <2>4. UNCHANGED <<file, dirs, assets>> /\ DiskTyped'
    BY <1>6, <1>7, <1>12, NothingUntyped
  <2>5. /\ DiskTyped' /\ TypesFit("restoring", u)'
        /\ HeadsFit(l, t) /\ Genuine(t, h, f) => HeadsFit("restoring", u)'
    BY <1>2, <1>4, <1>6, <1>7, <1>9, <2>1, <2>2, <2>3, TurnDealtWith
  <2>6. HeadsFit(l, t) => Genuine(t, h, f)
    BY <1>10, <1>11, <2>2 DEF HeadsFit, PubFits, Genuine
  <2> QED
    BY <1>6, <1>7, <1>8, <2>5, <2>6, KeepingOn
<1>13. CASE l = "relinking" /\ file' = [file EXCEPT ![h] = g]
  <2>1. Typed(h, g) /\ g.content = Content(t, h)
    BY <1>5, <1>7, <1>10, <1>11, <1>13, WhatIsWritten
  <2>2. Genuine(t, h, g)
    BY <2>1 DEF Genuine
  <2>3. /\ DiskTyped' /\ TypesFit("restoring", u)'
        /\ HeadsFit(l, t) /\ Genuine(t, h, g) => HeadsFit("restoring", u)'
    BY <1>2, <1>4, <1>6, <1>7, <1>9, <1>13, <2>1, TurnDealtWith
  <2> QED
    BY <1>6, <1>7, <1>8, <2>2, <2>3, KeepingOn
<1> QED
  BY <1>6, <1>12, <1>13

LEMMA RelinkHeadKeepsHeads ==
  ASSUME LineageInv, LineageInv', TypesInv, HeadsInv, NEW p \in Procs, RelinkHead(p)
  PROVE  TypesInv' /\ HeadsInv'
<1>1. PICK t : t = txn[p]
  OBVIOUS
<1>2. PICK h : h = Turn(t)
  OBVIOUS
<1>3. PICK n : n = Fresh(h)
  OBVIOUS
<1>4. PICK f : f = [content |-> t.orig[h].content, inode |-> n]
  OBVIOUS
<1>5. /\ pc[p] = "relinking" /\ file' = [file EXCEPT ![h] = f]
      /\ UNCHANGED <<dirs, assets>> /\ UNCHANGED <<cleared, locks>>
  BY <1>1, <1>2, <1>3, <1>4 DEF RelinkHead, NewFile, Turn
<1>6. /\ TxnFits("relinking", t) /\ TypesFit("relinking", t) /\ DiskTyped
      /\ CatalogLock \in locks /\ \A q \in Procs \ {p} : pc[q] = "idle"
  BY <1>1, <1>5, Acting
<1>7. Trusted => HeadsFit("relinking", t)
  BY <1>1, <1>5, Acting
<1>8. t.failed \in BOOLEAN /\ t \in Transactions(t.d) /\ t.todo # <<>> /\ t.orig[h] # None
  BY <1>2, <1>6 DEF TypesFit, TypesRoll, Transactions, TxnFits, Turn
<1>9. t.d \in Docsets /\ h \in HeadsOf(t.d) /\ h \in OwnHeads(t) /\ Typed(h, t.orig[h])
  BY <1>2, <1>6, <1>8, InTurn DEF Working
<1>10. n \in Nat /\ n # t.pub[h]
  <2>1. pc[p] # "idle" /\ h \in HeadsOf(txn[p].d)
    BY <1>1, <1>5, <1>9
  <2> QED
    BY <1>1, <1>3, <2>1, FreshIsNew DEF LineageInv
<1>11. Typed(h, f) /\ f # None
  <2>1. t.orig[h].content \in Kind(h)
    BY <1>8, <1>9 DEF Typed
  <2> QED
    BY <1>4, <1>10, <2>1, NewFileTyped
<1>12. Same(f, t.orig[h]) /\ Genuine(t, h, f)
  BY <1>4, <1>8, <1>10, <1>11 DEF Same, Genuine
<1>13. PICK failed \in BOOLEAN :
         Enter(p, "restoring", [Advanced(t) EXCEPT !.failed = @ \/ failed])
  BY <1>1 DEF RelinkHead
<1>14. PICK fails \in BOOLEAN : fails = (t.failed \/ failed)
  BY <1>8
<1>15. PICK u : u = [Advanced(t) EXCEPT !.failed = fails]
  OBVIOUS
<1>16. Enter(p, "restoring", u)
  <2>1. Advanced(t).failed = t.failed
    BY <1>8 DEF Advanced, Transactions
  <2> QED
    BY <1>13, <1>14, <1>15, <2>1
<1>17. fails = FALSE => t.failed = FALSE
  BY <1>8, <1>14
<1>18. /\ DiskTyped' /\ TypesFit("restoring", u)'
       /\ HeadsFit("relinking", t) /\ Genuine(t, h, f) => HeadsFit("restoring", u)'
  BY <1>2, <1>5, <1>6, <1>8, <1>11, <1>12, <1>15, <1>17, TurnDealtWith
<1> QED
  BY <1>5, <1>6, <1>7, <1>12, <1>16, <1>18, KeepingOn

\* What CleanUp does to what is on disk.
Retired(t) ==
  /\ IF t.rooted = TRUE /\ t.op = "approve" THEN assets' = [assets EXCEPT ![t.asset] = None]
     ELSE UNCHANGED assets
  /\ IF t.rooted = TRUE /\ t.op = "register"
     THEN dirs' = dirs \ {t.d} /\ file' = [file EXCEPT ![DocsetHead(t.d)] = None]
     ELSE UNCHANGED <<file, dirs>>

LEMMA RetiredTypes ==
  ASSUME LineageInv, DiskTyped, NEW t, TypesRoll(t), t.rooted \in BOOLEAN, Retired(t),
         t.op = "approve" => t.asset \in Assets,
         NEW u \in Transactions(t.d), u.op = t.op, u.d = t.d, u.title = t.title,
         u.orig = t.orig, u.pub = t.pub, u.rooted = FALSE
  PROVE  DiskTyped' /\ TypesRoll(u)'
<1>1. t.d \in Docsets /\ t.op \in {"approve", "register"} /\ u # None
  BY AbsenceAssumption DEF TypesRoll, Transactions
<1>2. /\ u.orig # None => \A h \in HeadsOf(u.d) : Typed(h, u.orig[h])'
      /\ u.orig # None \/ u.op = "register" => u.title \in Titles
  BY DEF TypesRoll, Typed, Kind, Catalogs, Entry, Pointer, Manifest
<1>3. CASE t.rooted = TRUE /\ t.op = "approve"
  <2>1. assets' = [assets EXCEPT ![t.asset] = None] /\ UNCHANGED <<file, dirs>>
    BY <1>3 DEF Retired
  <2>2. \A a \in Assets : assets'[a] # None => assets'[a] = assets[a]
    BY <2>1 DEF DiskTyped
  <2>3. DiskTyped'
    BY <2>1, <2>2 DEF DiskTyped, Typed
  <2> QED
    BY <1>1, <1>2, <1>3, <2>1, <2>3 DEF TypesRoll
<1>4. CASE t.rooted = TRUE /\ t.op = "register"
  <2>1. dirs' = dirs \ {t.d} /\ UNCHANGED assets /\ file' = [file EXCEPT ![DocsetHead(t.d)] = None]
    BY <1>4 DEF Retired
  <2>2. DocsetHead(t.d) \in Heads
    BY <1>1, HeadNames
  <2>3. file'[DocsetHead(t.d)] = None /\ \A g \in Heads \ {DocsetHead(t.d)} : file'[g] = file[g]
    BY <2>1, <2>2 DEF LineageInv, Stored
  <2>4. file[CurrentHead(t.d)] = None /\ \A a \in Assets : assets[a] # None => assets[a].docset # t.d
    BY <1>4 DEF TypesRoll
  <2>5. \A h \in Heads : Typed(h, file'[h])
    BY <2>3 DEF DiskTyped, Typed
  <2>6. \A d \in Docsets \ dirs' : file'[DocsetHead(d)] = None /\ file'[CurrentHead(d)] = None
    <3>1. \A d \in Docsets : DocsetHead(d) \in Heads /\ CurrentHead(d) \in Heads
      BY DEF Heads
    <3> QED
      BY <2>1, <2>3, <2>4, <3>1 DEF DiskTyped
  <2>7. DiskTyped'
    BY <2>1, <2>4, <2>5, <2>6 DEF DiskTyped, Typed
  <2> QED
    BY <1>1, <1>2, <1>4, <2>1, <2>7 DEF TypesRoll
<1>5. CASE t.rooted = FALSE
  <2>1. UNCHANGED <<file, dirs, assets>>
    BY <1>5 DEF Retired
  <2>2. DiskTyped'
    BY <2>1, NothingUntyped
  <2> QED
    BY <1>1, <1>2, <1>5, <2>1, <2>2 DEF TypesRoll
<1> QED
  BY <1>1, <1>3, <1>4, <1>5

\* Retiring the root, once every head is back, restores what was captured.
LEMMA RetiredRestores ==
  ASSUME LineageInv, DiskTyped, NEW t, TypesRoll(t), t.rooted \in BOOLEAN, Retired(t), t.orig # None,
         t.op = "approve" => t.asset \in Assets,
         t.op = "approve" => \A h \in HeadsOf(t.d) : Withdrawn(t, h),
         Baseline(t), PubFits(t), \A h \in HeadsOf(t.d) : Unharmed(t, h),
         NEW u, u.op = t.op, u.d = t.d, u.title = t.title, u.asset = t.asset, u.run = t.run,
         u.orig = t.orig, u.pub = t.pub, u.rooted = FALSE
  PROVE  Baseline(u)' /\ PubFits(u)' /\ Restored(u)'
<1>1. t.d \in Docsets /\ t.op \in {"approve", "register"} /\ HeadsOf(t.d) \subseteq Heads
      /\ DocsetHead(t.d) \in HeadsOf(t.d)
  BY HeadNames DEF TypesRoll, Transactions
<1>2. PICK F : F = Before(t)
  OBVIOUS
<1>3. OwnHeads(u) = OwnHeads(t) /\ OwnHeads(t) \subseteq HeadsOf(t.d)
  BY <1>1, OwnHeadsAreHeads DEF OwnHeads
<1>4. u.op = "register" =>
        u.asset = IF u.orig[DocsetHead(u.d)] = None THEN None ELSE u.orig[DocsetHead(u.d)].content.asset
  BY DEF Baseline
<1>5. ~Making(u)' /\ Home(u)' = dirs'
  BY DEF Making, Home
<1>6. CASE t.rooted = TRUE /\ t.op = "approve"
  <2>1. assets' = [assets EXCEPT ![t.asset] = None] /\ UNCHANGED <<file, dirs>>
    BY <1>6 DEF Retired
  <2>2. \A a \in Assets \ {t.asset} : assets'[a] = assets[a]
    BY <2>1 DEF DiskTyped
  <2>3. Before(u)' = F
    BY <1>2, <2>1 DEF Before
  <2>4. \A d \in Docsets : F[CurrentHead(d)] # None => F[CurrentHead(d)].content.asset # t.asset
    BY <1>2, <1>6 DEF Baseline
  <2>5. ASSUME NEW d \in dirs PROVE CoherentIn(Before(u), d)'
    <3>1. CoherentIn(F, d) /\ d \in Docsets
      BY <1>2, <1>6 DEF Baseline, Home, Making, DiskTyped
    <3>2. Verified(Said(F[CurrentHead(d)]))'
      <4>1. CASE Said(F[CurrentHead(d)]) = None
        BY <4>1 DEF Verified
      <4>2. CASE Said(F[CurrentHead(d)]) # None
        <5>1. /\ F[CurrentHead(d)] # None /\ Said(F[CurrentHead(d)]) = F[CurrentHead(d)].content
          BY <4>2 DEF Said
        <5>2. Said(F[CurrentHead(d)]).asset # t.asset
          BY <2>4, <3>1, <5>1
        <5>3. assets'[Said(F[CurrentHead(d)]).asset] = assets[Said(F[CurrentHead(d)]).asset]
          BY <2>1, <5>2 DEF DiskTyped
        <5> QED
          BY <3>1, <4>2, <5>3 DEF CoherentIn, Verified
      <4> QED
        BY <4>1, <4>2
    <3> QED
      BY <2>3, <3>1, <3>2 DEF CoherentIn
  <2>6. Baseline(u)'
    BY <1>4, <1>5, <1>6, <2>1, <2>3, <2>4, <2>5 DEF Baseline
  <2>7. PubFits(u)'
    <3>1. \A h \in OwnHeads(t) : u.pub[h] = None \/ file'[h] = None \/ file'[h].inode # u.pub[h]
      BY <1>3, <1>6, <2>1 DEF Withdrawn
    <3>2. \A h \in OwnHeads(u) : Genuine(u, h, file[h])'
      BY <1>3, <3>1 DEF Genuine
    <3>3. \A h \in OwnHeads(u)' : Genuine(u, h, file[h])'
      BY <3>2 DEF OwnHeads
    <3> QED
      BY <3>3 DEF PubFits
  <2>8. Restored(u)'
    BY <1>6, <2>1 DEF Restored, Unharmed, Making, Same
  <2> QED
    BY <2>6, <2>7, <2>8
<1>7. CASE t.rooted = TRUE /\ t.op = "register"
  <2>1. PICK s : s = DocsetHead(t.d)
    OBVIOUS
  <2>2. dirs' = dirs \ {t.d} /\ UNCHANGED assets /\ file' = [file EXCEPT ![s] = None]
    BY <1>7, <2>1 DEF Retired
  <2>3. file'[s] = None /\ \A g \in Heads \ {s} : file'[g] = file[g]
    BY <1>1, <2>1, <2>2 DEF LineageInv, Stored
  <2>4. Before(u)' = F
    BY <1>1, <1>2, <2>1, <2>3, BeforeStays
  <2>5. ASSUME NEW d \in dirs \ {t.d} PROVE CoherentIn(Before(u), d)'
    <3>1. CoherentIn(F, d)
      BY <1>2, <1>7 DEF Baseline, Home, Making
    <3> QED
      BY <2>2, <2>4, <3>1 DEF CoherentIn, Verified
  <2>6. Baseline(u)'
    BY <1>4, <1>5, <1>7, <2>2, <2>5 DEF Baseline
  <2>7. PubFits(u)'
    <3>1. ASSUME NEW h \in OwnHeads(t) PROVE Genuine(u, h, file[h])'
      <4>1. Genuine(t, h, file[h]) /\ Content(u, h)' = Content(t, h) /\ h \in Heads
        BY <1>1, <1>3, <2>2 DEF PubFits, Content
      <4> QED
        BY <2>3, <4>1 DEF Genuine
    <3> QED
      BY <1>3, <3>1 DEF PubFits, OwnHeads
  <2>8. \A h \in HeadsOf(t.d) : Same(file'[h], t.orig[h])
    <3>1. t.orig[s] = None
      BY <1>7, <2>1 DEF Baseline, Making
    <3>2. ASSUME NEW h \in HeadsOf(t.d) \ {s} PROVE Same(file'[h], t.orig[h])
      BY <1>1, <2>1, <2>3, <3>2 DEF Unharmed
    <3> QED
      BY <2>3, <3>1, <3>2 DEF Same
  <2>9. Restored(u)'
    BY <2>8 DEF Restored
  <2> QED
    BY <2>6, <2>7, <2>9
<1>8. CASE t.rooted = FALSE
  <2>1. UNCHANGED <<file, dirs, assets>>
    BY <1>8 DEF Retired
  <2>2. Alike(t, u)
    BY <1>8 DEF Alike
  <2>3. Baseline(u)'
    BY <1>1, <2>1, <2>2, BaselineStays
  <2>4. PubFits(u)'
    <3>1. \A h : Genuine(t, h, file[h]) => Genuine(u, h, file[h])'
      BY <2>1 DEF Genuine, Content
    <3> QED
      BY <1>3, <3>1 DEF PubFits, OwnHeads
  <2>5. Restored(u)'
    BY <1>8, <2>1 DEF Restored, Unharmed, Making, Same
  <2> QED
    BY <2>3, <2>4, <2>5
<1> QED
  BY <1>1, <1>6, <1>7, <1>8

LEMMA CleanUpKeepsHeads ==
  ASSUME LineageInv, LineageInv', TypesInv, HeadsInv, NEW p \in Procs, CleanUp(p)
  PROVE  TypesInv' /\ HeadsInv'
<1>1. PICK t : t = txn[p]
  OBVIOUS
<1>2. PICK u : u = [t EXCEPT !.rooted = FALSE]
  OBVIOUS
<1>3. PICK l : l = IF t.closing THEN "forcing" ELSE "unlocking"
  OBVIOUS
<1>4. pc[p] = "restoring" /\ t.todo = <<>> /\ UNCHANGED <<cleared, locks>> /\ ~t.failed
      /\ IF t.recovery THEN Leave(p) ELSE Enter(p, l, u)
  BY <1>1, <1>2, <1>3 DEF CleanUp
<1>5. /\ TxnFits("restoring", t) /\ TypesFit("restoring", t) /\ DiskTyped
      /\ CatalogLock \in locks /\ \A q \in Procs \ {p} : pc[q] = "idle"
  BY <1>1, <1>4, Acting
<1>6. Trusted => HeadsFit("restoring", t)
  BY <1>1, <1>4, Acting
<1>7. /\ TypesRoll(t) /\ t \in Transactions(t.d) /\ t.rooted \in BOOLEAN /\ t.failed = FALSE
      /\ t.recovery \in BOOLEAN /\ t.orig # None /\ t.d \in Docsets /\ t.raised = TRUE
  BY <1>4, <1>5 DEF TypesFit, TypesRoll, Transactions
<1>8. Retired(t)
  BY <1>1, <1>7 DEF CleanUp, Retired
<1>9. t.op = "approve" => t.asset \in Assets /\ \A h \in HeadsOf(t.d) \ Left(t) : Withdrawn(t, h)
  BY <1>5, <1>7 DEF TxnFits, ApprovalFits
<1>10. Left(t) = {}
  BY <1>4 DEF Left, Elems
<1>11. /\ u \in Transactions(t.d) /\ u.op = t.op /\ u.d = t.d /\ u.title = t.title /\ u.asset = t.asset
       /\ u.run = t.run /\ u.orig = t.orig /\ u.pub = t.pub /\ u.rooted = FALSE /\ u.raised = TRUE
  BY <1>2, <1>7 DEF Transactions
<1>12. DiskTyped' /\ TypesRoll(u)'
  BY <1>5, <1>7, <1>8, <1>9, <1>11, RetiredTypes
<1>13. CASE t.recovery = TRUE
  <2>1. Leave(p) /\ CatalogLock \in locks'
    BY <1>4, <1>5, <1>13
  <2> QED
    BY <1>4, <1>5, <1>12, <2>1, KeepingOut
<1>14. CASE t.recovery = FALSE
  <2>1. Enter(p, l, u) /\ l \in {"forcing", "unlocking"}
    BY <1>3, <1>4, <1>14
  <2>2. TypesFit(l, u)'
    BY <1>7, <1>11, <1>12, <2>1 DEF TypesFit, Forward, Working
  <2>3. ASSUME Trusted PROVE HeadsFit(l, u)'
    <3>1. Baseline(t) /\ PubFits(t) /\ RestoringFits(t)
      BY <1>6, <1>7, <2>3 DEF HeadsFit, PhaseFits
    <3>2. \A h \in HeadsOf(t.d) : Unharmed(t, h)
      BY <1>7, <1>10, <1>14, <3>1 DEF RestoringFits, Back
    <3>3. t.op = "approve" => \A h \in HeadsOf(t.d) : Withdrawn(t, h)
      BY <1>9, <1>10
    <3>4. Baseline(u)' /\ PubFits(u)' /\ Restored(u)'
      BY <1>5, <1>7, <1>8, <1>9, <1>11, <3>1, <3>2, <3>3, RetiredRestores
    <3> QED
      BY <1>7, <1>11, <2>1, <3>4 DEF HeadsFit, PhaseFits
  <2> QED
    BY <1>4, <1>5, <1>12, <2>1, <2>2, <2>3, KeepingOn
<1> QED
  BY <1>7, <1>13, <1>14

-----------------------------------------------------------------------------
(* Closing: the heads agree when the catalog's lock is given back.         *)

\* What the heads of a docset and the catalog say decides whether they agree.
LEMMA SameCoherent ==
  ASSUME NEW F, NEW G, NEW d, CoherentIn(F, d),
         \A h \in {DocsetHead(d), CurrentHead(d)} : Same(G[h], F[h]),
         CatalogOf(G[CatalogHead])[d] = CatalogOf(F[CatalogHead])[d]
  PROVE  CoherentIn(G, d)
<1>1. G[DocsetHead(d)] # None /\ G[DocsetHead(d)].content = F[DocsetHead(d)].content
  BY DEF CoherentIn, Same
<1>2. Said(G[CurrentHead(d)]) = Said(F[CurrentHead(d)])
  BY DEF Said, Same
<1> QED
  BY <1>1, <1>2 DEF CoherentIn

LEMMA RestoredAtRest ==
  ASSUME DiskTyped, NEW t, t.d \in Docsets, Baseline(t), Restored(t)
  PROVE  AtRest
<1>1. PICK F : F = Before(t)
  OBVIOUS
<1>2. ASSUME NEW h \in Heads PROVE Same(file[h], F[h])
  <2>1. CASE h \in HeadsOf(t.d)
    BY <1>1, <1>2, <2>1 DEF Restored, Before
  <2>2. CASE h \notin HeadsOf(t.d)
    BY <1>1, <1>2, <2>2 DEF Before, Same
  <2> QED
    BY <2>1, <2>2
<1>3. CatalogOf(file[CatalogHead]) = CatalogOf(F[CatalogHead])
  <2>1. CatalogHead \in Heads
    BY DEF Heads
  <2> QED
    BY <1>2, <2>1 DEF CatalogOf, Same
<1>4. ASSUME NEW d \in dirs PROVE CoherentIn(file, d)
  <2>1. CoherentIn(F, d) /\ d \in Docsets
    BY <1>1 DEF Baseline, Home, Making, Restored, DiskTyped
  <2>2. DocsetHead(d) \in Heads /\ CurrentHead(d) \in Heads
    BY <2>1 DEF Heads
  <2> QED
    BY <1>2, <1>3, <2>1, <2>2, SameCoherent
<1> QED
  BY <1>4, CoherentIsIn DEF AtRest

LEMMA FinishedAtRest ==
  ASSUME DiskTyped, NEW t, TypesRoll(t), t.orig # None, Baseline(t),
         t.op = "approve" => t.rooted = TRUE, \A h \in HeadsOf(t.d) : Finished(t, h)
  PROVE  AtRest
<1> DEFINE entry == [title |-> t.title, asset |-> t.asset]
<1>1. /\ t.d \in Docsets /\ t.op \in {"approve", "register"} /\ t \in Transactions(t.d)
      /\ \A h \in HeadsOf(t.d) : Typed(h, t.orig[h])
  BY DEF TypesRoll, Transactions
<1>2. PICK s, c, k : s = DocsetHead(t.d) /\ c = CurrentHead(t.d) /\ k = CatalogHead
  OBVIOUS
<1>3. /\ HeadsOf(t.d) = {s, c, k} /\ HeadsOf(t.d) \subseteq Heads /\ s # c /\ s # k /\ c # k
      /\ s \in OwnHeads(t) /\ k \in OwnHeads(t) /\ (c \in OwnHeads(t) <=> t.op = "approve")
  BY <1>1, <1>2, HeadNames DEF HeadsOf, OwnHeads
<1>4. /\ file[s] # None /\ file[s].content = entry
      /\ file[k] # None /\ file[k].content = [CatalogOf(t.orig[k]) EXCEPT ![t.d] = entry]
  <2>1. Written(t, s) /\ Written(t, k)
    BY <1>3 DEF Finished
  <2> QED
    BY <1>1, <1>2, <2>1, ContentIs DEF Written
<1>5. CatalogOf(t.orig[k]) \in Catalogs
  <2>1. t.orig[k] # None => t.orig[k].content \in Catalogs
    BY <1>1, <1>2, <1>3, Kinds DEF Typed
  <2>2. [d \in Docsets |-> None] \in Catalogs
    BY DEF Catalogs
  <2> QED
    BY <2>1, <2>2 DEF CatalogOf
<1>6. /\ CatalogOf(file[k])[t.d] = entry
      /\ \A d \in Docsets \ {t.d} : CatalogOf(file[k])[d] = CatalogOf(t.orig[k])[d]
  BY <1>1, <1>4, <1>5 DEF CatalogOf, Catalogs
<1>7. PICK F : F = Before(t)
  OBVIOUS
<1>8. /\ F[k] = t.orig[k] /\ F[s] = t.orig[s] /\ F[c] = t.orig[c]
      /\ \A h \in Heads \ HeadsOf(t.d) : F[h] = file[h]
  BY <1>3, <1>7 DEF Before
<1>9. ASSUME NEW d \in dirs, d # t.d PROVE CoherentIn(file, d)
  <2>1. CoherentIn(F, d) /\ d \in Docsets
    BY <1>7, <1>9 DEF Baseline, Home, DiskTyped
  <2>2. \A h \in {DocsetHead(d), CurrentHead(d)} : h \in Heads \ HeadsOf(t.d)
    BY <1>9, <2>1 DEF Heads, HeadsOf, DocsetHead, CurrentHead, CatalogHead
  <2>3. \A h \in {DocsetHead(d), CurrentHead(d)} : Same(file[h], F[h])
    BY <1>8, <2>2 DEF Same
  <2>4. CatalogOf(file[CatalogHead])[d] = CatalogOf(F[CatalogHead])[d]
    BY <1>2, <1>6, <1>8, <1>9, <2>1
  <2> QED
    BY <2>1, <2>3, <2>4, SameCoherent
<1>10. ASSUME t.d \in dirs PROVE CoherentIn(file, t.d)
  <2>1. CASE t.op = "approve"
    <3>1. file[c] # None /\ file[c].content = [asset |-> t.asset, digest |-> assets[t.asset]]
      <4>1. Written(t, c)
        BY <1>3, <2>1 DEF Finished
      <4> QED
        BY <1>1, <1>2, <4>1, ContentIs DEF Written
    <3>2. file[c].content \in Pointer
      BY <1>1, <1>2, <1>3, <3>1, Kinds DEF DiskTyped, Typed
    <3>3. /\ Said(file[c]) = file[c].content /\ Said(file[c]) # None
          /\ Said(file[c]).asset = t.asset /\ Said(file[c]).digest = assets[t.asset]
      BY <3>1, <3>2, AbsenceAssumption DEF Said
    <3> QED
      BY <1>2, <1>4, <1>6, <3>3 DEF CoherentIn, Bound, Verified
  <2>2. CASE t.op = "register"
    <3>1. file[c] = t.orig[c]
      BY <1>3, <2>2 DEF Finished, Untouched
    <3>2. t.asset = IF t.orig[s] = None THEN None ELSE t.orig[s].content.asset
      BY <1>2, <2>2 DEF Baseline
    <3>3. CASE Making(t)
      <4>1. t.orig[s] = None /\ t.orig[c] = None
        BY <1>2, <2>2, <3>3 DEF Baseline
      <4> QED
        BY <1>2, <1>4, <1>6, <3>1, <3>2, <4>1 DEF CoherentIn, Bound, Verified, Said
    <3>4. CASE ~Making(t)
      <4>1. CoherentIn(F, t.d)
        BY <1>7, <1>10, <3>4 DEF Baseline, Home
      <4>2. /\ t.orig[s] # None /\ Verified(Said(t.orig[c]))
            /\ t.orig[s].content.asset = IF Said(t.orig[c]) = None THEN None ELSE Said(t.orig[c]).asset
        BY <1>2, <1>8, <4>1 DEF CoherentIn, Bound
      <4> QED
        BY <1>2, <1>4, <1>6, <3>1, <3>2, <4>2 DEF CoherentIn, Bound
    <3> QED
      BY <3>3, <3>4
  <2> QED
    BY <1>1, <2>1, <2>2
<1> QED
  BY <1>9, <1>10, CoherentIsIn DEF AtRest

LEMMA UnlockDocsetKeepsHeads ==
  ASSUME LineageInv, LineageInv', TypesInv, HeadsInv, NEW p \in Procs, UnlockDocset(p)
  PROVE  TypesInv' /\ HeadsInv'
<1>1. PICK t : t = txn[p]
  OBVIOUS
<1>2. /\ pc[p] = "unlocking" /\ UNCHANGED <<file, dirs, assets, cleared>>
      /\ locks' = locks \ {DocsetLock(t.d)}
  BY <1>1 DEF UnlockDocset
<1>3. Enter(p, "releasing", t)
  BY <1>1, StayingEnters DEF UnlockDocset, LineageInv
<1>4. /\ TypesFit("unlocking", t) /\ CatalogLock \in locks
      /\ \A q \in Procs \ {p} : pc[q] = "idle"
  BY <1>1, <1>2, Acting
<1>5. Trusted => HeadsFit("unlocking", t)
  BY <1>1, <1>2, Acting
<1>6. CatalogLock \in locks'
  BY <1>2, <1>4 DEF CatalogLock, DocsetLock
<1>7. TypesFit("releasing", t)
  BY <1>4 DEF TypesFit, Forward, Working
<1>8. HeadsFit("unlocking", t) => HeadsFit("releasing", t)
  BY DEF HeadsFit, PhaseFits
<1> QED
  BY <1>2, <1>3, <1>4, <1>5, <1>6, <1>7, <1>8, QuietKeeping

LEMMA ClosedAtRest ==
  ASSUME LineageInv, TypesInv, HeadsInv, Trusted, NEW p \in Procs,
         pc[p] \in {"unlocking", "releasing", "forcing"}
  PROVE  AtRest
<1>1. PICK t, l : t = txn[p] /\ l = pc[p]
  OBVIOUS
<1>2. /\ TxnFits(l, t) /\ TypesFit(l, t) /\ DiskTyped /\ HeadsFit(l, t)
  BY <1>1, Acting
<1>3. TypesRoll(t) /\ t.d \in Docsets /\ t.raised \in BOOLEAN
  BY <1>2 DEF TypesFit, TypesRoll, Transactions
<1>4. CASE t.orig = None
  BY <1>2, <1>4 DEF HeadsFit
<1>5. CASE t.orig # None /\ (l = "forcing" \/ t.raised = TRUE)
  <2>1. Baseline(t) /\ Restored(t)
    BY <1>1, <1>2, <1>5 DEF HeadsFit, PhaseFits
  <2> QED
    BY <1>2, <1>3, <2>1, RestoredAtRest
<1>6. CASE t.orig # None /\ l # "forcing" /\ t.raised = FALSE
  <2>1. Baseline(t) /\ \A h \in HeadsOf(t.d) : Finished(t, h)
    BY <1>1, <1>2, <1>6 DEF HeadsFit, PhaseFits
  <2>2. t.op = "approve" => t.rooted = TRUE
    BY <1>1, <1>2, <1>6 DEF TxnFits, ApprovalFits
  <2> QED
    BY <1>2, <1>3, <1>6, <2>1, <2>2, FinishedAtRest
<1> QED
  BY <1>3, <1>4, <1>5, <1>6

LEMMA LeavingKeepsHeads ==
  ASSUME LineageInv, LineageInv', TypesInv, HeadsInv, NEW p \in Procs,
         UnlockCatalog(p) \/ Abandon(p) \/ ForceClose(p) \/ ForceCloseFails(p) \/ Crash(p)
  PROVE  TypesInv' /\ HeadsInv'
<1>1. pc[p] # "idle" /\ Leave(p) /\ UNCHANGED <<file, dirs, assets, cleared>>
  BY DEF UnlockCatalog, Abandon, ForceClose, ForceCloseFails, Crash, heads
<1>2. CatalogLock \in locks /\ \A q \in Procs \ {p} : pc[q] = "idle"
  BY <1>1, Acting
<1>3. CASE pc[p] \in {"unlocking", "releasing", "forcing"}
  BY <1>1, <1>2, <1>3, ClosedAtRest, QuietKeepingOut
<1>4. CASE pc[p] \notin {"unlocking", "releasing", "forcing"}
  <2>1. locks' = locks
    BY <1>4 DEF UnlockCatalog, Abandon, ForceClose, ForceCloseFails, Crash, heads
  <2> QED
    BY <1>1, <1>2, <2>1, QuietKeepingOut
<1> QED
  BY <1>3, <1>4

LEMMA UnlockFailsKeepsHeads ==
  ASSUME LineageInv, LineageInv', TypesInv, HeadsInv, NEW p \in Procs, UnlockFails(p)
  PROVE  TypesInv' /\ HeadsInv'
<1>1. PICK t, l : t = txn[p] /\ l = pc[p]
  OBVIOUS
<1>2. PICK u : u = [t EXCEPT !.closing = TRUE]
  OBVIOUS
<1>3. l \in {"unlocking", "releasing"} /\ UNCHANGED <<file, dirs, assets, cleared>> /\ UNCHANGED locks
  BY <1>1 DEF UnlockFails, heads
<1>4. /\ TypesFit(l, t) /\ DiskTyped /\ CatalogLock \in locks
      /\ \A q \in Procs \ {p} : pc[q] = "idle"
  BY <1>1, <1>3, Acting
<1>5. Trusted => HeadsFit(l, t)
  BY <1>1, <1>3, Acting
<1>6. TypesRoll(t) /\ t \in Transactions(t.d)
  BY <1>4 DEF TypesFit, TypesRoll
<1>7. /\ u \in Transactions(t.d) /\ Alike(t, u) /\ u.pub = t.pub /\ u.raised = t.raised /\ u.todo = t.todo
  BY <1>2, <1>6 DEF Transactions, Alike
<1>8. TypesRoll(u)
  BY <1>6, <1>7, AbsenceAssumption DEF TypesRoll, Alike
<1>9. \/ Leave(p)
      \/ u.orig = None /\ Enter(p, "forcing", u)
      \/ u.orig # None /\ Fail(p, u, FALSE)
  BY <1>1, <1>2 DEF UnlockFails
<1>10. CASE Leave(p)
  BY <1>3, <1>4, <1>10, QuietKeepingOut
<1>11. CASE u.orig = None /\ Enter(p, "forcing", u)
  <2>1. TypesFit("forcing", u)
    BY <1>8, <1>11 DEF TypesFit, Forward, Working
  <2>2. Trusted => HeadsFit("forcing", u)
    BY <1>5, <1>7, <1>11 DEF HeadsFit, Alike
  <2> QED
    BY <1>3, <1>4, <1>11, <2>1, <2>2, QuietKeeping
<1>12. CASE u.orig # None /\ Fail(p, u, FALSE)
  <2>1. ASSUME Trusted
        PROVE  /\ Baseline(u) /\ PubFits(u)
               /\ \A h \in HeadsOf(u.d) : u.pub[h] = None \/ h \notin OwnHeads(u) => Unharmed(u, h)
    <3>1. /\ OwnHeads(u) = OwnHeads(t) /\ HeadsOf(u.d) = HeadsOf(t.d) /\ Making(u) = Making(t)
          /\ NewManifest(u) = NewManifest(t)
      BY <1>7, AlikeSame
    <3>2. Baseline(t) /\ PubFits(t) /\ PhaseFits(l, t)
      BY <1>5, <1>7, <1>12, <2>1 DEF HeadsFit, Alike
    <3>3. Baseline(u)
      BY <1>7, <3>1, <3>2 DEF Baseline, Alike, Home, Before
    <3>4. PubFits(u)
      BY <1>7, <3>1, <3>2 DEF PubFits, Genuine, Content, Alike
    <3>5. ASSUME NEW h \in HeadsOf(t.d), t.pub[h] = None \/ h \notin OwnHeads(t)
          PROVE  Unharmed(t, h)
      <4>1. CASE t.raised = TRUE
        BY <1>3, <3>2, <3>5, <4>1 DEF PhaseFits, Restored, Unharmed
      <4>2. CASE t.raised = FALSE
        <5>1. Finished(t, h)
          BY <1>3, <3>2, <3>5, <4>2 DEF PhaseFits
        <5> QED
          BY <3>5, <5>1 DEF Finished, Written, Untouched, Unharmed, Same
      <4> QED
        BY <1>6, <4>1, <4>2 DEF Transactions
    <3>6. \A h : Unharmed(t, h) => Unharmed(u, h)
      BY <1>7, <3>1 DEF Unharmed, Alike
    <3> QED
      BY <1>7, <3>1, <3>3, <3>4, <3>5, <3>6
  <2> QED
    BY <1>3, <1>4, <1>8, <1>12, <2>1, QuietKeepingBack
<1> QED
  BY <1>9, <1>10, <1>11, <1>12

\* Readers, and an operator who removes locks.
LEMMA OthersKeepHeads ==
  ASSUME LineageInv, TypesInv, HeadsInv, UNCHANGED <<file, dirs, assets, pc, txn>>,
         UNCHANGED <<locks, cleared>> \/ (cleared \in Nat /\ cleared' = cleared + 1)
  PROVE  TypesInv' /\ HeadsInv'
<1>1. UNCHANGED <<file, dirs, assets>> /\ UNCHANGED <<pc, txn>>
  OBVIOUS
<1>2. DiskTyped'
  BY <1>1, NothingUntyped DEF TypesInv
<1>3. ASSUME NEW p \in Procs, pc[p] # "idle" PROVE TypesFit(pc[p], txn[p])' /\ (HeadsFit(pc[p], txn[p]) => HeadsFit(pc[p], txn[p])')
  <2>1. PICK l, t : l = pc[p] /\ t = txn[p]
    OBVIOUS
  <2>2. TypesFit(l, t)
    BY <1>3, <2>1 DEF TypesInv
  <2>3. TypesFit(l, t)' /\ (HeadsFit(l, t) => HeadsFit(l, t)')
    BY <1>1, <2>2, NothingChanges
  <2>4. l = pc'[p] /\ t = txn'[p]
    BY <1>1, <2>1
  <2> QED
    BY <2>1, <2>3, <2>4
<1>4. TypesInv'
  BY <1>1, <1>2, <1>3 DEF TypesInv
<1>5. AtRest => AtRest'
  BY <1>1, NothingChanges
<1>6. CASE UNCHANGED <<locks, cleared>>
  BY <1>1, <1>3, <1>4, <1>5, <1>6 DEF HeadsInv, Trusted
<1>7. CASE cleared \in Nat /\ cleared' = cleared + 1
  BY <1>4, <1>7 DEF HeadsInv, Trusted
<1> QED
  BY <1>6, <1>7

-----------------------------------------------------------------------------
(* The types of what is not on disk: locks, readers and history.           *)

RestTyped ==
  /\ locks \subseteq Locks /\ cleared \in 0..MaxClears
  /\ reading \in [Readers -> Readings \cup {None}] /\ seen \in [Readers -> BOOLEAN]
  /\ served \in [Docsets -> Pointer \cup {None}]
  /\ acked \in [Docsets -> SUBSET Assets]

LEMMA PointerTyped ==
  ASSUME DiskTyped, NEW d \in Docsets
  PROVE  PointerOf(d) \in Pointer \cup {None}
BY HeadNames, Kinds DEF DiskTyped, Typed, PointerOf

LEMMA ObservedTyped ==
  ASSUME DiskTyped', served \in [Docsets -> Pointer \cup {None}], seen \in [Readers -> BOOLEAN], Observe
  PROVE  served' \in [Docsets -> Pointer \cup {None}] /\ seen' \in [Readers -> BOOLEAN]
<1>1. ASSUME NEW d \in Docsets PROVE PointerOf(d)' \in Pointer \cup {None}
  <2>1. Typed(CurrentHead(d), file'[CurrentHead(d)])
    BY HeadNames DEF DiskTyped, Typed, Kind, Catalogs, Entry, Pointer, Manifest
  <2> QED
    BY <2>1, Kinds DEF Typed, PointerOf
<1>2. served' \in [Docsets -> Pointer \cup {None}]
  BY <1>1 DEF Observe
<1> QED
  BY <1>2 DEF Observe

LEMMA ReadTyped ==
  ASSUME DiskTyped, reading \in [Readers -> Readings \cup {None}], NEW r \in Readers, Read(r)
  PROVE  reading' \in [Readers -> Readings \cup {None}]
<1>1. reading[r] # None => reading[r] \in Readings
  OBVIOUS
<1>2. CASE ReadPointer(r)
  <2>1. PICK d \in dirs : reading' = [reading EXCEPT ![r] =
          [d |-> d, at |-> "docset", pointer |-> PointerOf(d), docset |-> None]]
    BY <1>2 DEF ReadPointer
  <2>2. d \in Docsets /\ PointerOf(d) \in Pointer \cup {None}
    BY PointerTyped DEF DiskTyped
  <2>3. [d |-> d, at |-> "docset", pointer |-> PointerOf(d), docset |-> None] \in Readings
    BY <2>2 DEF Readings
  <2> QED
    BY <2>1, <2>3
<1>3. CASE ReadDocset(r)
  <2>1. PICK f : f = file[DocsetHead(reading[r].d)]
    OBVIOUS
  <2>2. f # None => f.content \in Entry
    BY <1>1, <1>3, <2>1, HeadNames, Kinds DEF ReadDocset, Readings, DiskTyped, Typed
  <2>3. reading' = [reading EXCEPT ![r] =
          IF f = None THEN None ELSE [@ EXCEPT !.at = "catalog", !.docset = f.content]]
    BY <1>3, <2>1 DEF ReadDocset
  <2>4. f # None => [reading[r] EXCEPT !.at = "catalog", !.docset = f.content] \in Readings
    BY <1>1, <1>3, <2>2 DEF ReadDocset, Readings
  <2> QED
    BY <2>3, <2>4
<1>4. CASE ReadCatalog(r)
  <2>1. PICK x : x = reading[r]
    OBVIOUS
  <2>2. \A l \in {"done", "asset"} : [x EXCEPT !.docset = None, !.at = l] \in Readings
    BY <1>1, <1>4, <2>1 DEF ReadCatalog, Readings
  <2>3. PICK l \in {"done", "asset"} : l = IF x.pointer = None THEN "done" ELSE "asset"
    OBVIOUS
  <2>4. \/ reading' = [reading EXCEPT ![r] = None]
        \/ reading' = [reading EXCEPT ![r] = [x EXCEPT !.docset = None, !.at = l]]
    BY <1>4, <2>1, <2>3 DEF ReadCatalog
  <2> QED
    BY <2>2, <2>4
<1>5. CASE ReadAsset(r)
  <2>1. [reading[r] EXCEPT !.at = "done"] \in Readings
    BY <1>1, <1>5 DEF ReadAsset, Readings
  <2> QED
    BY <1>5, <2>1 DEF ReadAsset
<1>6. CASE ReadReturns(r)
  BY <1>6 DEF ReadReturns
<1> QED
  BY <1>2, <1>3, <1>4, <1>5, <1>6 DEF Read

\* Which locks and returned approvals a step of a transaction adds.
LEMMA StepsRest ==
  ASSUME LineageInv, TypesInv, RestTyped, NEW p \in Procs, Begin(p) \/ Step(p) \/ Crash(p)
  PROVE  /\ locks' \subseteq Locks /\ UNCHANGED <<reading, cleared>>
         /\ acked' \in [Docsets -> SUBSET Assets]
<1>1. \A d \in Docsets : DocsetLock(d) \in Locks /\ CatalogLock \in Locks
  BY DEF Locks
<1>2. CASE Begin(p)
  BY <1>1, <1>2 DEF Begin, ApproveBegin, RegisterBegin, RestTyped, Locks
<1>3. CASE LockDocset(p)
  <2>1. txn[p].d \in Docsets
    BY <1>3 DEF LockDocset, TypesInv, TypesFit, TypesRoll
  <2> QED
    BY <1>1, <1>3, <2>1 DEF LockDocset, RestTyped
<1>4. CASE UnlockCatalog(p)
  <2>1. pc[p] \in {"unlocking", "releasing"}
    BY <1>4 DEF UnlockCatalog
  <2>2. txn[p].d \in Docsets /\ (txn[p].op = "approve" => txn[p].asset \in Assets) /\ txn[p].op \in {"approve", "register"}
    BY <2>1, Alone DEF TypesInv, TypesFit, TypesRoll, TxnFits, ApprovalFits, Transactions
  <2> QED
    BY <1>4, <2>2 DEF UnlockCatalog, RestTyped
<1>5. CASE \/ CheckApproval(p) \/ CheckRegistration(p) \/ Refuse(p) \/ PublishRoot(p) \/ StageFails(p)
           \/ MoveHead(p) \/ WriteRefused(p) \/ LinkHead(p) \/ LinkFails(p)
           \/ VerifyFails(p) \/ RetireHead(p) \/ RetireFails(p)
  BY <1>5 DEF CheckApproval, CheckRegistration, Refuse, PublishRoot, StageFails, MoveHead, WriteRefused,
     LinkHead, LinkFails, VerifyFails, RetireHead, RetireFails, heads, RestTyped
<1>6. CASE \/ GiveUpLocking(p) \/ RestoreHead(p) \/ RestoreFails(p) \/ RelinkHead(p) \/ RelinkFails(p)
           \/ CleanUp(p) \/ Abandon(p) \/ UnlockDocset(p) \/ UnlockFails(p)
           \/ ForceClose(p) \/ ForceCloseFails(p) \/ Crash(p)
  BY <1>6 DEF GiveUpLocking, RestoreHead, RestoreFails, RelinkHead, RelinkFails, CleanUp, Abandon,
     UnlockDocset, UnlockFails, ForceClose, ForceCloseFails, Crash, heads, RestTyped
<1> QED
  BY <1>2, <1>3, <1>4, <1>5, <1>6 DEF Step

-----------------------------------------------------------------------------
(* Every step keeps the types and the heads.                               *)

AgreeInv == LineageInv /\ TypesInv /\ RestTyped /\ HeadsInv

LEMMA AgreeInvInit == Init => AgreeInv
<1> SUFFICES ASSUME Init PROVE AgreeInv
  OBVIOUS
<1>1. LineageInv
  BY LineageInvInit
<1>2. /\ \A p \in Procs : pc[p] = "idle" /\ txn[p] = None
      /\ \A h \in Heads : file[h] = None
      /\ dirs = {} /\ locks = {} /\ cleared = 0 /\ assets = [a \in Assets |-> None]
  BY DEF Init
<1>3. DiskTyped
  <2>1. \A d \in Docsets : DocsetHead(d) \in Heads /\ CurrentHead(d) \in Heads
    BY DEF Heads
  <2> QED
    BY <1>2, <2>1 DEF DiskTyped, Typed
<1>4. TypesInv
  BY <1>2, <1>3 DEF TypesInv
<1>5. RestTyped
  BY MaxClearsAssumption DEF Init, RestTyped
<1>6. HeadsInv
  BY <1>2 DEF HeadsInv, AtRest
<1> QED
  BY <1>1, <1>4, <1>5, <1>6 DEF AgreeInv

LEMMA TransactionsKeepHeads ==
  ASSUME LineageInv, LineageInv', TypesInv, HeadsInv, NEW p \in Procs, Begin(p) \/ Step(p) \/ Crash(p)
  PROVE  TypesInv' /\ HeadsInv'
<1>1. CASE Begin(p)
  BY <1>1, BeginKeepsHeads
<1>2. CASE \/ LockDocset(p) \/ GiveUpLocking(p)
           \/ CheckApproval(p) \/ CheckRegistration(p) \/ Refuse(p)
           \/ PublishRoot(p) \/ StageFails(p)
  BY <1>2, LockingKeepsHeads, CheckApprovalKeepsHeads, CheckRegistrationKeepsHeads,
     RefuseKeepsHeads, PublishRootKeepsHeads, StageFailsKeepsHeads
<1>3. CASE \/ MoveHead(p) \/ WriteRefused(p) \/ LinkHead(p) \/ LinkFails(p)
           \/ VerifyFails(p) \/ RetireHead(p) \/ RetireFails(p)
  BY <1>3, MoveHeadKeepsHeads, WriteRefusedKeepsHeads, LinkHeadKeepsHeads, LinkFailsKeepsHeads,
     RetireHeadKeepsHeads
<1>4. CASE \/ RestoreHead(p) \/ RestoreFails(p) \/ RelinkHead(p) \/ RelinkFails(p)
           \/ CleanUp(p) \/ Abandon(p)
  BY <1>4, RestoreHeadKeepsHeads, RestoreFailsKeepsHeads, RelinkHeadKeepsHeads, CleanUpKeepsHeads,
     LeavingKeepsHeads
<1>5. CASE \/ UnlockDocset(p) \/ UnlockCatalog(p) \/ UnlockFails(p)
           \/ ForceClose(p) \/ ForceCloseFails(p) \/ Crash(p)
  BY <1>5, UnlockDocsetKeepsHeads, UnlockFailsKeepsHeads, LeavingKeepsHeads
<1> QED
  BY <1>1, <1>2, <1>3, <1>4, <1>5 DEF Step

LEMMA AgreeInvNext == AgreeInv /\ [Next]_vars => AgreeInv'
<1> SUFFICES ASSUME AgreeInv, [Next]_vars PROVE AgreeInv'
  OBVIOUS
<1>1. LineageInv'
  BY LineageInvNext DEF AgreeInv
<1>2. LineageInv /\ TypesInv /\ RestTyped /\ HeadsInv /\ DiskTyped
  BY DEF AgreeInv, TypesInv
<1>3. cleared \in Nat
  BY <1>2, MaxClearsAssumption DEF RestTyped
<1>4. ASSUME NEW p \in Procs, Begin(p) \/ Step(p) \/ Crash(p), Observe PROVE AgreeInv'
  <2>1. TypesInv' /\ HeadsInv'
    BY <1>1, <1>2, <1>4, TransactionsKeepHeads
  <2>2. /\ locks' \subseteq Locks /\ UNCHANGED <<reading, cleared>>
        /\ acked' \in [Docsets -> SUBSET Assets]
    BY <1>2, <1>4, StepsRest
  <2>3. served' \in [Docsets -> Pointer \cup {None}] /\ seen' \in [Readers -> BOOLEAN]
    BY <1>2, <1>4, <2>1, ObservedTyped DEF TypesInv, RestTyped
  <2> QED
    BY <1>1, <1>2, <2>1, <2>2, <2>3 DEF AgreeInv, RestTyped
<1>5. CASE ClearLocks /\ Observe
  <2>1. /\ UNCHANGED <<file, dirs, assets, pc, txn>> /\ UNCHANGED reading /\ UNCHANGED acked
        /\ locks' \subseteq locks /\ cleared < MaxClears /\ cleared' = cleared + 1
    BY <1>5 DEF ClearLocks
  <2>2. TypesInv' /\ HeadsInv'
    BY <1>2, <1>3, <2>1, OthersKeepHeads
  <2>3. served' \in [Docsets -> Pointer \cup {None}] /\ seen' \in [Readers -> BOOLEAN]
    BY <1>2, <1>5, <2>2, ObservedTyped DEF TypesInv, RestTyped
  <2>4. cleared' \in 0..MaxClears
    BY <1>3, <2>1, MaxClearsAssumption
  <2> QED
    BY <1>1, <1>2, <2>1, <2>2, <2>3, <2>4 DEF AgreeInv, RestTyped
<1>6. ASSUME NEW r \in Readers, Read(r), Observe PROVE AgreeInv'
  <2>1. UNCHANGED <<file, dirs, assets, pc, txn>> /\ UNCHANGED <<locks, cleared>> /\ UNCHANGED acked
    BY <1>6 DEF Read, ReadPointer, ReadDocset, ReadCatalog, ReadAsset, ReadReturns, heads
  <2>2. TypesInv' /\ HeadsInv'
    BY <1>2, <2>1, OthersKeepHeads
  <2>3. served' \in [Docsets -> Pointer \cup {None}] /\ seen' \in [Readers -> BOOLEAN]
    BY <1>2, <1>6, <2>2, ObservedTyped DEF TypesInv, RestTyped
  <2>4. reading' \in [Readers -> Readings \cup {None}]
    BY <1>2, <1>6, ReadTyped DEF RestTyped
  <2> QED
    BY <1>1, <1>2, <2>1, <2>2, <2>3, <2>4 DEF AgreeInv, RestTyped
<1>7. CASE UNCHANGED vars
  <2>1. /\ UNCHANGED <<file, dirs, assets, pc, txn>> /\ UNCHANGED <<locks, cleared>>
        /\ UNCHANGED <<reading, seen, served, acked>>
    BY <1>7 DEF vars, heads
  <2>2. TypesInv' /\ HeadsInv'
    BY <1>2, <2>1, OthersKeepHeads
  <2> QED
    BY <1>1, <1>2, <2>1, <2>2 DEF AgreeInv, RestTyped
<1> QED
  BY <1>4, <1>5, <1>6, <1>7 DEF Next

\* Every variable has its type: in particular a process has a transaction
\* exactly while it works on one, its snapshot and its list of heads are of the
\* docset's own heads, and an asset root has a docset directory.
THEOREM Types == Spec => []TypeOK
<1>1. AgreeInv => TypeOK
  <2> SUFFICES ASSUME AgreeInv PROVE TypeOK
    OBVIOUS
  <2>1. DiskTyped /\ RestTyped /\ LineageInv /\ TypesInv
    BY DEF AgreeInv, TypesInv
  <2>2. \A d \in Docsets :
          /\ file[DocsetHead(d)] # None => file[DocsetHead(d)].content \in Entry
          /\ file[CurrentHead(d)] # None => file[CurrentHead(d)].content \in Pointer
          /\ d \notin dirs => file[DocsetHead(d)] = None /\ file[CurrentHead(d)] = None
    BY <2>1, HeadNames, Kinds DEF DiskTyped, Typed
  <2>3. Catalog \in Catalogs
    <3>1. CatalogHead \in Heads /\ Kind(CatalogHead) = Catalogs
      BY DEF Heads, Kind
    <3>2. [d \in Docsets |-> None] \in Catalogs
      BY DEF Catalogs
    <3> QED
      BY <2>1, <3>1, <3>2 DEF DiskTyped, Typed, Catalog
  <2>4. \A p \in Procs : IF pc[p] = "idle" THEN txn[p] = None
                          ELSE txn[p] # None /\ txn[p] \in Transactions(txn[p].d)
    BY <2>1 DEF TypesInv, TypesFit, TypesRoll
  <2>5. pc \in [Procs -> Labels]
    BY <2>1 DEF LineageInv, LockInv, Shapes
  <2> QED
    BY <2>1, <2>2, <2>3, <2>4, <2>5 DEF TypeOK, DiskTyped, RestTyped
<1> QED
  BY <1>1, AgreeInvInit, AgreeInvNext, PTL DEF Spec

\* With identities that can be verified, heads that do not agree are never left
\* without a lock, whatever failed and wherever a process died: an operator
\* who finds no lock finds a foundry whose heads agree (approve.py:
\* _raise_approval_failure, register.py: rollback; the promise of
\* DESIGN_DECISIONS.md).
THEOREM NobodyFindsThemApart ==
  ASSUME IdentityFaults = FALSE
  PROVE  Spec => []QuiescentHeadsAgree
<1>1. AgreeInv => QuiescentHeadsAgree
  BY DEF AgreeInv, HeadsInv, Trusted, AtRest, QuiescentHeadsAgree, CatalogLock
<1> QED
  BY <1>1, AgreeInvInit, AgreeInvNext, PTL DEF Spec

\* The promise of DESIGN_DECISIONS.md that uncertain heads stay locked, which a
\* verification that raises breaks (uncertain heads, idle processes, no lock),
\* holds wherever verifications answer: whoever died or gave up, a docset
\* whose heads disagree has its lock or the catalog's.
THEOREM UncertainHeadsStayLocked ==
  ASSUME IdentityFaults = FALSE
  PROVE  Spec => []UncertaintyStaysLocked
<1>1. AgreeInv => UncertaintyStaysLocked
  BY DEF AgreeInv, HeadsInv, Trusted, AtRest, UncertaintyStaysLocked
<1> QED
  BY <1>1, AgreeInvInit, AgreeInvNext, PTL DEF Spec

-----------------------------------------------------------------------------
(* Lineages: every root descends from its docset's pointer while nobody    *)
(* runs, and from the captured one while a transaction does, apart from    *)
(* the root that transaction has published.                                *)

Leads(f, a) == f # None /\ Reaches(f.content.asset, a)

Theirs(t) == IF t.op = "approve" /\ t.rooted = TRUE THEN {t.asset} ELSE {}

RootsFit == \A a \in Assets : assets[a] # None => Leads(file[CurrentHead(assets[a].docset)], a)

DescentFits(t) ==
  IF t.orig = None THEN RootsFit
  ELSE \A a \in Assets \ Theirs(t) :
         assets[a] # None => Leads(Before(t)[CurrentHead(assets[a].docset)], a)

\* What is known of a returned approval, whatever transaction runs.
AckedDescend ==
  \A d \in Docsets : \A a \in acked[d] :
    /\ a \in Assets /\ assets[a] # None /\ assets[a].docset = d
    /\ file[CurrentHead(d)] # None => Leads(file[CurrentHead(d)], a)

DescentInv ==
  Trusted => /\ AckedDescend
             /\ CatalogLock \notin locks => RootsFit
             /\ \A p \in Procs : pc[p] # "idle" => DescentFits(txn[p])

\* Reaching is transitive, one step at a time.
LEMMA ReachesOn ==
  ASSUME NEW x \in Assets, NEW a, assets[x] # None, assets[x].supersedes # None,
         Reaches(assets[x].supersedes, a)
  PROVE  Reaches(x, a)
BY DEF Reaches

LEMMA ReachesItself ==
  ASSUME NEW x
  PROVE  Reaches(x, x)
BY DEF Reaches

LEMMA ReachesStays ==
  ASSUME UNCHANGED assets, NEW x, NEW a
  PROVE  Reaches(x, a)' <=> Reaches(x, a)
BY DEF Reaches

\* A new root cuts nothing off.
LEMMA RootAdded ==
  ASSUME LineageInv, NEW n \in Assets, NEW m, assets[n] = None, assets' = [assets EXCEPT ![n] = m],
         NEW x, NEW a, Reaches(x, a)
  PROVE  Reaches(x, a)'
<1>1. \A b \in Assets : assets[b] # None => assets'[b] = assets[b]
  BY DEF LineageInv, Stored
<1>2. ASSUME NEW S \in SUBSET Assets, x \in S,
             \A b \in S : assets'[b] # None /\ assets'[b].supersedes # None => assets'[b].supersedes \in S
      PROVE  a \in S
  <2>1. \A b \in S : assets[b] # None /\ assets[b].supersedes # None => assets[b].supersedes \in S
    BY <1>1, <1>2
  <2> QED
    BY <1>2, <2>1 DEF Reaches
<1> QED
  BY <1>2 DEF Reaches

\* A retired root that nothing supersedes was on nobody's way.
LEMMA RootRemoved ==
  ASSUME LineageInv, NEW n \in Assets, assets' = [assets EXCEPT ![n] = None],
         \A b \in Assets : assets[b] # None => assets[b].supersedes # n,
         NEW x, x # n, NEW a, Reaches(x, a)
  PROVE  Reaches(x, a)'
<1>1. \A b \in Assets \ {n} : assets'[b] = assets[b]
  BY DEF LineageInv, Stored
<1>2. ASSUME NEW S \in SUBSET Assets, x \in S,
             \A b \in S : assets'[b] # None /\ assets'[b].supersedes # None => assets'[b].supersedes \in S
      PROVE  a \in S
  <2>1. S \ {n} \in SUBSET Assets /\ x \in S \ {n}
    BY <1>2
  <2>2. \A b \in S \ {n} : assets[b] # None /\ assets[b].supersedes # None => assets[b].supersedes \in S \ {n}
    BY <1>1, <1>2
  <2>3. a \in S \ {n}
    BY <2>1, <2>2 DEF Reaches
  <2> QED
    BY <2>3
<1> QED
  BY <1>2 DEF Reaches

-----------------------------------------------------------------------------
(* Transactions that go on or leave.                                       *)

LEMMA DescentGoesOn ==
  ASSUME LineageInv, NEW p \in Procs, \A q \in Procs \ {p} : pc[q] = "idle",
         NEW l, NEW t, Enter(p, l, t), CatalogLock \in locks', UNCHANGED cleared,
         Trusted => AckedDescend' /\ DescentFits(t)'
  PROVE  DescentInv'
<1>1. txn'[p] = t /\ \A q \in Procs \ {p} : pc'[q] = "idle"
  BY DEF Enter, Goto, LineageInv, LockInv, Shapes
<1>2. Trusted' => Trusted
  BY DEF Trusted
<1> QED
  BY <1>1, <1>2 DEF DescentInv

LEMMA DescentGoesOut ==
  ASSUME LineageInv, NEW p \in Procs, \A q \in Procs \ {p} : pc[q] = "idle",
         Leave(p), UNCHANGED cleared,
         Trusted => AckedDescend' /\ (CatalogLock \notin locks' => RootsFit')
  PROVE  DescentInv'
<1>1. \A q \in Procs : pc'[q] = "idle"
  BY DEF Leave, Goto, LineageInv, LockInv, Shapes
<1>2. Trusted' => Trusted
  BY DEF Trusted
<1> QED
  BY <1>1, <1>2 DEF DescentInv

\* A failing transaction is, to its lineage, the transaction it was.
LEMMA DescentFails ==
  ASSUME LineageInv, NEW p \in Procs, \A q \in Procs \ {p} : pc[q] = "idle",
         NEW t, t \in Transactions(t.d), NEW recovery, Fail(p, t, recovery), CatalogLock \in locks', UNCHANGED cleared,
         Trusted => AckedDescend' /\ DescentFits(t)'
  PROVE  DescentInv'
<1>1. PICK u : u = [t EXCEPT !.raised = TRUE, !.recovery = recovery, !.todo = RestoreOrder(t)]
  OBVIOUS
<1>2. Enter(p, "restoring", u)
  BY <1>1 DEF Fail
<1>3. u.orig = t.orig /\ u.d = t.d /\ u.op = t.op /\ u.rooted = t.rooted /\ u.asset = t.asset
  BY <1>1 DEF Transactions
<1>4. DescentFits(t)' => DescentFits(u)'
  BY <1>3 DEF DescentFits, Theirs, Before, RootsFit
<1> QED
  BY <1>2, <1>4, DescentGoesOn

\* A step that leaves the pointers and the roots alone.
LEMMA DescentStays ==
  ASSUME LineageInv, DiskTyped, UNCHANGED assets,
         \A d \in Docsets : file'[CurrentHead(d)] = file[CurrentHead(d)]
  PROVE  /\ RootsFit => RootsFit'
         /\ AckedDescend /\ UNCHANGED acked => AckedDescend'
         /\ \A t, u : /\ u.op = t.op /\ u.d = t.d /\ u.asset = t.asset /\ u.orig = t.orig /\ u.rooted = t.rooted
                      /\ t.d \in Docsets /\ DescentFits(t)
                      => DescentFits(u)'
<1>1. \A f, a : Leads(f, a)' <=> Leads(f, a)
  BY ReachesStays DEF Leads
<1>2. \A a \in Assets : assets[a] # None => assets[a].docset \in Docsets
  BY DEF DiskTyped
<1>3. RootsFit => RootsFit'
  BY <1>1, <1>2 DEF RootsFit
<1>4. AckedDescend /\ UNCHANGED acked => AckedDescend'
  BY <1>1 DEF AckedDescend
<1>5. ASSUME NEW t, NEW u, u.op = t.op, u.d = t.d, u.asset = t.asset, u.orig = t.orig, u.rooted = t.rooted,
             t.d \in Docsets, DescentFits(t)
      PROVE  DescentFits(u)'
  <2>1. CASE t.orig = None
    BY <1>3, <1>5, <2>1 DEF DescentFits
  <2>2. CASE t.orig # None
    <3>1. \A d \in Docsets : CurrentHead(d) \in Heads
      BY DEF Heads
    <3>2. \A d \in Docsets : Before(u)'[CurrentHead(d)] = Before(t)[CurrentHead(d)]
      BY <1>5, <3>1 DEF Before
    <3>3. Theirs(u) = Theirs(t)
      BY <1>5 DEF Theirs
    <3>4. ASSUME NEW a \in Assets \ Theirs(u), assets[a] # None
          PROVE  Leads(Before(u)[CurrentHead(assets[a].docset)], a)'
      <4>1. Leads(Before(t)[CurrentHead(assets[a].docset)], a)
        BY <2>2, <3>3, <3>4, <1>5 DEF DescentFits
      <4>2. Before(u)'[CurrentHead(assets[a].docset)] = Before(t)[CurrentHead(assets[a].docset)]
        BY <1>2, <3>2, <3>4
      <4>3. assets' = assets
        OBVIOUS
      <4>4. PICK f : f = Before(t)[CurrentHead(assets[a].docset)]
        OBVIOUS
      <4>5. Before(u)'[CurrentHead(assets'[a].docset)] = f
        BY <4>2, <4>3, <4>4
      <4>6. Leads(f, a)'
        BY <1>1, <4>1, <4>4
      <4> QED
        BY <4>5, <4>6 DEF Leads
    <3>5. Theirs(u)' = Theirs(u)
      BY DEF Theirs
    <3>6. u.orig # None
      BY <1>5, <2>2
    <3> QED
      BY <3>4, <3>5, <3>6 DEF DescentFits
  <2> QED
    BY <2>1, <2>2
<1> QED
  BY <1>3, <1>4, <1>5

-----------------------------------------------------------------------------
(* Steps of a transaction that goes on, by what they write: nothing, or    *)
(* the head in turn, which is moved aside, linked or put back, and in a    *)
(* rollback taken away, if it is still what was published, or put back.    *)

Rewrites(p) ==
  LET t == txn[p]  h == Turn(t) IN
  \/ /\ UNCHANGED file /\ pc'[p] \notin {"linking", "relinking"}
     /\ pc[p] \in {"linking", "restoring", "relinking"} => pc'[p] = "restoring"
  \/ /\ t.todo # <<>>
     /\ \E f : /\ file' = [file EXCEPT ![h] = f]
               /\ \/ /\ pc[p] = "writing" /\ pc'[p] = "linking" /\ txn'[p].todo = t.todo
                     /\ f = None
                  \/ /\ pc[p] = "linking" /\ pc'[p] = "retiring" /\ txn'[p].todo = t.todo
                     /\ f.content = Content(t, h)
                  \/ pc[p] = "linking" /\ pc'[p] = "restoring" /\ f = t.orig[h]
                  \/ /\ pc[p] = "restoring" /\ file[h] # None /\ file[h].inode = t.pub[h]
                     /\ f = None
                     /\ \/ pc'[p] = "restoring"
                        \/ pc'[p] = "relinking" /\ txn'[p].todo = t.todo /\ t.orig[h] # None
                  \/ /\ pc[p] = "relinking" /\ pc'[p] = "restoring" /\ t.orig[h] # None
                     /\ f.content \in {t.orig[h].content, Content(t, h)}

GoesOn(p) ==
  /\ pc[p] # "idle" /\ pc'[p] # "idle" /\ Alike(txn[p], txn'[p])
  /\ Rewrites(p) /\ UNCHANGED <<dirs, assets, acked, cleared>>

LEMMA Entered ==
  ASSUME LineageInv, NEW p \in Procs, NEW l, NEW t, Enter(p, l, t)
  PROVE  pc'[p] = l /\ txn'[p] = t
BY DEF Enter, Goto, LineageInv, LockInv, Shapes

LEMMA Stayed ==
  ASSUME LineageInv, NEW p \in Procs, NEW l, Goto(p, l), UNCHANGED txn
  PROVE  pc'[p] = l /\ txn'[p] = txn[p] /\ Alike(txn[p], txn'[p])
BY DEF Goto, LineageInv, LockInv, Shapes, Alike

LEMMA Failed ==
  ASSUME LineageInv, NEW p \in Procs, NEW t, t \in Transactions(t.d), NEW recovery, Fail(p, t, recovery)
  PROVE  /\ pc'[p] = "restoring" /\ Alike(t, txn'[p])
         /\ txn'[p].pub = t.pub /\ txn'[p].todo = RestoreOrder(t) /\ txn'[p].failed = t.failed
<1>1. PICK u : u = [t EXCEPT !.raised = TRUE, !.recovery = recovery, !.todo = RestoreOrder(t)]
  OBVIOUS
<1>2. Enter(p, "restoring", u)
  BY <1>1 DEF Fail
<1>3. Alike(t, u) /\ u.pub = t.pub /\ u.todo = RestoreOrder(t) /\ u.failed = t.failed
  BY <1>1 DEF Alike, Transactions
<1> QED
  BY <1>2, <1>3, Entered

LEMMA QuietStepsGoOn ==
  ASSUME LineageInv, TypesInv, NEW p \in Procs,
         LockDocset(p) \/ Refuse(p) \/ StageFails(p) \/ WriteRefused(p) \/ RetireHead(p)
           \/ RetireFails(p) \/ RestoreFails(p) \/ UnlockDocset(p)
  PROVE  GoesOn(p)
<1>1. PICK t : t = txn[p]
  OBVIOUS
<1>2. pc[p] # "idle" /\ UNCHANGED <<file, dirs, assets, acked, cleared>>
  BY DEF LockDocset, Refuse, StageFails, WriteRefused, RetireHead, RetireFails, RestoreFails, UnlockDocset, heads
<1>3. t \in Transactions(t.d)
  BY <1>1, <1>2 DEF TypesInv, TypesFit, TypesRoll
<1>4. /\ pc'[p] \notin {"idle", "linking", "relinking"} /\ Alike(t, txn'[p])
      /\ pc[p] \in {"linking", "restoring", "relinking"} => pc'[p] = "restoring"
  <2>1. CASE LockDocset(p) \/ UnlockDocset(p)
    <3>1. PICK l \in {"checking", "releasing"} : Goto(p, l) /\ UNCHANGED txn
      BY <2>1 DEF LockDocset, UnlockDocset
    <3>2. pc[p] \in {"locking", "unlocking"}
      BY <2>1 DEF LockDocset, UnlockDocset
    <3> QED
      BY <1>1, <3>1, <3>2, Stayed
  <2>2. CASE Refuse(p)
    <3>1. Enter(p, "unlocking", [t EXCEPT !.raised = TRUE])
      BY <1>1, <2>2 DEF Refuse
    <3>2. Alike(t, [t EXCEPT !.raised = TRUE])
      BY <1>3 DEF Alike, Transactions
    <3> QED
      BY <2>2, <3>1, <3>2, Entered DEF Refuse
  <2>3. CASE StageFails(p) \/ WriteRefused(p) \/ RetireFails(p)
    <3>1. PICK recovery : Fail(p, t, recovery)
      BY <1>1, <2>3 DEF StageFails, WriteRefused, RetireFails
    <3> QED
      BY <1>3, <3>1, Failed
  <2>4. CASE RetireHead(p)
    <3>1. PICK l \in {"unlocking", "writing"} : Enter(p, l, Advanced(t))
      BY <1>1, <2>4 DEF RetireHead
    <3>2. Alike(t, Advanced(t))
      BY <1>3 DEF Alike, Advanced, Transactions
    <3> QED
      BY <2>4, <3>1, <3>2, Entered DEF RetireHead
  <2>5. CASE RestoreFails(p)
    <3>1. Enter(p, "restoring", [Advanced(t) EXCEPT !.failed = TRUE])
      BY <1>1, <2>5 DEF RestoreFails
    <3>2. Alike(t, [Advanced(t) EXCEPT !.failed = TRUE])
      BY <1>3 DEF Alike, Advanced, Transactions
    <3> QED
      BY <3>1, <3>2, Entered
  <2> QED
    BY <2>1, <2>2, <2>3, <2>4, <2>5
<1> QED
  BY <1>1, <1>2, <1>4 DEF GoesOn, Rewrites

LEMMA WritingStepsGoOn ==
  ASSUME LineageInv, TypesInv, Trusted, NEW p \in Procs,
         MoveHead(p) \/ LinkHead(p) \/ LinkFails(p) \/ VerifyFails(p)
  PROVE  GoesOn(p)
<1>1. PICK t, h : t = txn[p] /\ h = Turn(t)
  OBVIOUS
<1>2. pc[p] \in {"writing", "linking"} /\ UNCHANGED <<dirs, assets, acked, cleared>>
  BY DEF MoveHead, LinkHead, LinkFails, VerifyFails
<1>3. t \in Transactions(t.d) /\ t.todo # <<>>
  BY <1>1, <1>2, Alone DEF TypesInv, TypesFit, TypesRoll, TxnFits
<1>4. CASE MoveHead(p)
  <2>1. file' = [file EXCEPT ![h] = None] /\ Goto(p, "linking") /\ UNCHANGED txn /\ pc[p] = "writing"
    BY <1>1, <1>4 DEF MoveHead, Turn
  <2>2. pc'[p] = "linking" /\ txn'[p].todo = t.todo /\ Alike(t, txn'[p])
    BY <1>1, <2>1, Stayed
  <2> QED
    BY <1>1, <1>2, <1>3, <2>1, <2>2 DEF GoesOn, Rewrites
<1>5. CASE LinkHead(p)
  <2>1. PICK n : n = Fresh(h)
    OBVIOUS
  <2>2. PICK f : f = [content |-> Content(t, h), inode |-> n]
    OBVIOUS
  <2>3. /\ file' = [file EXCEPT ![h] = f] /\ f.content = Content(t, h)
        /\ Enter(p, "retiring", [t EXCEPT !.pub[h] = n]) /\ pc[p] = "linking"
    BY <1>1, <1>5, <2>1, <2>2 DEF LinkHead, NewFile, Turn
  <2>4. Alike(t, [t EXCEPT !.pub[h] = n]) /\ [t EXCEPT !.pub[h] = n].todo = t.todo
    BY <1>3 DEF Alike, Transactions
  <2>5. pc'[p] = "retiring" /\ txn'[p].todo = t.todo /\ Alike(t, txn'[p])
    BY <2>3, <2>4, Entered
  <2> QED
    BY <1>1, <1>2, <1>3, <2>3, <2>5 DEF GoesOn, Rewrites
<1>6. CASE LinkFails(p)
  <2>1. /\ pc[p] = "linking" /\ \E recovery : Fail(p, t, recovery)
        /\ UNCHANGED file \/ file' = [file EXCEPT ![h] = t.orig[h]]
    BY <1>1, <1>6 DEF LinkFails, Turn
  <2>2. pc'[p] = "restoring" /\ Alike(t, txn'[p])
    BY <1>3, <2>1, Failed
  <2> QED
    BY <1>1, <1>2, <1>3, <2>1, <2>2 DEF GoesOn, Rewrites
<1>7. CASE VerifyFails(p)
  BY <1>7 DEF VerifyFails, Trusted
<1> QED
  BY <1>4, <1>5, <1>6, <1>7

LEMMA RestoringStepsGoOn ==
  ASSUME LineageInv, TypesInv, NEW p \in Procs, RestoreHead(p) \/ RelinkHead(p) \/ RelinkFails(p)
  PROVE  GoesOn(p)
<1>1. PICK t, h : t = txn[p] /\ h = Turn(t)
  OBVIOUS
<1>2. pc[p] \in {"restoring", "relinking"} /\ UNCHANGED <<dirs, assets, acked, cleared>>
  BY DEF RestoreHead, RelinkHead, RelinkFails
<1>3. t \in Transactions(t.d) /\ t.todo # <<>>
  BY <1>1, <1>2, Alone DEF TypesInv, TypesFit, TypesRoll, TxnFits, RestoreHead, RelinkHead, RelinkFails
<1>4. \A failed : Alike(t, [Advanced(t) EXCEPT !.failed = failed])
  BY <1>3 DEF Alike, Advanced, Transactions
<1>5. CASE RestoreHead(p)
  <2>1. /\ pc[p] = "restoring" /\ file[h] # None /\ file[h].inode = t.pub[h]
        /\ file' = [file EXCEPT ![h] = None]
    BY <1>1, <1>5 DEF RestoreHead, Turn
  <2>2. CASE t.orig[h] = None
    <3>1. PICK failed : Enter(p, "restoring", [Advanced(t) EXCEPT !.failed = failed])
      <4>1. \E failed \in BOOLEAN : Enter(p, "restoring", [Advanced(t) EXCEPT !.failed = @ \/ failed])
        BY <1>1, <1>5, <2>2 DEF RestoreHead, Turn
      <4> QED
        BY <4>1
    <3>2. pc'[p] = "restoring" /\ Alike(t, txn'[p])
      BY <1>4, <3>1, Entered
    <3> QED
      BY <1>1, <1>2, <1>3, <2>1, <3>2 DEF GoesOn, Rewrites
  <2>3. CASE t.orig[h] # None
    <3>1. Goto(p, "relinking") /\ UNCHANGED txn
      BY <1>1, <1>5, <2>3 DEF RestoreHead, Turn
    <3>2. pc'[p] = "relinking" /\ txn'[p].todo = t.todo /\ Alike(t, txn'[p])
      BY <1>1, <3>1, Stayed
    <3> QED
      BY <1>1, <1>2, <1>3, <2>1, <2>3, <3>2 DEF GoesOn, Rewrites
  <2> QED
    BY <2>2, <2>3
<1>6. CASE RelinkHead(p) \/ RelinkFails(p)
  <2>1. pc[p] = "relinking" /\ t.orig[h] # None
    BY <1>1, <1>6 DEF RelinkHead, RelinkFails, TypesInv, TypesFit, Turn
  <2>2. PICK failed : Enter(p, "restoring", [Advanced(t) EXCEPT !.failed = failed])
    <3>1. CASE RelinkHead(p)
      <4>1. \E failed \in BOOLEAN : Enter(p, "restoring", [Advanced(t) EXCEPT !.failed = @ \/ failed])
        BY <1>1, <3>1 DEF RelinkHead
      <4> QED
        BY <4>1
    <3>2. CASE RelinkFails(p)
      BY <1>1, <3>2 DEF RelinkFails
    <3> QED
      BY <1>6, <3>1, <3>2
  <2>3. pc'[p] = "restoring" /\ Alike(t, txn'[p])
    BY <1>4, <2>2, Entered
  <2>4. \/ UNCHANGED file
        \/ \E f : file' = [file EXCEPT ![h] = f] /\ f.content \in {t.orig[h].content, Content(t, h)}
    <3>1. PICK n : n = Fresh(h)
      OBVIOUS
    <3>2. PICK f, g : f = [content |-> t.orig[h].content, inode |-> n] /\ g = [content |-> Content(t, h), inode |-> t.pub[h]]
      OBVIOUS
    <3>3. UNCHANGED file \/ file' = [file EXCEPT ![h] = f] \/ file' = [file EXCEPT ![h] = g]
      BY <1>1, <1>6, <3>1, <3>2 DEF RelinkHead, RelinkFails, NewFile, Turn
    <3>4. f.content = t.orig[h].content /\ g.content = Content(t, h)
      BY <3>2
    <3> QED
      BY <3>3, <3>4
  <2> QED
    BY <1>1, <1>2, <1>3, <2>1, <2>3, <2>4 DEF GoesOn, Rewrites
<1> QED
  BY <1>5, <1>6

LEMMA UnlockFailsGoesOn ==
  ASSUME LineageInv, TypesInv, NEW p \in Procs, UnlockFails(p)
  PROVE  Leave(p) \/ GoesOn(p)
<1>1. PICK t : t = txn[p]
  OBVIOUS
<1>2. PICK u : u = [t EXCEPT !.closing = TRUE]
  OBVIOUS
<1>3. pc[p] \in {"unlocking", "releasing"} /\ UNCHANGED <<file, dirs, assets, acked, cleared>>
  BY DEF UnlockFails, heads
<1>4. u \in Transactions(u.d) /\ Alike(t, u)
  <2>1. t \in Transactions(t.d)
    BY <1>1, <1>3 DEF TypesInv, TypesFit, TypesRoll
  <2> QED
    BY <1>2, <2>1 DEF Transactions, Alike
<1>5. Leave(p) \/ Enter(p, "forcing", u) \/ Fail(p, u, FALSE)
  BY <1>1, <1>2 DEF UnlockFails
<1>6. ASSUME Enter(p, "forcing", u) \/ Fail(p, u, FALSE)
      PROVE  pc'[p] \in {"forcing", "restoring"} /\ Alike(u, txn'[p])
  <2>1. CASE Enter(p, "forcing", u)
    BY <2>1, Entered DEF Alike
  <2>2. CASE Fail(p, u, FALSE)
    BY <1>4, <2>2, Failed
  <2> QED
    BY <1>6, <2>1, <2>2
<1>7. Alike(u, txn'[p]) => Alike(t, txn'[p])
  BY <1>4 DEF Alike
<1> QED
  BY <1>1, <1>3, <1>5, <1>6, <1>7 DEF GoesOn, Rewrites

-----------------------------------------------------------------------------
(* Every step keeps the lineages.                                          *)

\* What descended from the captured pointer descends from the new root.
LEMMA NewRootLeads ==
  ASSUME LineageInv, DiskTyped, NEW l, NEW t, TxnFits(l, t), TypesRoll(t), t.op = "approve", t.orig # None,
         Baseline(t), DescentFits(t),
         NEW a \in Assets \ Theirs(t), assets[a] # None, assets[a].docset = t.d
  PROVE  /\ t.orig[CurrentHead(t.d)] # None /\ Leads(t.orig[CurrentHead(t.d)], a)
         /\ t.rooted = TRUE => Reaches(t.asset, a)
<1>1. PICK c, s : c = CurrentHead(t.d) /\ s = DocsetHead(t.d)
  OBVIOUS
<1>2. t.d \in Docsets /\ c \in HeadsOf(t.d) /\ s \in HeadsOf(t.d) /\ HeadsOf(t.d) \subseteq Heads /\ t.asset \in Assets
  BY <1>1, HeadNames DEF TypesRoll, TxnFits, ApprovalFits
<1>3. PICK F : F = Before(t)
  OBVIOUS
<1>4. F[c] = t.orig[c] /\ F[s] = t.orig[s]
  BY <1>2, <1>3 DEF Before
<1>5. Leads(t.orig[c], a)
  <2>1. Leads(F[c], a)
    BY <1>1, <1>3 DEF DescentFits
  <2> QED
    BY <1>4, <2>1
<1>6. t.orig[c] # None /\ Reaches(t.orig[c].content.asset, a)
  BY <1>5 DEF Leads
<1>7. ASSUME t.rooted = TRUE PROVE Reaches(t.asset, a)
  <2>1. CoherentIn(F, t.d)
    BY <1>3 DEF Baseline, Home, Making, TypesRoll
  <2>2. t.orig[c].content \in Pointer
    BY <1>1, <1>2, <1>6, Kinds DEF TypesRoll, Typed
  <2>3. t.orig[s].content.asset = t.orig[c].content.asset /\ t.orig[c].content.asset \in Assets
    <3>1. Said(F[c]) = t.orig[c].content
      BY <1>4, <1>6 DEF Said
    <3>2. Said(F[c]) # None
      BY <2>2, <3>1, AbsenceAssumption
    <3> QED
      BY <1>1, <1>4, <2>1, <2>2, <3>1, <3>2 DEF CoherentIn, Bound, Pointer
  <2>4. assets[t.asset] = NewManifest(t)
    BY <1>7 DEF Baseline
  <2>5. assets[t.asset] # None /\ assets[t.asset].supersedes = t.orig[c].content.asset
    BY <1>1, <1>2, <1>7, <2>3, <2>4 DEF NewManifest, Supersedes, TxnFits, ApprovalFits, OwnRoot
  <2>6. t.orig[c].content.asset # None
    BY <2>3, NoneAssumption
  <2> QED
    BY <1>2, <1>6, <2>5, <2>6, ReachesOn
<1> QED
  BY <1>1, <1>6, <1>5, <1>7

LEMMA Active ==
  ASSUME LineageInv', NEW p \in Procs, pc'[p] # "idle", UNCHANGED cleared,
         Trusted => AckedDescend' /\ DescentFits(txn[p])'
  PROVE  DescentInv'
<1>1. CatalogLock \in locks' /\ \A q \in Procs : pc'[q] # "idle" => q = p
  BY DEF LineageInv, LockInv, OneActive, ActiveLocksCatalog
<1>2. Trusted' => Trusted
  BY DEF Trusted
<1> QED
  BY <1>1, <1>2 DEF DescentInv

LEMMA GoingOnDescends ==
  ASSUME LineageInv, LineageInv', TypesInv, HeadsInv, DescentInv, NEW p \in Procs, GoesOn(p)
  PROVE  DescentInv'
<1>1. PICK t, u : t = txn[p] /\ u = txn'[p]
  OBVIOUS
<1>2. /\ pc[p] # "idle" /\ pc'[p] # "idle" /\ Alike(t, u) /\ Rewrites(p)
      /\ UNCHANGED cleared /\ UNCHANGED acked /\ UNCHANGED <<dirs, assets>>
  BY <1>1 DEF GoesOn
<1>3. TxnFits(pc[p], t) /\ TypesFit(pc[p], t) /\ DiskTyped /\ TypesRoll(t) /\ t.d \in Docsets
  BY <1>1, <1>2, Acting DEF TypesFit, TypesRoll
<1> SUFFICES ASSUME Trusted PROVE AckedDescend' /\ DescentFits(u)'
  BY <1>1, <1>2, Active
<1>4. AckedDescend /\ DescentFits(t) /\ HeadsFit(pc[p], t)
  BY <1>1, <1>2, Acting DEF DescentInv
<1>5. CASE \A d \in Docsets : file'[CurrentHead(d)] = file[CurrentHead(d)]
  BY <1>2, <1>3, <1>4, <1>5, DescentStays DEF Alike
<1>6. CASE ~ \A d \in Docsets : file'[CurrentHead(d)] = file[CurrentHead(d)]
  <2>1. PICK h, f :
          /\ pc[p] \in {"writing", "linking", "restoring", "relinking"} /\ t.todo # <<>> /\ h = Turn(t)
          /\ file' = [file EXCEPT ![h] = f]
          /\ f # None =>
               \/ t.orig[h] # None /\ f.content = t.orig[h].content
               \/ pc[p] \in {"linking", "relinking"} /\ f.content = Content(t, h)
    BY <1>1, <1>2, <1>6 DEF Rewrites
  <2>2. /\ t.orig # None /\ h \in OwnHeads(t) /\ h \in HeadsOf(t.d) /\ h \in Heads /\ HeadsOf(t.d) \subseteq Heads
    BY <1>3, <2>1, InTurn DEF Working
  <2>3. file'[h] = f /\ \A g \in Heads \ {h} : file'[g] = file[g]
    BY <2>1, <2>2, OneHeadIs
  <2>4. \A d \in Docsets : CurrentHead(d) \in Heads
    BY DEF Heads
  <2>5. PICK c : c = CurrentHead(t.d)
    OBVIOUS
  <2>6. h = c /\ \A d \in Docsets \ {t.d} : file'[CurrentHead(d)] = file[CurrentHead(d)]
    <3>1. \A d \in Docsets : h = CurrentHead(d) => d = t.d
      BY <2>2 DEF HeadsOf, CurrentHead, DocsetHead, CatalogHead
    <3> QED
      BY <1>6, <2>3, <2>4, <2>5, <3>1
  <2>7. t.op = "approve"
    BY <2>2, <2>5, <2>6 DEF OwnHeads, CurrentHead, DocsetHead, CatalogHead
  <2>8. Baseline(t)
    BY <1>4, <2>2 DEF HeadsFit
  <2>9. pc[p] \in {"linking", "relinking"} => t.rooted = TRUE
    BY <1>3, <2>7 DEF TxnFits, ApprovalFits
  <2>10. \A g, a : Leads(g, a)' <=> Leads(g, a)
    BY <1>2, ReachesStays DEF Leads
  <2>11. ASSUME NEW a \in acked[t.d], f # None PROVE Leads(f, a)
    <3>1. a \in Assets \ Theirs(t) /\ assets[a] # None /\ assets[a].docset = t.d
      <4>1. a \in Assets /\ assets[a] # None /\ assets[a].docset = t.d
        BY <1>3, <1>4, <2>11 DEF AckedDescend
      <4>2. t.rooted = TRUE => a # t.asset
        BY <1>3, <2>7, <2>11 DEF TxnFits, ApprovalFits, OwnRoot
      <4> QED
        BY <4>1, <4>2 DEF Theirs
    <3>2. /\ t.orig[c] # None /\ Leads(t.orig[c], a)
          /\ t.rooted = TRUE => Reaches(t.asset, a)
      BY <1>3, <1>4, <2>2, <2>5, <2>7, <2>8, <3>1, NewRootLeads
    <3>3. CASE f.content = t.orig[h].content
      BY <2>6, <2>11, <3>2, <3>3 DEF Leads
    <3>4. CASE pc[p] \in {"linking", "relinking"} /\ f.content = Content(t, h)
      <4>1. f.content.asset = t.asset
        <5>1. t.d \in Docsets
          BY <1>3
        <5>2. Content(t, CurrentHead(t.d)) = [asset |-> t.asset, digest |-> assets[t.asset]]
          BY <5>1, ContentIs
        <5>3. h = CurrentHead(t.d)
          BY <2>5, <2>6
        <5> QED
          BY <3>4, <5>2, <5>3
      <4> QED
        BY <2>9, <2>11, <3>2, <3>4, <4>1 DEF Leads
    <3> QED
      BY <2>1, <2>11, <3>3, <3>4
  <2>12. AckedDescend'
    BY <1>2, <1>4, <2>3, <2>5, <2>6, <2>10, <2>11 DEF AckedDescend
  <2>13. DescentFits(u)'
    <3>1. PICK F : F = Before(t)
      OBVIOUS
    <3>2. Before(u)' = F /\ Theirs(u)' = Theirs(t)
      BY <1>2, <2>2, <2>3, <3>1, BeforeStays DEF Alike, Theirs
    <3>3. \A a \in Assets \ Theirs(t) : assets[a] # None => Leads(F[CurrentHead(assets[a].docset)], a)
      BY <1>4, <2>2, <3>1 DEF DescentFits
    <3>4. u.orig # None
      BY <1>2, <2>2 DEF Alike
    <3>5. ASSUME NEW a \in Assets \ Theirs(t), assets'[a] # None
          PROVE  Leads(Before(u)[CurrentHead(assets[a].docset)], a)'
      <4>1. PICK f1 : f1 = F[CurrentHead(assets[a].docset)]
        OBVIOUS
      <4>2. Leads(f1, a)'
        BY <1>2, <2>10, <3>3, <3>5, <4>1
      <4>3. Before(u)'[CurrentHead(assets'[a].docset)] = f1
        BY <1>2, <3>2, <4>1
      <4> QED
        BY <4>2, <4>3 DEF Leads
    <3> QED
      BY <3>2, <3>4, <3>5 DEF DescentFits
  <2> QED
    BY <2>12, <2>13
<1> QED
  BY <1>5, <1>6

\* The roots of a foundry nobody works on any more, before and after an
\* approval that returns.
LEMMA ClosedRootsFit ==
  ASSUME LineageInv, TypesInv, HeadsInv, DescentInv, Trusted, NEW p \in Procs,
         pc[p] \in {"locking", "unlocking", "releasing", "forcing"}
  PROVE  RootsFit
<1>1. PICK t, l : t = txn[p] /\ l = pc[p]
  OBVIOUS
<1>2. /\ TxnFits(l, t) /\ TypesFit(l, t) /\ DiskTyped /\ HeadsFit(l, t) /\ DescentFits(t)
  BY <1>1, Acting DEF DescentInv
<1>3. TypesRoll(t) /\ t.d \in Docsets /\ t.raised \in BOOLEAN /\ t.op \in {"approve", "register"}
  BY <1>2 DEF TypesFit, TypesRoll, Transactions
<1>4. CASE t.orig = None
  BY <1>2, <1>4 DEF DescentFits
<1>5. CASE t.orig # None
  <2>1. PICK F : F = Before(t)
    OBVIOUS
  <2>2. Baseline(t) /\ PhaseFits(l, t) /\ l # "locking"
    BY <1>2, <1>5 DEF HeadsFit, TypesFit
  <2>3. \A d \in Docsets : CurrentHead(d) \in Heads
    BY DEF Heads
  <2>4. \A d \in Docsets \ {t.d} : F[CurrentHead(d)] = file[CurrentHead(d)]
    <3>1. \A d \in Docsets \ {t.d} : CurrentHead(d) \notin HeadsOf(t.d)
      BY DEF HeadsOf, CurrentHead, DocsetHead, CatalogHead
    <3> QED
      BY <2>1, <2>3, <3>1 DEF Before
  <2>5. F[CurrentHead(t.d)] = t.orig[CurrentHead(t.d)] /\ CurrentHead(t.d) \in HeadsOf(t.d)
    BY <1>3, <2>1, <2>3 DEF Before, HeadsOf
  <2>6. \A a \in Assets : assets[a] # None => assets[a].docset \in Docsets
    BY <1>2 DEF DiskTyped
  <2>7. \A a \in Assets \ Theirs(t) : assets[a] # None => Leads(F[CurrentHead(assets[a].docset)], a)
    BY <1>2, <1>5, <2>1 DEF DescentFits
  <2>8. CASE l = "forcing" \/ t.raised = TRUE
    <3>1. Restored(t)
      BY <1>1, <1>2, <2>2, <2>8 DEF PhaseFits
    <3>2. Theirs(t) = {} /\ Same(file[CurrentHead(t.d)], F[CurrentHead(t.d)])
      BY <2>5, <3>1 DEF Restored, Theirs
    <3>3. ASSUME NEW a \in Assets, assets[a] # None PROVE Leads(file[CurrentHead(assets[a].docset)], a)
      <4>1. PICK d \in Docsets : d = assets[a].docset
        BY <2>6, <3>3
      <4>2. Leads(F[CurrentHead(d)], a)
        BY <2>7, <3>2, <3>3, <4>1
      <4>3. Same(file[CurrentHead(d)], F[CurrentHead(d)])
        BY <2>4, <3>2 DEF Same
      <4> QED
        BY <4>1, <4>2, <4>3 DEF Leads, Same
    <3> QED
      BY <3>3 DEF RootsFit
  <2>9. CASE l # "forcing" /\ t.raised = FALSE
    <3>1. \A h \in HeadsOf(t.d) : Finished(t, h)
      BY <1>1, <2>2, <2>9 DEF PhaseFits
    <3>2. CASE t.op = "register"
      <4>1. file[CurrentHead(t.d)] = t.orig[CurrentHead(t.d)] /\ Theirs(t) = {}
        <5>1. CurrentHead(t.d) \notin OwnHeads(t)
          BY <3>2 DEF OwnHeads, CurrentHead, DocsetHead, CatalogHead
        <5> QED
          BY <2>5, <3>1, <3>2, <5>1 DEF Finished, Untouched, Theirs
      <4>2. \A d \in Docsets : F[CurrentHead(d)] = file[CurrentHead(d)]
        BY <2>4, <2>5, <4>1
      <4> QED
        BY <2>6, <2>7, <4>1, <4>2 DEF RootsFit
    <3>3. CASE t.op = "approve"
      <4>1. t.rooted = TRUE /\ OwnRoot(t) /\ t.asset \in Assets
        BY <1>1, <1>2, <2>2, <2>9, <3>3 DEF TxnFits, ApprovalFits
      <4>2. file[CurrentHead(t.d)] # None /\ file[CurrentHead(t.d)].content.asset = t.asset
        <5>1. Written(t, CurrentHead(t.d))
          BY <2>5, <3>1, <3>3 DEF Finished, OwnHeads
        <5>2. Content(t, CurrentHead(t.d)) = [asset |-> t.asset, digest |-> assets[t.asset]]
          BY <1>3, ContentIs
        <5> QED
          BY <5>1, <5>2 DEF Written
      <4>3. ASSUME NEW a \in Assets, assets[a] # None PROVE Leads(file[CurrentHead(assets[a].docset)], a)
        <5>1. PICK d \in Docsets : d = assets[a].docset
          BY <2>6, <4>3
        <5>2. CASE a = t.asset
          BY <4>1, <4>2, <5>2, ReachesItself DEF OwnRoot, Leads
        <5>3. CASE a # t.asset /\ d # t.d
          BY <2>4, <2>7, <4>3, <5>1, <5>3 DEF Theirs
        <5>4. CASE a # t.asset /\ d = t.d
          <6>1. Reaches(t.asset, a)
            BY <1>2, <1>3, <1>5, <2>2, <3>3, <4>1, <4>3, <5>1, <5>4, NewRootLeads DEF Theirs
          <6> QED
            BY <4>2, <5>1, <5>4, <6>1 DEF Leads
        <5> QED
          BY <5>2, <5>3, <5>4
      <4> QED
        BY <4>3 DEF RootsFit
    <3> QED
      BY <1>3, <3>2, <3>3
  <2> QED
    BY <1>3, <2>8, <2>9
<1> QED
  BY <1>4, <1>5

LEMMA LeavingDescends ==
  ASSUME LineageInv, TypesInv, HeadsInv, DescentInv, NEW p \in Procs,
         \/ GiveUpLocking(p) \/ UnlockCatalog(p) \/ Abandon(p) \/ ForceClose(p) \/ ForceCloseFails(p)
         \/ Crash(p) \/ (UnlockFails(p) /\ Leave(p))
  PROVE  DescentInv'
<1>1. pc[p] # "idle" /\ Leave(p) /\ UNCHANGED <<file, assets>> /\ UNCHANGED cleared
  BY DEF GiveUpLocking, UnlockCatalog, Abandon, ForceClose, ForceCloseFails, Crash, UnlockFails, heads
<1>2. PICK t, l : t = txn[p] /\ l = pc[p]
  OBVIOUS
<1>3. /\ TxnFits(l, t) /\ TypesFit(l, t) /\ DiskTyped /\ CatalogLock \in locks
      /\ \A q \in Procs \ {p} : pc[q] = "idle"
  BY <1>1, <1>2, Acting
<1>4. TypesRoll(t) /\ t.d \in Docsets /\ t.raised \in BOOLEAN /\ t.op \in {"approve", "register"}
  BY <1>3 DEF TypesFit, TypesRoll, Transactions
<1>5. l \notin {"locking", "unlocking", "releasing", "forcing"} => CatalogLock \in locks' /\ acked' = acked
  BY <1>2, <1>3 DEF GiveUpLocking, UnlockCatalog, Abandon, ForceClose, ForceCloseFails, Crash, UnlockFails, heads
<1> SUFFICES ASSUME Trusted PROVE AckedDescend' /\ (CatalogLock \notin locks' => RootsFit')
  BY <1>1, <1>3, DescentGoesOut
<1>6. AckedDescend
  BY DEF DescentInv
<1>7. (RootsFit => RootsFit') /\ (UNCHANGED acked => AckedDescend')
  BY <1>1, <1>3, <1>6, DescentStays
<1>8. CASE l \notin {"locking", "unlocking", "releasing", "forcing"}
  BY <1>5, <1>7, <1>8
<1>9. CASE l \in {"locking", "unlocking", "releasing", "forcing"}
  <2>1. RootsFit
    BY <1>2, <1>9, ClosedRootsFit
  <2>2. CASE UNCHANGED acked
    BY <1>7, <2>1, <2>2
  <2>3. CASE acked' # acked
    <3>1. /\ l \in {"unlocking", "releasing"} /\ t.op = "approve" /\ t.raised = FALSE
          /\ acked' = [acked EXCEPT ![t.d] = @ \cup {t.asset}]
      BY <1>2, <1>4, <2>3 DEF GiveUpLocking, UnlockCatalog, Abandon, ForceClose, ForceCloseFails, Crash, UnlockFails, heads
    <3>2. t.asset \in Assets /\ assets[t.asset] # None /\ assets[t.asset].docset = t.d
      BY <1>3, <3>1 DEF TxnFits, ApprovalFits, OwnRoot
    <3>3. Leads(file[CurrentHead(t.d)], t.asset)
      BY <2>1, <3>2 DEF RootsFit
    <3>4. \A d \in Docsets : \A a \in acked'[d] : a \in acked[d] \/ (d = t.d /\ a = t.asset)
      BY <1>4, <3>1 DEF LineageInv, Stored
    <3>5. \A f, a : Leads(f, a)' <=> Leads(f, a)
      BY <1>1, ReachesStays DEF Leads
    <3>6. AckedDescend'
      BY <1>1, <1>6, <3>2, <3>3, <3>4, <3>5 DEF AckedDescend
    <3> QED
      BY <1>7, <2>1, <3>6
  <2> QED
    BY <2>2, <2>3
<1> QED
  BY <1>8, <1>9

LEMMA BeginningDescends ==
  ASSUME LineageInv, LineageInv', TypesInv, DescentInv, NEW p \in Procs, Begin(p)
  PROVE  DescentInv'
<1>1. /\ pc[p] = "idle" /\ CatalogLock \notin locks /\ UNCHANGED <<file, assets>>
      /\ UNCHANGED acked /\ UNCHANGED cleared
  BY DEF Begin, ApproveBegin, RegisterBegin, LockFree
<1>2. pc'[p] # "idle" /\ txn'[p].orig = None
  <2>1. PICK l, op, d, title, asset, run :
          l \in {"locking", "checking"} /\ Enter(p, l, Transaction(op, d, title, asset, run))
    BY DEF Begin, ApproveBegin, RegisterBegin
  <2>2. pc'[p] = l /\ txn'[p] = Transaction(op, d, title, asset, run)
    BY <2>1, Entered
  <2> QED
    BY <2>1, <2>2 DEF Transaction
<1> SUFFICES ASSUME Trusted PROVE AckedDescend' /\ DescentFits(txn[p])'
  BY <1>1, <1>2, Active
<1>3. AckedDescend /\ RootsFit /\ DiskTyped
  BY <1>1 DEF DescentInv, TypesInv
<1>4. AckedDescend' /\ RootsFit'
  BY <1>1, <1>3, DescentStays
<1> QED
  BY <1>2, <1>4 DEF DescentFits

\* What is captured is what the pointers were.
LEMMA CheckingDescends ==
  ASSUME LineageInv, LineageInv', TypesInv, DescentInv, NEW p \in Procs, CheckApproval(p) \/ CheckRegistration(p)
  PROVE  DescentInv'
<1>1. PICK t, u : t = txn[p] /\ u = txn'[p]
  OBVIOUS
<1>2. /\ pc[p] = "checking" /\ UNCHANGED <<file, assets>> /\ UNCHANGED acked /\ UNCHANGED cleared
  BY DEF CheckApproval, CheckRegistration, heads
<1>3. TypesFit("checking", t) /\ DiskTyped /\ t \in Transactions(t.d) /\ t.d \in Docsets /\ t.orig = None
  BY <1>1, <1>2 DEF TypesInv, TypesFit, TypesRoll
<1>4. pc'[p] # "idle" /\ u.orig = Capture(t) /\ u.d = t.d
  <2>1. CASE CheckApproval(p)
    <3>1. Enter(p, "staging", [t EXCEPT !.orig = Capture(t), !.title = file[DocsetHead(t.d)].content.title])
      BY <1>1, <2>1 DEF CheckApproval
    <3>2. u = [t EXCEPT !.orig = Capture(t), !.title = file[DocsetHead(t.d)].content.title] /\ pc'[p] = "staging"
      BY <1>1, <3>1, Entered
    <3> QED
      BY <1>3, <3>2 DEF Transactions
  <2>2. CASE CheckRegistration(p)
    <3>1. PICK asset : asset = IF file[DocsetHead(t.d)] = None THEN None ELSE file[DocsetHead(t.d)].content.asset
      OBVIOUS
    <3>2. PICK c : c = [t EXCEPT !.orig = Capture(t), !.asset = asset]
      OBVIOUS
    <3>3. PICK e : e = [c EXCEPT !.todo = <<DocsetHead(t.d), CatalogHead>>]
      OBVIOUS
    <3>4. Enter(p, "writing", e) \/ Enter(p, "staging", c)
      BY <1>1, <2>2, <3>1, <3>2, <3>3 DEF CheckRegistration
    <3>5. c.orig = Capture(t) /\ c.d = t.d /\ e.orig = Capture(t) /\ e.d = t.d
      BY <1>3, <3>2, <3>3 DEF Transactions
    <3>6. \/ pc'[p] = "writing" /\ u = e
          \/ pc'[p] = "staging" /\ u = c
      BY <1>1, <3>4, Entered
    <3> QED
      BY <3>5, <3>6
  <2> QED
    BY <2>1, <2>2
<1> SUFFICES ASSUME Trusted PROVE AckedDescend' /\ DescentFits(u)'
  BY <1>1, <1>2, <1>4, Active
<1>5. AckedDescend /\ RootsFit
  BY <1>1, <1>2, <1>3 DEF DescentInv, DescentFits
<1>6. AckedDescend' /\ RootsFit'
  BY <1>2, <1>3, <1>5, DescentStays
<1>7. u.orig # None /\ Before(u) = file
  BY <1>3, <1>4, Captured
<1>8. Before(u)' = file'
  BY <1>2, <1>7 DEF Before
<1> QED
  BY <1>6, <1>7, <1>8 DEF DescentFits, RootsFit

LEMMA UnlockFailsDescends ==
  ASSUME LineageInv, LineageInv', TypesInv, HeadsInv, DescentInv, NEW p \in Procs, UnlockFails(p)
  PROVE  DescentInv'
BY LeavingDescends, UnlockFailsGoesOn, GoingOnDescends

LEMMA PublishRootDescends ==
  ASSUME LineageInv, LineageInv', TypesInv, HeadsInv, DescentInv, NEW p \in Procs, PublishRoot(p)
  PROVE  DescentInv'
<1>1. PICK t : t = txn[p]
  OBVIOUS
<1>2. PICK v : v = [t EXCEPT !.rooted = TRUE, !.todo = WriteOrder(t)]
  OBVIOUS
<1>3. PICK u : u = txn'[p]
  OBVIOUS
<1>4. /\ pc[p] = "staging" /\ UNCHANGED acked /\ UNCHANGED cleared
      /\ Enter(p, "writing", v) \/ Fail(p, v, FALSE)
  BY <1>1, <1>2 DEF PublishRoot
<1>5. TxnFits("staging", t) /\ TypesFit("staging", t) /\ DiskTyped
  BY <1>1, <1>4, Acting
<1>6. /\ t \in Transactions(t.d) /\ t.d \in Docsets /\ t.op \in {"approve", "register"}
      /\ t.orig # None /\ t.rooted = FALSE
  BY <1>5 DEF TypesFit, TypesRoll, Transactions
<1>7. /\ v.op = t.op /\ v.d = t.d /\ v.title = t.title /\ v.asset = t.asset /\ v.run = t.run /\ v.orig = t.orig /\ v.rooted = TRUE
      /\ v.todo = WriteOrder(t) /\ v.pub = t.pub
  BY <1>2, <1>6 DEF Transactions
<1>8. pc'[p] # "idle" /\ u.op = t.op /\ u.d = t.d /\ u.asset = t.asset /\ u.orig = t.orig /\ u.rooted = TRUE
  <2>1. CASE Enter(p, "writing", v)
    BY <1>3, <1>7, <2>1, Entered
  <2>2. CASE Fail(p, v, FALSE)
    <3>1. PICK w : w = [v EXCEPT !.raised = TRUE, !.recovery = FALSE, !.todo = RestoreOrder(v)]
      OBVIOUS
    <3>2. Enter(p, "restoring", w)
      BY <2>2, <3>1 DEF Fail
    <3>3. w.op = v.op /\ w.d = v.d /\ w.asset = v.asset /\ w.orig = v.orig /\ w.rooted = v.rooted
      BY <1>2, <1>6, <3>1 DEF Transactions
    <3> QED
      BY <1>3, <1>7, <3>2, <3>3, Entered
  <2> QED
    BY <1>4, <2>1, <2>2
<1> SUFFICES ASSUME Trusted PROVE AckedDescend' /\ DescentFits(u)'
  BY <1>3, <1>4, <1>8, Active
<1>9. /\ AckedDescend
      /\ \A a \in Assets \ Theirs(t) : assets[a] # None => Leads(Before(t)[CurrentHead(assets[a].docset)], a)
  BY <1>1, <1>4, <1>6 DEF DescentInv, DescentFits
<1>10. CASE t.op = "approve"
  <2>1. /\ t.asset \in Assets /\ assets[t.asset] = None
        /\ \E m : assets' = [assets EXCEPT ![t.asset] = m]
        /\ UNCHANGED <<file, dirs>>
    <3>1. t.asset \in Assets
      BY <1>5, <1>10 DEF TxnFits, ApprovalFits
    <3>2. assets[v.asset] = None /\ assets' = [assets EXCEPT ![v.asset] = NewManifest(v)] /\ UNCHANGED <<file, dirs>>
      BY <1>1, <1>2, <1>7, <1>10 DEF PublishRoot
    <3> QED
      BY <1>7, <3>1, <3>2
  <2>2. \A a \in Assets \ {t.asset} : assets'[a] = assets[a]
    BY <2>1 DEF LineageInv, Stored
  <2>3. \A f, a : Leads(f, a) => Leads(f, a)'
    BY <2>1, RootAdded DEF Leads
  <2>4. AckedDescend'
    <3>1. \A d \in Docsets : \A a \in acked[d] : a # t.asset
      BY <1>9, <2>1 DEF AckedDescend
    <3> QED
      BY <1>4, <1>9, <2>1, <2>2, <2>3, <3>1 DEF AckedDescend
  <2>5. DescentFits(u)'
    <3>1. PICK F : F = Before(t)
      OBVIOUS
    <3>2. Before(u)' = F /\ Theirs(u)' = {t.asset} /\ u.orig # None
      BY <1>6, <1>8, <1>10, <2>1, <3>1 DEF Before, Theirs
    <3>3. ASSUME NEW a \in Assets \ {t.asset}, assets'[a] # None
          PROVE  Leads(Before(u)[CurrentHead(assets[a].docset)], a)'
      <4>1. PICK f : f = F[CurrentHead(assets[a].docset)]
        OBVIOUS
      <4>2. Leads(f, a)
        BY <1>6, <1>9, <2>2, <3>1, <3>3, <4>1 DEF Theirs
      <4>3. Leads(f, a)'
        BY <2>3, <4>2
      <4>4. Before(u)'[CurrentHead(assets'[a].docset)] = f
        BY <2>2, <3>2, <3>3, <4>1
      <4> QED
        BY <4>3, <4>4 DEF Leads
    <3> QED
      BY <3>2, <3>3 DEF DescentFits
  <2> QED
    BY <2>4, <2>5
<1>11. CASE t.op = "register"
  <2>1. PICK f : file' = [file EXCEPT ![DocsetHead(t.d)] = f]
    BY <1>1, <1>11 DEF PublishRoot
  <2>2. UNCHANGED assets
    BY <1>1, <1>11 DEF PublishRoot
  <2>3. DocsetHead(t.d) \in Heads /\ DocsetHead(t.d) \in HeadsOf(t.d)
    BY <1>6, HeadNames DEF HeadsOf
  <2>4. \A g \in Heads \ {DocsetHead(t.d)} : file'[g] = file[g]
    BY <2>1, <2>3 DEF LineageInv, Stored
  <2>5. \A d \in Docsets : file'[CurrentHead(d)] = file[CurrentHead(d)]
    <3>1. \A d \in Docsets : CurrentHead(d) \in Heads \ {DocsetHead(t.d)}
      BY DEF Heads, CurrentHead, DocsetHead
    <3> QED
      BY <2>4, <3>1
  <2>6. PICK w : w = [t EXCEPT !.rooted = TRUE]
    OBVIOUS
  <2>7. /\ w.op = t.op /\ w.d = t.d /\ w.asset = t.asset /\ w.orig = t.orig /\ w.rooted = TRUE
    BY <1>6, <2>6 DEF Transactions
  <2>8. DescentFits(w)
    BY <1>6, <1>9, <1>11, <2>7 DEF DescentFits, Theirs, Before
  <2>9. AckedDescend' /\ DescentFits(u)'
    BY <1>4, <1>5, <1>6, <1>8, <1>9, <2>2, <2>5, <2>7, <2>8, DescentStays
  <2> QED
    BY <2>9
<1> QED
  BY <1>6, <1>10, <1>11

\* A root whose heads are back is the one no pointer names.
LEMMA NobodyNamesIt ==
  ASSUME NEW t, t.op = "approve", t.d \in Docsets, Baseline(t),
         \A h \in HeadsOf(t.d) : Back(t, h)
  PROVE  \A d \in Docsets : file[CurrentHead(d)] # None => file[CurrentHead(d)].content.asset # t.asset
<1>1. PICK F : F = Before(t)
  OBVIOUS
<1>2. \A d \in Docsets : F[CurrentHead(d)] # None => F[CurrentHead(d)].content.asset # t.asset
  BY <1>1 DEF Baseline
<1>3. CurrentHead(t.d) \in HeadsOf(t.d) /\ \A d \in Docsets : CurrentHead(d) \in Heads
  BY DEF HeadsOf, Heads
<1>4. \A d \in Docsets \ {t.d} : F[CurrentHead(d)] = file[CurrentHead(d)]
  <2>1. \A d \in Docsets \ {t.d} : CurrentHead(d) \notin HeadsOf(t.d)
    BY DEF HeadsOf, CurrentHead, DocsetHead, CatalogHead
  <2> QED
    BY <1>1, <1>3, <2>1 DEF Before
<1>5. F[CurrentHead(t.d)] = t.orig[CurrentHead(t.d)]
  BY <1>1, <1>3 DEF Before
<1>6. file[CurrentHead(t.d)] = None \/ Same(file[CurrentHead(t.d)], t.orig[CurrentHead(t.d)])
  BY <1>3 DEF Back, Unharmed, Making
<1>7. file[CurrentHead(t.d)] # None => file[CurrentHead(t.d)].content.asset # t.asset
  BY <1>2, <1>5, <1>6 DEF Same
<1> QED
  BY <1>2, <1>4, <1>7

\* Retiring the root of an approval takes it out of nobody's lineage.
LEMMA CleanUpDescends ==
  ASSUME LineageInv, LineageInv', TypesInv, HeadsInv, DescentInv, NEW p \in Procs, CleanUp(p)
  PROVE  DescentInv'
<1>1. PICK t : t = txn[p]
  OBVIOUS
<1>2. PICK u : u = [t EXCEPT !.rooted = FALSE]
  OBVIOUS
<1>3. PICK l : l = IF t.closing THEN "forcing" ELSE "unlocking"
  OBVIOUS
<1>4. pc[p] = "restoring" /\ t.todo = <<>> /\ UNCHANGED <<cleared, locks>> /\ ~t.failed
      /\ IF t.recovery THEN Leave(p) ELSE Enter(p, l, u)
  BY <1>1, <1>2, <1>3 DEF CleanUp
<1>5. /\ TxnFits("restoring", t) /\ TypesFit("restoring", t) /\ DiskTyped
      /\ CatalogLock \in locks /\ \A q \in Procs \ {p} : pc[q] = "idle"
  BY <1>1, <1>4, Acting
<1>6. /\ TypesRoll(t) /\ t \in Transactions(t.d) /\ t.rooted \in BOOLEAN /\ t.failed = FALSE
      /\ t.orig # None /\ t.d \in Docsets /\ t.op \in {"approve", "register"}
  BY <1>4, <1>5 DEF TypesFit, TypesRoll, Transactions
<1>7. Retired(t) /\ UNCHANGED acked /\ UNCHANGED cleared /\ CatalogLock \in locks'
  BY <1>1, <1>4, <1>5, <1>6 DEF CleanUp, Retired
<1>8. u.op = t.op /\ u.d = t.d /\ u.asset = t.asset /\ u.orig = t.orig /\ u.rooted = FALSE
  BY <1>2, <1>6 DEF Transactions
<1> SUFFICES ASSUME Trusted PROVE AckedDescend' /\ DescentFits(u)'
  <2>1. Trusted => AckedDescend' /\ DescentFits(u)'
    OBVIOUS
  <2>2. CASE Leave(p)
    BY <1>5, <1>7, <2>1, <2>2, DescentGoesOut
  <2>3. CASE Enter(p, l, u)
    BY <1>5, <1>7, <2>1, <2>3, DescentGoesOn
  <2> QED
    BY <1>4, <2>2, <2>3
<1>9. AckedDescend /\ DescentFits(t) /\ HeadsFit("restoring", t)
  BY <1>1, <1>4, Acting DEF DescentInv
<1>10. Baseline(t) /\ \A h \in HeadsOf(t.d) : Back(t, h)
  <2>1. Left(t) = {}
    BY <1>4 DEF Left, Elems
  <2> QED
    BY <1>6, <1>9, <2>1 DEF HeadsFit, PhaseFits, RestoringFits
<1>11. CASE t.rooted = TRUE /\ t.op = "approve"
  <2>1. assets' = [assets EXCEPT ![t.asset] = None] /\ UNCHANGED <<file, dirs>>
    BY <1>7, <1>11 DEF Retired
  <2>2. t.asset \in Assets /\ OwnRoot(t)
    BY <1>5, <1>11 DEF TxnFits, ApprovalFits
  <2>3. assets'[t.asset] = None /\ \A a \in Assets \ {t.asset} : assets'[a] = assets[a]
    BY <2>1, <2>2 DEF LineageInv, Stored
  <2>4. ASSUME NEW f, NEW a, Leads(f, a), f.content.asset # t.asset PROVE Leads(f, a)'
    BY <2>1, <2>2, <2>4, RootRemoved DEF Leads, OwnRoot
  <2>5. PICK F : F = Before(t)
    OBVIOUS
  <2>6. \A d \in Docsets : F[CurrentHead(d)] # None => F[CurrentHead(d)].content.asset # t.asset
    BY <1>10, <1>11, <2>5 DEF Baseline
  <2>7. \A d \in Docsets : file[CurrentHead(d)] # None => file[CurrentHead(d)].content.asset # t.asset
    BY <1>6, <1>10, <1>11, NobodyNamesIt
  <2>8. AckedDescend'
    <3>1. ASSUME NEW d \in Docsets, NEW a \in acked[d]
          PROVE  a \in Assets /\ assets[a] # None /\ assets[a].docset = d /\ assets'[a] = assets[a]
      BY <1>9, <2>2, <2>3, <3>1 DEF AckedDescend, OwnRoot
    <3>2. ASSUME NEW d \in Docsets, NEW a \in acked[d], file[CurrentHead(d)] # None
          PROVE  Leads(file[CurrentHead(d)], a)'
      <4>1. PICK f : f = file[CurrentHead(d)]
        OBVIOUS
      <4>2. Leads(f, a)'
        BY <1>9, <2>4, <2>7, <3>2, <4>1 DEF AckedDescend
      <4> QED
        BY <2>1, <4>1, <4>2 DEF Leads
    <3> QED
      BY <1>7, <2>1, <3>1, <3>2 DEF AckedDescend
  <2>9. DescentFits(u)'
    <3>1. Before(u)' = F /\ Theirs(u)' = {} /\ u.orig # None
      BY <1>6, <1>8, <2>1, <2>5 DEF Before, Theirs
    <3>2. ASSUME NEW a \in Assets, assets'[a] # None
          PROVE  Leads(Before(u)[CurrentHead(assets[a].docset)], a)'
      <4>1. a # t.asset /\ assets'[a] = assets[a]
        BY <2>3, <3>2
      <4>2. PICK d \in Docsets : d = assets[a].docset
        BY <1>5, <3>2, <4>1 DEF DiskTyped
      <4>3. PICK f : f = F[CurrentHead(d)]
        OBVIOUS
      <4>4. Leads(f, a)
        BY <1>6, <1>9, <2>5, <3>2, <4>1, <4>2, <4>3 DEF DescentFits, Theirs
      <4>5. f.content.asset # t.asset
        BY <2>6, <4>3, <4>4 DEF Leads
      <4>6. Leads(f, a)'
        BY <2>4, <4>4, <4>5
      <4>7. Before(u)'[CurrentHead(assets'[a].docset)] = f
        BY <3>1, <4>1, <4>2, <4>3
      <4> QED
        BY <4>6, <4>7 DEF Leads
    <3> QED
      BY <3>1, <3>2 DEF DescentFits
  <2> QED
    BY <2>8, <2>9
<1>12. CASE t.rooted = FALSE \/ t.op = "register"
  <2>1. UNCHANGED assets /\ (UNCHANGED file \/ file' = [file EXCEPT ![DocsetHead(t.d)] = None])
    BY <1>6, <1>7, <1>12 DEF Retired
  <2>2. \A d \in Docsets : file'[CurrentHead(d)] = file[CurrentHead(d)]
    <3>1. DocsetHead(t.d) \in Heads /\ \A d \in Docsets : CurrentHead(d) \in Heads \ {DocsetHead(t.d)}
      BY <1>6 DEF Heads, CurrentHead, DocsetHead
    <3> QED
      BY <2>1, <3>1 DEF LineageInv, Stored
  <2>3. PICK w : w = [t EXCEPT !.rooted = FALSE]
    OBVIOUS
  <2>4. /\ u.op = w.op /\ u.d = w.d /\ u.asset = w.asset /\ u.orig = w.orig /\ u.rooted = w.rooted /\ w.d \in Docsets
    BY <1>2, <1>6, <1>8, <2>3
  <2>5. DescentFits(w)
    BY <1>6, <1>8, <1>9, <1>12, <2>4 DEF DescentFits, Theirs, Before
  <2> QED
    BY <1>5, <1>7, <1>9, <2>1, <2>2, <2>4, <2>5, DescentStays
<1> QED
  BY <1>6, <1>11, <1>12

LEMMA OthersDescend ==
  ASSUME LineageInv, TypesInv, DescentInv, UNCHANGED <<file, dirs, assets, pc, txn, acked>>,
         UNCHANGED <<locks, cleared>> \/ (cleared \in Nat /\ cleared' = cleared + 1)
  PROVE  DescentInv'
<1>1. UNCHANGED <<file, assets>> /\ UNCHANGED acked /\ UNCHANGED <<pc, txn>>
  OBVIOUS
<1> SUFFICES ASSUME Trusted' PROVE DescentInv'
  BY DEF DescentInv
<1>2. UNCHANGED <<locks, cleared>> /\ Trusted
  BY DEF Trusted
<1>3. AckedDescend /\ DiskTyped
  BY <1>2 DEF DescentInv, TypesInv
<1>4. AckedDescend' /\ (RootsFit => RootsFit')
  BY <1>1, <1>3, DescentStays
<1>5. ASSUME NEW p \in Procs, pc[p] # "idle" PROVE DescentFits(txn[p])'
  <2>1. PICK t : t = txn[p]
    OBVIOUS
  <2>2. DescentFits(t) /\ t.d \in Docsets
    BY <1>2, <1>5, <2>1 DEF DescentInv, TypesInv, TypesFit, TypesRoll
  <2>3. DescentFits(t)'
    BY <1>1, <1>3, <2>2, DescentStays
  <2>4. txn'[p] = t
    BY <1>1, <2>1
  <2> QED
    BY <2>3, <2>4
<1> QED
  BY <1>1, <1>2, <1>4, <1>5 DEF DescentInv

LEMMA TransactionsDescend ==
  ASSUME LineageInv, LineageInv', TypesInv, HeadsInv, DescentInv, NEW p \in Procs, Begin(p) \/ Step(p) \/ Crash(p),
         UNCHANGED cleared
  PROVE  DescentInv'
<1>1. CASE Begin(p)
  BY <1>1, BeginningDescends
<1>2. CASE \/ LockDocset(p) \/ Refuse(p) \/ StageFails(p) \/ WriteRefused(p) \/ RetireHead(p)
           \/ RetireFails(p) \/ RestoreFails(p) \/ UnlockDocset(p)
  BY <1>2, QuietStepsGoOn, GoingOnDescends
<1>3. CASE MoveHead(p) \/ LinkHead(p) \/ LinkFails(p) \/ VerifyFails(p)
  <2>1. CASE Trusted
    BY <1>3, <2>1, WritingStepsGoOn, GoingOnDescends
  <2>2. CASE ~Trusted
    BY <2>2 DEF DescentInv, Trusted
  <2> QED
    BY <2>1, <2>2
<1>4. CASE RestoreHead(p) \/ RelinkHead(p) \/ RelinkFails(p)
  BY <1>4, RestoringStepsGoOn, GoingOnDescends
<1>5. CASE CheckApproval(p) \/ CheckRegistration(p) \/ PublishRoot(p) \/ CleanUp(p) \/ UnlockFails(p)
  BY <1>5, CheckingDescends, PublishRootDescends, CleanUpDescends, UnlockFailsDescends
<1>6. CASE \/ GiveUpLocking(p) \/ UnlockCatalog(p) \/ Abandon(p) \/ ForceClose(p) \/ ForceCloseFails(p)
           \/ Crash(p)
  BY <1>6, LeavingDescends
<1> QED
  BY <1>1, <1>2, <1>3, <1>4, <1>5, <1>6 DEF Step

RootsInv == AgreeInv /\ DescentInv

LEMMA RootsInvInit == Init => RootsInv
<1> SUFFICES ASSUME Init PROVE DescentInv
  BY AgreeInvInit DEF RootsInv
<1>1. RootsFit /\ AckedDescend /\ \A p \in Procs : pc[p] = "idle"
  BY DEF Init, RootsFit, AckedDescend
<1> QED
  BY <1>1 DEF DescentInv

LEMMA RootsInvNext == RootsInv /\ [Next]_vars => RootsInv'
<1> SUFFICES ASSUME RootsInv, [Next]_vars PROVE RootsInv'
  OBVIOUS
<1>1. AgreeInv'
  BY AgreeInvNext DEF RootsInv
<1>2. /\ LineageInv /\ LineageInv' /\ TypesInv /\ RestTyped /\ HeadsInv /\ DescentInv
  BY <1>1 DEF RootsInv, AgreeInv
<1>3. cleared \in Nat
  BY <1>2, MaxClearsAssumption DEF RestTyped
<1>4. ASSUME NEW p \in Procs, Begin(p) \/ Step(p) \/ Crash(p) PROVE DescentInv'
  BY <1>2, <1>4, StepsRest, TransactionsDescend
<1>5. ASSUME ClearLocks PROVE DescentInv'
  BY <1>2, <1>3, <1>5, OthersDescend DEF ClearLocks
<1>6. ASSUME NEW r \in Readers, Read(r) PROVE DescentInv'
  BY <1>2, <1>6, OthersDescend DEF Read, ReadPointer, ReadDocset, ReadCatalog, ReadAsset, ReadReturns, heads
<1>7. ASSUME UNCHANGED vars PROVE DescentInv'
  BY <1>2, <1>7, OthersDescend DEF vars, heads
<1>8. DescentInv'
  BY <1>4, <1>5, <1>6, <1>7 DEF Next
<1> QED
  BY <1>1, <1>8 DEF RootsInv

LEMMA LeadsInLineage ==
  ASSUME DiskTyped, NEW d \in Docsets, NEW a \in Assets, Leads(file[CurrentHead(d)], a)
  PROVE  a \in Lineage(d)
<1>1. file[CurrentHead(d)] # None /\ Reaches(file[CurrentHead(d)].content.asset, a)
  BY DEF Leads
<1>2. PointerOf(d) = file[CurrentHead(d)].content /\ PointerOf(d) # None
  <2>1. file[CurrentHead(d)].content \in Pointer
    BY <1>1, HeadNames, Kinds DEF DiskTyped, Typed
  <2> QED
    BY <1>1, <2>1, AbsenceAssumption DEF PointerOf
<1> QED
  BY <1>1, <1>2 DEF Lineage

\* An approval that returned is in the lineage of whatever pointer its docset
\* has, at every instant of every later approval and rollback: the manifest of
\* a new root supersedes what the captured pointer named, and a rollback puts
\* that pointer back (approve.py: _approve_candidate_locked,
\* _raise_approval_failure).
THEOREM ApprovalsAreNeverLost ==
  ASSUME IdentityFaults = FALSE
  PROVE  Spec => []AckedStaysInLineage
<1>1. RootsInv => AckedStaysInLineage
  <2> SUFFICES ASSUME RootsInv, NEW d \in Docsets, NEW a \in acked[d]
               PROVE  /\ assets[a] # None
                      /\ cleared = 0 /\ file[CurrentHead(d)] # None => a \in Lineage(d)
    BY DEF AckedStaysInLineage
  <2>1. LineageInv /\ DiskTyped /\ DescentInv
    BY DEF RootsInv, AgreeInv, TypesInv
  <2>2. a \in Assets /\ assets[a] # None
    BY <2>1 DEF LineageInv, AckedRootsStay
  <2>3. cleared = 0 /\ file[CurrentHead(d)] # None => Leads(file[CurrentHead(d)], a)
    BY <2>1 DEF DescentInv, Trusted, AckedDescend
  <2> QED
    BY <2>1, <2>2, <2>3, LeadsInLineage
<1> QED
  BY <1>1, RootsInvInit, RootsInvNext, PTL DEF Spec

\* A failed approval leaves no root behind: in a foundry without locks, every
\* published asset root is in the lineage of its docset's current asset,
\* because the rollback that gives the locks back has retired the root first
\* (approve.py: _raise_approval_failure).
THEOREM NoRootIsOrphaned ==
  ASSUME IdentityFaults = FALSE
  PROVE  Spec => []NoOrphanRoots
<1>1. RootsInv => NoOrphanRoots
  <2> SUFFICES ASSUME RootsInv, locks = {}, cleared = 0, NEW a \in Assets, assets[a] # None
               PROVE  a \in Lineage(assets[a].docset)
    BY DEF NoOrphanRoots
  <2>1. DiskTyped /\ RootsFit
    BY DEF RootsInv, AgreeInv, TypesInv, DescentInv, Trusted
  <2>2. Leads(file[CurrentHead(assets[a].docset)], a) /\ assets[a].docset \in Docsets
    BY <2>1 DEF RootsFit, DiskTyped
  <2> QED
    BY <2>1, <2>2, LeadsInLineage
<1> QED
  BY <1>1, RootsInvInit, RootsInvNext, PTL DEF Spec

-----------------------------------------------------------------------------
(* What has been served: the pointer of every docset is what its heads     *)
(* said when they last agreed, except while an approval replaces it, from  *)
(* the moment the old pointer is moved aside, or takes it back.            *)

NamesAsset(f) == f # None => f.content.asset # None

Told(d) == PointerOf(d) = served[d]
AllTold == \A d \in Docsets : Told(d)

Amid(l, t) ==
  LET c == CurrentHead(t.d) IN
  /\ t.op = "approve"
  /\ \/ l = "linking" /\ Turn(t) = c
     \/ l \in {"restoring", "relinking"} /\ (file[c] = None \/ PointerOf(t.d) = Said(t.orig[c]))

TurnFits(l, t) ==
  LET c == CurrentHead(t.d) IN
  IF t.orig = None THEN AllTold
  ELSE /\ \A d \in Docsets \ {t.d} : Told(d)
       /\ Told(t.d) \/ Amid(l, t)
       /\ l = "linking" /\ Turn(t) = c => served[t.d] = Said(t.orig[c])
       /\ l = "relinking" /\ Turn(t) = c => served[t.d] = Content(t, c)
       /\ t.orig[c] # None => NamesAsset(file[DocsetHead(t.d)])
       /\ Making(t) => served[t.d] = None

AllVerified == \A d \in Docsets : Verified(PointerOf(d))

ServedInv ==
  Trusted => /\ \A d \in Docsets : Coherent(d) => Told(d)
             /\ AllVerified
             /\ \A d \in Docsets \ dirs : served[d] = None
             /\ CatalogLock \notin locks => AllTold
             /\ \A p \in Procs : pc[p] # "idle" => TurnFits(pc[p], txn[p])

\* What an observed step does to what has been served.
LEMMA Observed ==
  ASSUME RestTyped, Observe, NEW d \in Docsets
  PROVE  /\ Coherent(d)' => Told(d)'
         /\ Told(d)' \/ served'[d] = served[d]
         /\ PointerOf(d)' = PointerOf(d) /\ Told(d) => Told(d)'
BY DEF Observe, Told, RestTyped

LEMMA PointerStays ==
  ASSUME NEW d, file'[CurrentHead(d)] = file[CurrentHead(d)]
  PROVE  PointerOf(d)' = PointerOf(d)
BY DEF PointerOf

LEMMA ServedGone ==
  ASSUME RestTyped, TypesInv', Observe, \A d \in Docsets \ dirs' : served[d] = None
  PROVE  /\ \A d \in Docsets : Coherent(d)' => Told(d)'
         /\ \A d \in Docsets \ dirs' : served'[d] = None
<1>1. ASSUME NEW d \in Docsets \ dirs' PROVE served'[d] = None
  <2>1. file'[DocsetHead(d)] = None
    BY DEF TypesInv, DiskTyped
  <2>2. ~Coherent(d)'
    BY <2>1 DEF Coherent
  <2> QED
    BY <2>2 DEF Observe
<1> QED
  BY <1>1, Observed

LEMMA ServedOn ==
  ASSUME LineageInv', TypesInv', RestTyped, Observe, NEW p \in Procs, pc'[p] # "idle", UNCHANGED cleared,
         Trusted => /\ \A d \in Docsets \ dirs' : served[d] = None
                    /\ AllVerified' /\ TurnFits(pc[p], txn[p])'
  PROVE  ServedInv'
<1>1. CatalogLock \in locks' /\ \A q \in Procs : pc'[q] # "idle" => q = p
  BY DEF LineageInv, LockInv, OneActive, ActiveLocksCatalog
<1>2. Trusted' => Trusted
  BY DEF Trusted
<1>3. Trusted => /\ \A d \in Docsets : Coherent(d)' => Told(d)'
                 /\ \A d \in Docsets \ dirs' : served'[d] = None
  BY ServedGone
<1> QED
  BY <1>1, <1>2, <1>3 DEF ServedInv

LEMMA ServedOut ==
  ASSUME LineageInv, TypesInv', RestTyped, Observe, NEW p \in Procs, \A q \in Procs \ {p} : pc[q] = "idle",
         Leave(p), UNCHANGED cleared,
         Trusted => /\ \A d \in Docsets \ dirs' : served[d] = None
                    /\ AllVerified' /\ (CatalogLock \notin locks' => AllTold')
  PROVE  ServedInv'
<1>1. \A q \in Procs : pc'[q] = "idle"
  BY DEF Leave, Goto, LineageInv, LockInv, Shapes
<1>2. Trusted' => Trusted
  BY DEF Trusted
<1>3. Trusted => /\ \A d \in Docsets : Coherent(d)' => Told(d)'
                 /\ \A d \in Docsets \ dirs' : served'[d] = None
  BY ServedGone
<1> QED
  BY <1>1, <1>2, <1>3 DEF ServedInv

\* The pointers and what they name stay: so does what holds of them.
LEMMA ServedStays ==
  ASSUME RestTyped, Observe, UNCHANGED assets,
         \A d \in Docsets : file'[CurrentHead(d)] = file[CurrentHead(d)]
  PROVE  /\ \A d \in Docsets : PointerOf(d)' = PointerOf(d) /\ (Told(d) => Told(d)')
         /\ AllTold => AllTold'
         /\ AllVerified => AllVerified'
<1>1. \A d \in Docsets : PointerOf(d)' = PointerOf(d)
  BY PointerStays
<1>2. \A d \in Docsets : Told(d) => Told(d)'
  BY <1>1, Observed
<1>3. AllVerified => AllVerified'
  BY <1>1 DEF AllVerified, Verified
<1> QED
  BY <1>1, <1>2, <1>3 DEF AllTold

\* A docset with a pointer has an asset, and so has what is written to it.
LEMMA AssetNamed ==
  ASSUME NEW t, TypesRoll(t), t.orig # None, Baseline(t), t.d \in Home(t), t.orig[CurrentHead(t.d)] # None,
         t.op = "approve" => t.asset \in Assets
  PROVE  /\ t.orig[DocsetHead(t.d)] # None /\ NamesAsset(t.orig[DocsetHead(t.d)])
         /\ t.asset # None
         /\ NamesAsset(t.orig[CurrentHead(t.d)])
         /\ t.orig[DocsetHead(t.d)].content.asset = t.orig[CurrentHead(t.d)].content.asset
<1>1. PICK c, s : c = CurrentHead(t.d) /\ s = DocsetHead(t.d)
  OBVIOUS
<1>2. t.d \in Docsets /\ t.op \in {"approve", "register"} /\ c \in HeadsOf(t.d) /\ s \in HeadsOf(t.d) /\ HeadsOf(t.d) \subseteq Heads
  BY <1>1, HeadNames DEF TypesRoll, Transactions, HeadsOf
<1>3. PICK F : F = Before(t)
  OBVIOUS
<1>4. F[c] = t.orig[c] /\ F[s] = t.orig[s]
  BY <1>2, <1>3 DEF Before
<1>5. CoherentIn(F, t.d)
  BY <1>3 DEF Baseline
<1>6. t.orig[c].content \in Pointer
  BY <1>1, <1>2, Kinds DEF TypesRoll, Typed
<1>7. Said(F[c]) = t.orig[c].content /\ Said(F[c]) # None
  BY <1>1, <1>4, <1>6, AbsenceAssumption DEF Said
<1>8. t.orig[s] # None /\ t.orig[s].content.asset = t.orig[c].content.asset
  BY <1>1, <1>4, <1>5, <1>7 DEF CoherentIn, Bound
<1>9. t.orig[c].content.asset \in Assets /\ None \notin Assets
  BY <1>6, NoneAssumption DEF Pointer
<1>10. t.asset # None
  BY <1>1, <1>2, <1>8, <1>9 DEF Baseline
<1> QED
  BY <1>1, <1>8, <1>9, <1>10 DEF NamesAsset

\* The heads agree once the last of them is linked.
LEMMA LinkedAtRest ==
  ASSUME NEW t
  PROVE  (DiskTyped /\ TypesRoll(t) /\ t.orig # None /\ Baseline(t) /\ (t.op = "approve" => t.rooted = TRUE)
            /\ (\A h \in HeadsOf(t.d) : Finished(t, h)) => AtRest)'
<1>1. DiskTyped /\ TypesRoll(t) /\ t.orig # None /\ Baseline(t) /\ (t.op = "approve" => t.rooted = TRUE)
        /\ (\A h \in HeadsOf(t.d) : Finished(t, h)) => AtRest
  BY FinishedAtRest
<1> QED
  BY <1>1, PTL

LEMMA AllBackAtRest ==
  ASSUME NEW t
  PROVE  (DiskTyped /\ t.d \in Docsets /\ Baseline(t) /\ Restored(t) => AtRest)'
<1>1. DiskTyped /\ t.d \in Docsets /\ Baseline(t) /\ Restored(t) => AtRest
  BY RestoredAtRest
<1> QED
  BY <1>1, PTL

\* The pointer is the last head an approval writes.
LEMMA PointerLast ==
  ASSUME NEW t, t.d \in Docsets, WritingFits(t), Turn(t) = CurrentHead(t.d), t.op = "approve"
  PROVE  Left(t) = {CurrentHead(t.d)} /\ Written(t, DocsetHead(t.d))
<1>1. PICK s, c, k : s = DocsetHead(t.d) /\ c = CurrentHead(t.d) /\ k = CatalogHead
  OBVIOUS
<1>2. s # c /\ k # c /\ s # k /\ HeadsOf(t.d) = {s, c, k} /\ OwnHeads(t) = {s, c, k}
  BY <1>1 DEF DocsetHead, CurrentHead, CatalogHead, HeadsOf, OwnHeads
<1>3. t.todo = <<c>>
  BY <1>1, <1>2 DEF WritingFits, TodoFits, Turn
<1>4. Left(t) = {c}
  BY <1>3 DEF Left, Elems
<1>5. Finished(t, s)
  BY <1>1, <1>2, <1>4 DEF WritingFits
<1> QED
  BY <1>1, <1>2, <1>4, <1>5 DEF Finished

LEMMA QuietlyServes ==
  ASSUME LineageInv, TypesInv, RestTyped, HeadsInv, ServedInv, Trusted, Observe,
         NEW p \in Procs, GoesOn(p), UNCHANGED file, pc'[p] \notin {"linking", "relinking"},
         pc[p] \in {"linking", "restoring", "relinking"} => pc'[p] = "restoring"
  PROVE  TurnFits(pc[p], txn[p])'
<1>1. PICK t, u, l, m : t = txn[p] /\ u = txn'[p] /\ l = pc[p] /\ m = pc'[p]
  OBVIOUS
<1>2. l # "idle" /\ Alike(t, u) /\ UNCHANGED <<dirs, assets>>
  BY <1>1 DEF GoesOn
<1>3. TypesFit(l, t) /\ TypesRoll(t) /\ t.d \in Docsets /\ HeadsFit(l, t) /\ TurnFits(l, t) /\ TxnFits(l, t)
  BY <1>1, <1>2, Acting DEF TypesFit, TypesRoll, ServedInv
<1>4. /\ \A d \in Docsets : PointerOf(d)' = PointerOf(d) /\ (Told(d) => Told(d)')
      /\ AllTold => AllTold'
  BY <1>2, ServedStays
<1>5. /\ u.orig = t.orig /\ u.d = t.d /\ u.op = t.op /\ Making(u) = Making(t) /\ Making(u)' = Making(u)
  BY <1>2, AlikeSame DEF Alike, Making
<1>6. CASE t.orig = None
  BY <1>1, <1>3, <1>4, <1>5, <1>6 DEF TurnFits
<1>7. CASE t.orig # None
  <2>1. PICK c, s : c = CurrentHead(t.d) /\ s = DocsetHead(t.d)
    OBVIOUS
  <2>2. Told(t.d) => Told(t.d)'
    BY <1>3, <1>4
  <2>3. Amid(l, t) => Amid(m, u)'
    <3>1. l = "linking" /\ Turn(t) = c => file[c] = None
      BY <1>3, <1>7, <2>1 DEF HeadsFit, PhaseFits
    <3>2. PointerOf(t.d)' = PointerOf(t.d)
      BY <1>3, <1>4
    <3> QED
      BY <1>1, <1>5, <2>1, <3>1, <3>2 DEF Amid
  <2>4. t.orig[c] # None => NamesAsset(file'[s])
    BY <1>3, <1>7, <2>1 DEF TurnFits
  <2>5. Making(t) => served'[t.d] = None
    <3>1. Making(t) => served[t.d] = None /\ file[c] = None
      BY <1>3, <1>7, <2>1 DEF TurnFits, Making, TypesRoll
    <3>2. Making(t) => PointerOf(t.d)' = None
      BY <1>3, <1>4, <2>1, <3>1 DEF PointerOf
    <3> QED
      BY <1>3, <3>1, <3>2, Observed DEF Told
  <2> QED
    BY <1>1, <1>3, <1>4, <1>5, <1>7, <2>1, <2>2, <2>3, <2>4, <2>5 DEF TurnFits, NamesAsset
<1> QED
  BY <1>1, <1>6, <1>7

\* Another head than the pointer is written.
LEMMA OtherHeadServes ==
  ASSUME LineageInv, TypesInv, RestTyped, HeadsInv, ServedInv, Trusted, Observe,
         NEW p \in Procs, GoesOn(p), NEW f, file' = [file EXCEPT ![Turn(txn[p])] = f], txn[p].todo # <<>>,
         pc[p] \in {"writing", "linking", "restoring", "relinking"},
         pc[p] \in {"restoring", "relinking"} => pc'[p] \in {"restoring", "relinking"},
         pc'[p] \in {"linking", "relinking"} => txn'[p].todo = txn[p].todo,
         Turn(txn[p]) # CurrentHead(txn[p].d),
         f = None \/ f = txn[p].orig[Turn(txn[p])]
           \/ (txn[p].orig[Turn(txn[p])] # None /\ f.content = txn[p].orig[Turn(txn[p])].content)
           \/ f.content = Content(txn[p], Turn(txn[p]))
  PROVE  TurnFits(pc[p], txn[p])' /\ \A d \in Docsets : file'[CurrentHead(d)] = file[CurrentHead(d)]
<1>1. PICK t, u, l, m : t = txn[p] /\ u = txn'[p] /\ l = pc[p] /\ m = pc'[p]
  OBVIOUS
<1>2. l # "idle" /\ Alike(t, u) /\ UNCHANGED assets
  BY <1>1 DEF GoesOn
<1>3. TypesFit(l, t) /\ TypesRoll(t) /\ t.d \in Docsets /\ HeadsFit(l, t) /\ TurnFits(l, t) /\ TxnFits(l, t)
  BY <1>1, <1>2, Acting DEF TypesFit, TypesRoll, ServedInv
<1>4. PICK h : h = Turn(t)
  OBVIOUS
<1>5. /\ t.orig # None /\ h \in OwnHeads(t) /\ h \in HeadsOf(t.d) /\ h \in Heads
      /\ t.op = "register" /\ (t.d \notin dirs \/ t.rooted = TRUE) => h # DocsetHead(t.d)
  BY <1>1, <1>3, <1>4, InTurn DEF Working
<1>6. file'[h] = f /\ \A g \in Heads \ {h} : file'[g] = file[g]
  BY <1>1, <1>4, <1>5, OneHeadIs
<1>7. \A d \in Docsets : file'[CurrentHead(d)] = file[CurrentHead(d)]
  <2>1. \A d \in Docsets : CurrentHead(d) \in Heads
    BY DEF Heads
  <2>2. \A d \in Docsets \ {t.d} : CurrentHead(d) # h
    BY <1>5 DEF HeadsOf, CurrentHead, DocsetHead, CatalogHead
  <2> QED
    BY <1>1, <1>3, <1>4, <1>6, <2>1, <2>2
<1>8. \A d \in Docsets : PointerOf(d)' = PointerOf(d) /\ (Told(d) => Told(d)')
  BY <1>2, <1>7, ServedStays
<1>9. /\ u.orig = t.orig /\ u.d = t.d /\ u.op = t.op /\ Making(u) = Making(t) /\ Making(u)' = Making(u)
  BY <1>2, AlikeSame DEF Alike, Making
<1>10. PICK c, s : c = CurrentHead(t.d) /\ s = DocsetHead(t.d)
  OBVIOUS
<1>11. Told(t.d)' \/ Amid(m, u)'
  <2>1. CASE Told(t.d)
    BY <1>3, <1>8, <2>1
  <2>2. CASE Amid(l, t)
    <3>1. l \in {"restoring", "relinking"} /\ m \in {"restoring", "relinking"} /\ t.op = "approve"
      BY <1>1, <2>2 DEF Amid
    <3>2. PointerOf(t.d)' = PointerOf(t.d) /\ file'[c] = file[c]
      BY <1>3, <1>7, <1>8, <1>10
    <3>3. file[c] = None \/ PointerOf(t.d) = Said(t.orig[c])
      BY <1>10, <2>2, <3>1 DEF Amid
    <3> QED
      BY <1>9, <1>10, <3>1, <3>2, <3>3 DEF Amid
  <2> QED
    BY <1>3, <1>5, <2>1, <2>2 DEF TurnFits
<1>12. t.orig[c] # None => NamesAsset(file'[s])
  <2>1. CASE h = s
    <3>1. t.d \in Home(t)
      BY <1>3, <1>5, <1>10, <2>1 DEF TypesRoll, Transactions, Home, Making
    <3>2. Baseline(t)
      BY <1>3, <1>5 DEF HeadsFit
    <3>3. t.op = "approve" => t.asset \in Assets
      BY <1>3 DEF TxnFits, ApprovalFits
    <3>4. t.orig[c] # None => NamesAsset(t.orig[s]) /\ t.asset # None
      BY <1>3, <1>5, <1>10, <3>1, <3>2, <3>3, AssetNamed
    <3>5. Content(t, s) = [title |-> t.title, asset |-> t.asset]
      BY <1>3, <1>10, ContentIs
    <3>6. f = None \/ f = t.orig[s] \/ (t.orig[s] # None /\ f.content = t.orig[s].content) \/ f.content = Content(t, s)
      BY <1>1, <1>4, <2>1
    <3>7. t.orig[c] # None => NamesAsset(f)
      BY <3>4, <3>5, <3>6 DEF NamesAsset
    <3> QED
      BY <1>6, <2>1, <3>7
  <2>2. CASE h # s
    <3>1. s \in Heads
      BY <1>3, <1>10 DEF Heads
    <3> QED
      BY <1>3, <1>5, <1>6, <1>10, <2>2, <3>1 DEF TurnFits
  <2> QED
    BY <2>1, <2>2
<1>13. Making(t) => served'[t.d] = None
  <2>1. Making(t) => served[t.d] = None /\ file[c] = None
    BY <1>3, <1>5, <1>10 DEF TurnFits, Making, TypesRoll
  <2>2. Making(t) => PointerOf(t.d)' = None
    BY <1>3, <1>8, <1>10, <2>1 DEF PointerOf
  <2> QED
    BY <1>3, <2>1, <2>2, Observed DEF Told
<1>14. m \in {"linking", "relinking"} => Turn(u) # c
  BY <1>1, <1>10 DEF Turn
<1>15. \A d \in Docsets \ {t.d} : Told(d)'
  BY <1>3, <1>5, <1>8 DEF TurnFits
<1>16. TurnFits(m, u)'
  BY <1>5, <1>9, <1>10, <1>11, <1>12, <1>13, <1>14, <1>15 DEF TurnFits, NamesAsset, Turn
<1> QED
  BY <1>1, <1>7, <1>16

\* The pointer itself is written: moved aside, linked, taken back or put back.
LEMMA PointerServes ==
  ASSUME LineageInv, LineageInv', TypesInv, TypesInv', RestTyped, HeadsInv, HeadsInv', ServedInv, Trusted, Observe,
         NEW p \in Procs, GoesOn(p), NEW f, file' = [file EXCEPT ![Turn(txn[p])] = f], txn[p].todo # <<>>,
         Turn(txn[p]) = CurrentHead(txn[p].d),
         \/ pc[p] = "writing" /\ pc'[p] = "linking" /\ txn'[p].todo = txn[p].todo /\ f = None
         \/ pc[p] = "linking" /\ pc'[p] = "retiring" /\ txn'[p].todo = txn[p].todo
              /\ f.content = Content(txn[p], Turn(txn[p]))
         \/ pc[p] = "linking" /\ pc'[p] = "restoring" /\ f = txn[p].orig[Turn(txn[p])]
         \/ /\ pc[p] = "restoring" /\ file[Turn(txn[p])] # None
            /\ file[Turn(txn[p])].inode = txn[p].pub[Turn(txn[p])]
            /\ f = None
            /\ \/ pc'[p] = "restoring"
               \/ pc'[p] = "relinking" /\ txn'[p].todo = txn[p].todo /\ txn[p].orig[Turn(txn[p])] # None
         \/ pc[p] = "relinking" /\ pc'[p] = "restoring" /\ txn[p].orig[Turn(txn[p])] # None
              /\ f.content \in {txn[p].orig[Turn(txn[p])].content, Content(txn[p], Turn(txn[p]))}
  PROVE  TurnFits(pc[p], txn[p])' /\ AllVerified'
<1>1. PICK t, u, l, m : t = txn[p] /\ u = txn'[p] /\ l = pc[p] /\ m = pc'[p]
  OBVIOUS
<1>2. l # "idle" /\ m # "idle" /\ Alike(t, u) /\ UNCHANGED <<dirs, assets>> /\ UNCHANGED cleared
  BY <1>1 DEF GoesOn
<1>3. TypesFit(l, t) /\ TypesRoll(t) /\ t.d \in Docsets /\ HeadsFit(l, t) /\ TurnFits(l, t) /\ TxnFits(l, t)
  BY <1>1, <1>2, Acting DEF TypesFit, TypesRoll, ServedInv
<1>4. PICK s, c : s = DocsetHead(t.d) /\ c = CurrentHead(t.d)
  OBVIOUS
<1>5. /\ t.orig # None /\ c \in OwnHeads(t) /\ c \in HeadsOf(t.d) /\ c \in Heads /\ s \in HeadsOf(t.d)
      /\ s \in Heads /\ s # c
  <2>1. l \in Working /\ l # "staging" /\ t.todo # <<>> /\ Turn(t) = c
    BY <1>1, <1>4 DEF Working
  <2>2. t.orig # None /\ c \in OwnHeads(t) /\ c \in HeadsOf(t.d) /\ c \in Heads
    BY <1>3, <2>1, InTurn
  <2> QED
    BY <1>3, <1>4, <2>2, HeadNames
<1>6. t.op = "approve" /\ ~Making(t)
  BY <1>3, <1>4, <1>5 DEF OwnHeads, CurrentHead, DocsetHead, CatalogHead, Making
<1>7. file'[c] = f /\ \A g \in Heads \ {c} : file'[g] = file[g]
  BY <1>1, <1>4, <1>5, OneHeadIs
<1>8. /\ u.orig = t.orig /\ u.d = t.d /\ u.op = t.op /\ Making(u)' = FALSE
      /\ u.asset = t.asset /\ Content(u, c)' = Content(t, c)
  BY <1>2, <1>3, <1>5, <1>6, AlikeSame, ContentStays DEF Alike, Making
<1>9. \A d \in Docsets \ {t.d} : PointerOf(d)' = PointerOf(d) /\ Told(d)'
  <2>1. \A d \in Docsets \ {t.d} : CurrentHead(d) \in Heads \ {c}
    BY <1>4 DEF Heads, CurrentHead
  <2>2. \A d \in Docsets \ {t.d} : PointerOf(d)' = PointerOf(d)
    BY <1>7, <2>1, PointerStays
  <2>3. \A d \in Docsets \ {t.d} : Told(d)
    BY <1>3, <1>5 DEF TurnFits
  <2> QED
    BY <2>2, <2>3, Observed
<1>10. /\ t.asset \in Assets /\ t.asset # None
       /\ Content(t, c) = [asset |-> t.asset, digest |-> assets[t.asset]]
       /\ Content(t, s) = [title |-> t.title, asset |-> t.asset]
  BY <1>3, <1>4, <1>6, ContentIs, NoneAssumption DEF TxnFits, ApprovalFits
<1>11. Baseline(t) /\ PubFits(t) /\ PhaseFits(l, t)
  BY <1>3, <1>5 DEF HeadsFit
<1>12. /\ CoherentIn(Before(t), t.d) /\ Before(t)[c] = t.orig[c]
       /\ t.orig[c] # None => t.orig[c].content.asset # t.asset
  <2>1. t.d \in Home(t)
    BY <1>3, <1>6 DEF Home, TypesRoll
  <2>2. PICK F : F = Before(t)
    OBVIOUS
  <2>3. F[c] = t.orig[c]
    BY <1>5, <2>2 DEF Before
  <2> QED
    BY <1>3, <1>4, <1>6, <1>11, <2>1, <2>2, <2>3 DEF Baseline
<1>13. t.orig[c] # None => NamesAsset(file[s])
  BY <1>3, <1>4, <1>5 DEF TurnFits
<1>14. file'[s] = file[s]
  BY <1>5, <1>7
<1>15. PointerOf(t.d)' = Said(f) /\ PointerOf(t.d) = Said(file[c])
  BY <1>4, <1>7 DEF PointerOf, Said
\* A docset without its pointer does not agree with itself.
<1>16. ASSUME f = None, file[s] # None => file[s].content.asset # None PROVE served'[t.d] = served[t.d]
  <2>1. PointerOf(t.d)' = None
    BY <1>15, <1>16 DEF Said
  <2>2. ~Coherent(t.d)'
    BY <1>4, <1>14, <1>16, <2>1 DEF Coherent, Bound
  <2> QED
    BY <1>3, <2>2 DEF Observe
\* What a step has to show.
<1>17. ASSUME Told(t.d)' \/ Amid(m, u)',
              m = "linking" => served'[t.d] = Said(t.orig[c]),
              m = "relinking" => served'[t.d] = Content(t, c)
       PROVE  TurnFits(pc[p], txn[p])'
  <2>1. TurnFits(m, u)'
    BY <1>4, <1>5, <1>8, <1>9, <1>13, <1>14, <1>17 DEF TurnFits, NamesAsset
  <2> QED
    BY <1>1, <2>1
<1>18. ASSUME f = None \/ f = t.orig[c] \/ (t.orig[c] # None /\ f.content = t.orig[c].content)
                \/ f.content = Content(t, c)
       PROVE  AllVerified'
  <2>1. \A d \in Docsets \ {t.d} : Verified(PointerOf(d))'
    BY <1>2, <1>9 DEF ServedInv, AllVerified, Verified
  <2>2. t.orig[c] # None => assets[t.orig[c].content.asset] = t.orig[c].content.digest
    <3>1. t.orig[c] # None => t.orig[c].content # None
      BY <1>3, <1>4, <1>5, Kinds, AbsenceAssumption DEF TypesRoll, Typed
    <3> QED
      BY <1>4, <1>12, <3>1 DEF CoherentIn, Said, Verified
  <2>3. Verified(PointerOf(t.d))'
    <3>1. CASE f = None
      BY <1>15, <3>1 DEF Said, Verified
    <3>2. CASE f # None /\ t.orig[c] # None /\ f.content = t.orig[c].content
      BY <1>2, <1>15, <2>2, <3>2 DEF Said, Verified
    <3>3. CASE f # None /\ f.content = Content(t, c)
      BY <1>2, <1>10, <1>15, <3>3 DEF Said, Verified
    <3> QED
      BY <1>18, <3>1, <3>2, <3>3
  <2> QED
    BY <2>1, <2>3 DEF AllVerified
<1>19. CASE l = "writing" /\ m = "linking" /\ u.todo = t.todo /\ f = None
  <2>1. WritingFits(t) /\ file[c] = t.orig[c]
    BY <1>1, <1>4, <1>11, <1>19 DEF PhaseFits, Untouched
  <2>2. Written(t, s)
    BY <1>1, <1>3, <1>4, <1>6, <2>1, PointerLast
  <2>3. served'[t.d] = served[t.d]
    BY <1>10, <1>16, <1>19, <2>2 DEF Written
  <2>4. Told(t.d)
    BY <1>3, <1>5, <1>19 DEF TurnFits, Amid
  <2>5. served'[t.d] = Said(t.orig[c])
    BY <1>15, <2>1, <2>3, <2>4 DEF Told
  <2>6. Amid(m, u)'
    BY <1>1, <1>4, <1>6, <1>8, <1>19 DEF Amid, Turn
  <2> QED
    BY <1>17, <1>18, <1>19, <2>5, <2>6
<1>20. CASE l = "linking" /\ m = "retiring" /\ u.todo = t.todo /\ f.content = Content(t, c)
  <2>1. WritingFits(t) /\ t.rooted = TRUE
    BY <1>3, <1>6, <1>11, <1>20 DEF PhaseFits, TxnFits, ApprovalFits
  <2>2. Left(t) = {c} /\ Left(u)' = {c}
    BY <1>1, <1>3, <1>4, <1>6, <1>20, <2>1, PointerLast DEF Left
  <2>3. (HeadsFit(m, u) /\ TypesFit(m, u) /\ DiskTyped)'
    <3>1. Trusted'
      BY <1>2 DEF Trusted
    <3> QED
      BY <1>1, <1>2, <3>1 DEF HeadsInv, TypesInv
  <2>4. (Baseline(u) /\ WritingFits(u) /\ Written(u, Turn(u)))'
    BY <1>5, <1>8, <1>20, <2>3 DEF HeadsFit, PhaseFits
  <2>5. Turn(u)' = c
    BY <1>1, <1>4, <1>20 DEF Turn
  <2>6. (\A h \in HeadsOf(u.d) : Finished(u, h))'
    <3>1. Written(u, c)' /\ HeadsOf(u.d)' = HeadsOf(t.d) /\ OwnHeads(u)' = OwnHeads(t)
      BY <1>2, <2>4, <2>5, AlikeSame DEF Written, Turn, OwnHeads, HeadsOf, Alike
    <3>2. Finished(u, c)'
      BY <1>5, <3>1 DEF Finished
    <3>3. \A h \in HeadsOf(t.d) \ {c} : Finished(u, h)'
      BY <2>2, <2>4, <3>1 DEF WritingFits
    <3> QED
      BY <3>1, <3>2, <3>3
  <2>7. (TypesRoll(u) /\ u.orig # None /\ (u.op = "approve" => u.rooted = TRUE))'
    BY <1>2, <1>5, <2>1, <2>3 DEF TypesFit, Alike
  <2>8. AtRest'
    BY <2>3, <2>4, <2>6, <2>7, LinkedAtRest
  <2>9. t.d \in dirs'
    BY <1>2, <1>3, <1>6 DEF TypesRoll
  <2>10. Told(t.d)'
    BY <1>3, <2>8, <2>9, Observed DEF AtRest
  <2> QED
    BY <1>17, <1>18, <1>20, <2>10
<1>21. CASE l = "linking" /\ m = "restoring" /\ f = t.orig[c]
  <2>1. Amid(m, u)'
    BY <1>4, <1>6, <1>8, <1>15, <1>21 DEF Amid
  <2> QED
    BY <1>17, <1>18, <1>21, <2>1
<1>22. CASE l = "restoring" /\ m = "restoring" /\ f = None
  <2>1. Amid(m, u)'
    BY <1>4, <1>6, <1>7, <1>8, <1>22 DEF Amid
  <2> QED
    BY <1>17, <1>18, <1>22, <2>1
<1>23. CASE l = "restoring" /\ m = "relinking" /\ f = None /\ u.todo = t.todo /\ t.orig[c] # None
              /\ file[c] # None /\ file[c].inode = t.pub[c]
  <2>1. file[c].content = Content(t, c)
    <3>1. t.pub[c] # None
      <4>1. l \in Working /\ l # "staging" /\ t.todo # <<>> /\ Turn(t) = c
        BY <1>1, <1>4, <1>23 DEF Working
      <4>2. c \in Left(t)
        BY <1>3, <4>1, InTurn
      <4> QED
        BY <1>3, <1>23, <4>2 DEF TypesFit
    <3> QED
      BY <1>5, <1>11, <1>23, <3>1 DEF PubFits, Genuine
  <2>2. PointerOf(t.d) = Content(t, c) /\ PointerOf(t.d) # Said(t.orig[c])
    BY <1>10, <1>12, <1>15, <1>23, <2>1 DEF Said
  <2>3. Told(t.d)
    BY <1>3, <1>4, <1>5, <1>23, <2>2 DEF TurnFits, Amid
  <2>4. served'[t.d] = served[t.d]
    BY <1>13, <1>16, <1>23 DEF NamesAsset
  <2>5. served'[t.d] = Content(t, c)
    BY <2>2, <2>3, <2>4 DEF Told
  <2>6. Amid(m, u)'
    BY <1>4, <1>6, <1>7, <1>8, <1>23 DEF Amid
  <2> QED
    BY <1>17, <1>18, <1>23, <2>5, <2>6
<1>24. CASE l = "relinking" /\ m = "restoring" /\ t.orig[c] # None /\ f.content \in {t.orig[c].content, Content(t, c)}
  <2>1. CASE f.content = t.orig[c].content
    <3>1. f # None => PointerOf(t.d)' = Said(u.orig[c])
      BY <1>8, <1>15, <1>24, <2>1 DEF Said
    <3>2. Amid(m, u)'
      BY <1>4, <1>6, <1>7, <1>8, <1>24, <3>1 DEF Amid
    <3> QED
      BY <1>17, <1>18, <1>24, <2>1, <3>2
  <2>2. CASE f.content = Content(t, c)
    <3>1. served[t.d] = Content(t, c)
      BY <1>1, <1>3, <1>4, <1>5, <1>24 DEF TurnFits
    <3>2. f # None => Told(t.d)'
      BY <1>3, <1>15, <2>2, <3>1, Observed DEF Told, Said
    <3>3. f = None => Amid(m, u)'
      BY <1>4, <1>6, <1>7, <1>8, <1>24 DEF Amid
    <3> QED
      BY <1>17, <1>18, <1>24, <2>2, <3>2, <3>3
  <2> QED
    BY <1>24, <2>1, <2>2
<1> QED
  BY <1>1, <1>4, <1>19, <1>20, <1>21, <1>22, <1>23, <1>24

LEMMA GoingOnServes ==
  ASSUME LineageInv, LineageInv', TypesInv, TypesInv', RestTyped, HeadsInv, HeadsInv', ServedInv, Observe,
         NEW p \in Procs, GoesOn(p)
  PROVE  ServedInv'
<1>1. pc[p] # "idle" /\ pc'[p] # "idle" /\ UNCHANGED cleared /\ UNCHANGED <<dirs, assets>> /\ Rewrites(p)
  BY DEF GoesOn
<1> SUFFICES ASSUME Trusted PROVE AllVerified' /\ TurnFits(pc[p], txn[p])'
  <2>1. Trusted => \A d \in Docsets \ dirs' : served[d] = None
    BY <1>1 DEF ServedInv
  <2>2. Trusted => /\ \A d \in Docsets \ dirs' : served[d] = None
                   /\ AllVerified' /\ TurnFits(pc[p], txn[p])'
    BY <2>1
  <2> QED
    BY <1>1, <2>2, ServedOn
<1>2. AllVerified
  BY DEF ServedInv
<1>3. CASE /\ UNCHANGED file /\ pc'[p] \notin {"linking", "relinking"}
           /\ pc[p] \in {"linking", "restoring", "relinking"} => pc'[p] = "restoring"
  BY <1>1, <1>2, <1>3, QuietlyServes, ServedStays
<1>4. CASE ~ (/\ UNCHANGED file /\ pc'[p] \notin {"linking", "relinking"}
              /\ pc[p] \in {"linking", "restoring", "relinking"} => pc'[p] = "restoring")
  <2>1. PICK t, h : t = txn[p] /\ h = Turn(t)
    OBVIOUS
  <2>2. PICK f : /\ t.todo # <<>> /\ file' = [file EXCEPT ![h] = f]
                 /\ \/ pc[p] = "writing" /\ pc'[p] = "linking" /\ txn'[p].todo = t.todo /\ f = None
                    \/ pc[p] = "linking" /\ pc'[p] = "retiring" /\ txn'[p].todo = t.todo
                         /\ f.content = Content(t, h)
                    \/ pc[p] = "linking" /\ pc'[p] = "restoring" /\ f = t.orig[h]
                    \/ /\ pc[p] = "restoring" /\ file[h] # None /\ file[h].inode = t.pub[h] /\ f = None
                       /\ \/ pc'[p] = "restoring"
                          \/ pc'[p] = "relinking" /\ txn'[p].todo = t.todo /\ t.orig[h] # None
                    \/ pc[p] = "relinking" /\ pc'[p] = "restoring" /\ t.orig[h] # None
                         /\ f.content \in {t.orig[h].content, Content(t, h)}
    BY <1>1, <1>4, <2>1 DEF Rewrites
  <2>3. CASE h = CurrentHead(t.d)
    BY <2>1, <2>2, <2>3, PointerServes
  <2>4. CASE h # CurrentHead(t.d)
    <3>1. /\ pc[p] \in {"writing", "linking", "restoring", "relinking"}
          /\ pc[p] \in {"restoring", "relinking"} => pc'[p] \in {"restoring", "relinking"}
          /\ pc'[p] \in {"linking", "relinking"} => txn'[p].todo = t.todo
          /\ \/ f = None \/ f = t.orig[h] \/ (t.orig[h] # None /\ f.content = t.orig[h].content)
             \/ f.content = Content(t, h)
      BY <2>2
    <3>2. TurnFits(pc[p], txn[p])' /\ \A d \in Docsets : file'[CurrentHead(d)] = file[CurrentHead(d)]
      BY <2>1, <2>2, <2>4, <3>1, OtherHeadServes
    <3> QED
      BY <1>1, <1>2, <3>2, ServedStays
  <2> QED
    BY <2>3, <2>4
<1> QED
  BY <1>3, <1>4

\* A transaction that ends has the pointer it is about to leave told, or
\* leaves its locks.
LEMMA LeavingServes ==
  ASSUME LineageInv, TypesInv, TypesInv', RestTyped, HeadsInv, ServedInv, Observe, NEW p \in Procs,
         \/ GiveUpLocking(p) \/ UnlockCatalog(p) \/ Abandon(p) \/ ForceClose(p) \/ ForceCloseFails(p)
         \/ Crash(p) \/ (UnlockFails(p) /\ Leave(p))
  PROVE  ServedInv'
<1>1. /\ pc[p] # "idle" /\ Leave(p) /\ UNCHANGED cleared /\ UNCHANGED <<file, dirs, assets>>
      /\ pc[p] \notin {"locking", "unlocking", "releasing", "forcing"} => UNCHANGED locks
  BY DEF GiveUpLocking, UnlockCatalog, Abandon, ForceClose, ForceCloseFails, Crash, UnlockFails, heads
<1>2. CatalogLock \in locks /\ \A q \in Procs \ {p} : pc[q] = "idle"
  BY <1>1, Acting
<1>3. Trusted => AllVerified /\ TurnFits(pc[p], txn[p]) /\ \A d \in Docsets \ dirs : served[d] = None
  BY <1>1 DEF ServedInv
<1>4. AllTold => AllTold'
  BY <1>1, ServedStays
<1>5. AllVerified => AllVerified'
  BY <1>1, ServedStays
<1>6. ASSUME Trusted, CatalogLock \notin locks' PROVE AllTold'
  <2>1. pc[p] \in {"locking", "unlocking", "releasing", "forcing"}
    BY <1>1, <1>2, <1>6
  <2>2. ~Amid(pc[p], txn[p])
    BY <2>1 DEF Amid
  <2>3. AllTold
    BY <1>3, <1>6, <2>2 DEF TurnFits, AllTold
  <2> QED
    BY <1>4, <2>3
<1>7. Trusted => /\ \A d \in Docsets \ dirs' : served[d] = None
                 /\ AllVerified' /\ (CatalogLock \notin locks' => AllTold')
  BY <1>1, <1>3, <1>5, <1>6
<1> QED
  BY <1>1, <1>2, <1>7, ServedOut

LEMMA BeginningServes ==
  ASSUME LineageInv, LineageInv', TypesInv, TypesInv', RestTyped, ServedInv, Observe, NEW p \in Procs, Begin(p)
  PROVE  ServedInv'
<1>1. /\ CatalogLock \notin locks /\ UNCHANGED <<file, dirs, assets>> /\ UNCHANGED cleared
  BY DEF Begin, ApproveBegin, RegisterBegin, LockFree
<1>2. PICK op, d, title, asset, run, l :
          l \in {"locking", "checking"} /\ Enter(p, l, Transaction(op, d, title, asset, run))
  BY DEF Begin, ApproveBegin, RegisterBegin
<1>3. pc'[p] # "idle" /\ txn'[p].orig = None
  BY <1>2, Entered DEF Transaction
<1>4. Trusted => /\ \A e \in Docsets \ dirs' : served[e] = None
                 /\ AllVerified' /\ AllTold'
  <2>1. Trusted => AllTold /\ AllVerified /\ \A e \in Docsets \ dirs : served[e] = None
    BY <1>1 DEF ServedInv
  <2>2. (AllTold => AllTold') /\ (AllVerified => AllVerified')
    BY <1>1, ServedStays
  <2> QED
    BY <1>1, <2>1, <2>2
<1>5. Trusted => TurnFits(pc[p], txn[p])'
  BY <1>3, <1>4 DEF TurnFits
<1> QED
  BY <1>1, <1>3, <1>4, <1>5, ServedOn

LEMMA CheckingServes ==
  ASSUME LineageInv, LineageInv', TypesInv, TypesInv', RestTyped, HeadsInv, ServedInv, Observe, NEW p \in Procs,
         CheckApproval(p) \/ CheckRegistration(p)
  PROVE  ServedInv'
<1>1. PICK t, u, m : t = txn[p] /\ u = txn'[p] /\ m = pc'[p]
  OBVIOUS
<1>2. /\ pc[p] = "checking" /\ UNCHANGED <<file, dirs, assets>> /\ UNCHANGED cleared
  BY DEF CheckApproval, CheckRegistration, heads
<1>3. TypesFit("checking", t) /\ DiskTyped /\ t \in Transactions(t.d) /\ t.d \in Docsets /\ t.orig = None /\ t.rooted = FALSE
  BY <1>1, <1>2 DEF TypesInv, TypesFit, TypesRoll
<1>4. pc'[p] \in {"staging", "writing"} /\ u.orig = Capture(t) /\ u.d = t.d /\ u.rooted = FALSE
  <2>1. CASE CheckApproval(p)
    <3>1. Enter(p, "staging", [t EXCEPT !.orig = Capture(t), !.title = file[DocsetHead(t.d)].content.title])
      BY <1>1, <2>1 DEF CheckApproval
    <3>2. u = [t EXCEPT !.orig = Capture(t), !.title = file[DocsetHead(t.d)].content.title] /\ pc'[p] = "staging"
      BY <1>1, <3>1, Entered
    <3> QED
      BY <1>3, <3>2 DEF Transactions
  <2>2. CASE CheckRegistration(p)
    <3>1. PICK asset : asset = IF file[DocsetHead(t.d)] = None THEN None ELSE file[DocsetHead(t.d)].content.asset
      OBVIOUS
    <3>2. PICK c : c = [t EXCEPT !.orig = Capture(t), !.asset = asset]
      OBVIOUS
    <3>3. PICK e : e = [c EXCEPT !.todo = <<DocsetHead(t.d), CatalogHead>>]
      OBVIOUS
    <3>4. Enter(p, "writing", e) \/ Enter(p, "staging", c)
      BY <1>1, <2>2, <3>1, <3>2, <3>3 DEF CheckRegistration
    <3>5. c.orig = Capture(t) /\ c.d = t.d /\ e.orig = Capture(t) /\ e.d = t.d /\ c.rooted = FALSE /\ e.rooted = FALSE
      BY <1>3, <3>2, <3>3 DEF Transactions
    <3>6. \/ pc'[p] = "writing" /\ u = e
          \/ pc'[p] = "staging" /\ u = c
      BY <1>1, <3>4, Entered
    <3> QED
      BY <3>5, <3>6
  <2> QED
    BY <2>1, <2>2
<1>5. u.orig # None /\ \A h \in HeadsOf(t.d) : u.orig[h] = file[h]
  BY <1>3, <1>4, Captured
<1>6. ASSUME Trusted
      PROVE  /\ \A d \in Docsets \ dirs' : served[d] = None
             /\ AllVerified' /\ TurnFits(pc[p], txn[p])'
  <2>1. AllTold /\ AllVerified /\ \A d \in Docsets \ dirs : served[d] = None
    BY <1>1, <1>2, <1>3, <1>6 DEF ServedInv, TurnFits
  <2>2. AllTold' /\ AllVerified'
    BY <1>2, <2>1, ServedStays
  <2>3. AtRest
    BY <1>1, <1>2, <1>3, <1>6, Acting DEF HeadsFit
  <2>4. u.orig[CurrentHead(u.d)] # None => NamesAsset(file[DocsetHead(u.d)])
    <3>1. PICK s, c : s = DocsetHead(t.d) /\ c = CurrentHead(t.d)
      OBVIOUS
    <3>2. u.orig[c] = file[c]
      BY <1>3, <1>5, <3>1, HeadNames
    <3>3. ASSUME file[c] # None PROVE NamesAsset(file[s])
      <4>1. Coherent(t.d) /\ PointerOf(t.d) = file[c].content
        BY <1>3, <2>3, <3>1, <3>3 DEF AtRest, DiskTyped, PointerOf
      <4>2. PointerOf(t.d) \in Pointer /\ PointerOf(t.d) # None
        BY <1>3, <3>1, <3>3, <4>1, HeadNames, Kinds, AbsenceAssumption DEF DiskTyped, Typed
      <4> QED
        BY <3>1, <4>1, <4>2, NoneAssumption DEF Coherent, Bound, NamesAsset, Pointer
    <3> QED
      BY <1>4, <3>1, <3>2, <3>3
  <2>5. TurnFits(m, u)'
    <3>1. m # "linking" /\ m # "relinking" /\ ~Making(u)' /\ u.d \in Docsets
      BY <1>1, <1>3, <1>4 DEF Making
    <3>2. u.orig[CurrentHead(u.d)] # None => NamesAsset(file'[DocsetHead(u.d)])
      BY <1>2, <2>4
    <3> QED
      BY <1>5, <2>2, <3>1, <3>2 DEF TurnFits, AllTold, NamesAsset
  <2> QED
    BY <1>1, <1>2, <2>1, <2>2, <2>5
<1> QED
  BY <1>2, <1>4, <1>6, ServedOn

LEMMA PublishRootServes ==
  ASSUME LineageInv, LineageInv', TypesInv, TypesInv', RestTyped, HeadsInv, ServedInv, Observe, NEW p \in Procs,
         PublishRoot(p)
  PROVE  ServedInv'
<1>1. PICK t, u, m, v : t = txn[p] /\ u = txn'[p] /\ m = pc'[p] /\ v = [t EXCEPT !.rooted = TRUE, !.todo = WriteOrder(t)]
  OBVIOUS
<1>2. /\ pc[p] = "staging" /\ UNCHANGED cleared
      /\ Enter(p, "writing", v) \/ Fail(p, v, FALSE)
  BY <1>1 DEF PublishRoot
<1>3. /\ TxnFits("staging", t) /\ TypesFit("staging", t) /\ DiskTyped /\ TypesRoll(t) /\ t.d \in Docsets
      /\ t \in Transactions(t.d) /\ t.op \in {"approve", "register"} /\ t.orig # None
  BY <1>1, <1>2, Acting, ActingOn DEF Working
<1>4. v.op = t.op /\ v.d = t.d /\ v.orig = t.orig /\ v.rooted = TRUE /\ v \in Transactions(v.d)
  <2>1. v.op = t.op /\ v.d = t.d /\ v.orig = t.orig /\ v.rooted = TRUE
    BY <1>1, <1>3 DEF Transactions
  <2>2. WriteOrder(t) \in Seq(Heads)
    <3>1. DocsetHead(t.d) \in Heads /\ CurrentHead(t.d) \in Heads /\ CatalogHead \in Heads
      BY <1>3 DEF Heads
    <3>2. CASE t.op = "approve"
      BY <3>1, <3>2 DEF WriteOrder
    <3>3. CASE t.op # "approve"
      BY <3>1, <3>3 DEF WriteOrder
    <3> QED
      BY <3>2, <3>3
  <2> QED
    BY <1>1, <1>3, <2>1, <2>2 DEF Transactions
<1>5. pc'[p] \in {"writing", "restoring"} /\ u.op = t.op /\ u.d = t.d /\ u.orig = t.orig /\ u.rooted = TRUE
  <2>1. CASE Enter(p, "writing", v)
    BY <1>1, <1>4, <2>1, Entered
  <2>2. CASE Fail(p, v, FALSE)
    BY <1>1, <1>4, <2>2, Failed DEF Alike
  <2> QED
    BY <1>2, <2>1, <2>2
<1>6. PICK s, c : s = DocsetHead(t.d) /\ c = CurrentHead(t.d)
  OBVIOUS
<1>7. \/ t.op = "approve" /\ assets[t.asset] = None /\ UNCHANGED <<file, dirs>>
           /\ \E x : assets' = [assets EXCEPT ![t.asset] = x]
      \/ t.op = "register" /\ t.d \notin dirs /\ dirs' = dirs \cup {t.d} /\ UNCHANGED assets
           /\ \E f : file' = [file EXCEPT ![s] = f]
  BY <1>1, <1>3, <1>6 DEF PublishRoot, Transactions
<1>8. \A d \in Docsets : file'[CurrentHead(d)] = file[CurrentHead(d)]
  <2>1. s \in Heads /\ \A d \in Docsets : CurrentHead(d) \in Heads \ {s}
    BY <1>3, <1>6 DEF Heads, CurrentHead, DocsetHead
  <2> QED
    BY <1>7, <2>1 DEF LineageInv, Stored
<1>9. \A d \in Docsets : PointerOf(d)' = PointerOf(d)
  BY <1>8, PointerStays
<1>10. ASSUME Trusted
       PROVE  /\ \A d \in Docsets \ dirs' : served[d] = None
              /\ AllVerified' /\ TurnFits(pc[p], txn[p])'
  <2>1. AllVerified /\ TurnFits("staging", t) /\ \A d \in Docsets \ dirs : served[d] = None
    BY <1>1, <1>2, <1>10 DEF ServedInv
  <2>2. AllTold
    BY <1>3, <2>1 DEF TurnFits, Amid, AllTold
  <2>3. AllTold'
    BY <1>9, <2>2, Observed DEF AllTold
  <2>4. HeadsFit("staging", t)
    BY <1>1, <1>2, <1>10, Acting
  <2>5. CASE t.op = "approve"
    <3>1. PICK x : assets' = [assets EXCEPT ![t.asset] = x]
      BY <1>7, <2>5
    <3>2. assets[t.asset] = None /\ UNCHANGED <<file, dirs>> /\ t.asset \in Assets
      BY <1>3, <1>7, <2>5 DEF TxnFits, ApprovalFits
    <3>3. \A a \in Assets \ {t.asset} : assets'[a] = assets[a]
      BY <3>1 DEF LineageInv, Stored
    <3>4. ASSUME NEW d \in Docsets PROVE Verified(PointerOf(d))'
      <4>1. CASE PointerOf(d) = None
        BY <1>9, <4>1 DEF Verified
      <4>2. CASE PointerOf(d) # None
        <5>1. PointerOf(d).asset \in Assets /\ PointerOf(d).digest # None
          BY <4>2 DEF LineageInv, Stored, PointerFits, PointerOf
        <5>2. assets[PointerOf(d).asset] = PointerOf(d).digest
          BY <2>1, <4>2 DEF AllVerified, Verified
        <5>3. assets'[PointerOf(d).asset] = PointerOf(d).digest
          BY <3>2, <3>3, <5>1, <5>2
        <5> QED
          BY <1>9, <5>3 DEF Verified
      <4> QED
        BY <4>1, <4>2
    <3>5. t.orig[c] # None => NamesAsset(file'[s])
      BY <1>3, <1>6, <2>1, <3>2 DEF TurnFits
    <3>6. TurnFits(m, u)'
      BY <1>1, <1>5, <1>3, <1>6, <2>3, <2>5, <3>5 DEF TurnFits, AllTold, NamesAsset, Making
    <3> QED
      BY <1>1, <2>1, <3>2, <3>4, <3>6 DEF AllVerified
  <2>6. CASE t.op = "register"
    <3>1. t.d \notin dirs /\ dirs' = dirs \cup {t.d} /\ UNCHANGED assets
      BY <1>7, <2>6
    <3>2. AllVerified'
      BY <1>9, <2>1, <3>1 DEF AllVerified, Verified
    <3>3. file[c] = None /\ t.orig[c] = None
      BY <1>3, <1>6, <2>4, <3>1, HeadNames DEF DiskTyped, HeadsFit, PhaseFits, Untouched
    <3>4. served'[t.d] = None
      BY <1>3, <1>6, <1>9, <2>3, <3>3 DEF AllTold, Told, PointerOf
    <3>5. TurnFits(m, u)'
      BY <1>1, <1>5, <1>3, <1>6, <2>3, <3>3, <3>4 DEF TurnFits, AllTold
    <3> QED
      BY <1>1, <2>1, <3>1, <3>2, <3>5
  <2> QED
    BY <1>3, <2>5, <2>6
<1> QED
  BY <1>2, <1>5, <1>10, ServedOn

LEMMA CleanUpServes ==
  ASSUME LineageInv, LineageInv', TypesInv, TypesInv', RestTyped, HeadsInv, HeadsInv', ServedInv, Observe,
         NEW p \in Procs, CleanUp(p)
  PROVE  ServedInv'
<1>1. PICK t, u, l : t = txn[p] /\ u = [t EXCEPT !.rooted = FALSE] /\ l = IF t.closing THEN "forcing" ELSE "unlocking"
  OBVIOUS
<1>2. pc[p] = "restoring" /\ t.todo = <<>> /\ UNCHANGED <<cleared, locks>> /\ ~t.failed
      /\ IF t.recovery THEN Leave(p) ELSE Enter(p, l, u)
  BY <1>1 DEF CleanUp
<1>3. /\ TxnFits("restoring", t) /\ TypesFit("restoring", t) /\ DiskTyped
      /\ CatalogLock \in locks /\ \A q \in Procs \ {p} : pc[q] = "idle"
  BY <1>1, <1>2, Acting
<1>4. /\ TypesRoll(t) /\ t \in Transactions(t.d) /\ t.rooted \in BOOLEAN /\ t.failed = FALSE
      /\ t.orig # None /\ t.d \in Docsets /\ t.op \in {"approve", "register"}
  BY <1>2, <1>3 DEF TypesFit, TypesRoll, Transactions
<1>5. Retired(t) /\ CatalogLock \in locks'
  BY <1>1, <1>2, <1>3, <1>4 DEF CleanUp, Retired
<1>6. u.op = t.op /\ u.d = t.d /\ u.asset = t.asset /\ u.orig = t.orig /\ u.rooted = FALSE
  BY <1>1, <1>4 DEF Transactions
<1>7. PICK s, c : s = DocsetHead(t.d) /\ c = CurrentHead(t.d)
  OBVIOUS
<1>8. /\ s \in Heads
      /\ UNCHANGED file \/ file' = [file EXCEPT ![s] = None]
      /\ t.op = "approve" => UNCHANGED <<file, dirs>>
  BY <1>4, <1>5, <1>7 DEF Retired, Heads
<1>9. \A d \in Docsets : file'[CurrentHead(d)] = file[CurrentHead(d)]
  <2>1. s \in Heads /\ \A d \in Docsets : CurrentHead(d) \in Heads \ {s}
    BY <1>4, <1>7 DEF Heads, CurrentHead, DocsetHead
  <2> QED
    BY <1>8, <2>1 DEF LineageInv, Stored
<1>10. \A d \in Docsets : PointerOf(d)' = PointerOf(d) /\ (Told(d) => Told(d)')
  BY <1>9, PointerStays, Observed
<1>11. ASSUME Trusted
       PROVE  /\ \A d \in Docsets \ dirs' : served[d] = None
              /\ AllVerified' /\ (Enter(p, l, u) => TurnFits(l, u)')
  <2>1. AllVerified /\ TurnFits("restoring", t) /\ \A d \in Docsets \ dirs : served[d] = None
    BY <1>1, <1>2, <1>11 DEF ServedInv
  <2>2. HeadsFit("restoring", t)
    BY <1>1, <1>2, <1>11, Acting
  <2>3. \A d \in Docsets \ dirs' : served[d] = None
    <3>1. CASE t.rooted = TRUE /\ t.op = "register"
      <4>1. served[t.d] = None /\ dirs' = dirs \ {t.d}
        BY <1>4, <1>5, <2>1, <3>1 DEF TurnFits, Making, Retired
      <4> QED
        BY <2>1, <4>1
    <3>2. CASE ~ (t.rooted = TRUE /\ t.op = "register")
      BY <1>5, <2>1, <3>2 DEF Retired
    <3> QED
      BY <3>1, <3>2
  <2>4. AllVerified'
    <3>1. CASE t.rooted = TRUE /\ t.op = "approve"
      <4>1. Baseline(t) /\ \A h \in HeadsOf(t.d) : Back(t, h)
        <5>1. Left(t) = {}
          BY <1>2 DEF Left, Elems
        <5> QED
          BY <1>4, <2>2, <5>1 DEF HeadsFit, PhaseFits, RestoringFits
      <4>2. \A d \in Docsets : file[CurrentHead(d)] # None => file[CurrentHead(d)].content.asset # t.asset
        BY <1>4, <3>1, <4>1, NobodyNamesIt
      <4>3. \A a \in Assets \ {t.asset} : assets'[a] = assets[a]
        BY <1>5, <3>1 DEF Retired, LineageInv, Stored
      <4>4. ASSUME NEW d \in Docsets PROVE Verified(PointerOf(d))'
        <5>1. PointerOf(d) # None => PointerOf(d).asset \in Assets \ {t.asset}
          BY <4>2 DEF LineageInv, Stored, PointerFits, PointerOf
        <5>2. PointerOf(d) # None => assets'[PointerOf(d).asset] = PointerOf(d).digest
          BY <2>1, <4>3, <5>1 DEF AllVerified, Verified
        <5> QED
          BY <1>10, <5>2 DEF Verified
      <4> QED
        BY <4>4 DEF AllVerified
    <3>2. CASE ~ (t.rooted = TRUE /\ t.op = "approve")
      BY <1>5, <1>10, <2>1, <3>2 DEF Retired, AllVerified, Verified
    <3> QED
      BY <3>1, <3>2
  <2>5. ASSUME Enter(p, l, u) PROVE TurnFits(l, u)'
    <3>1. Told(t.d)'
      <4>1. CASE t.op = "register"
        BY <1>4, <1>10, <2>1, <4>1 DEF TurnFits, Amid
      <4>2. CASE t.op = "approve"
        <5>1. pc'[p] = l /\ txn'[p] = u /\ l \in {"forcing", "unlocking"}
          BY <1>1, <2>5, Entered
        <5>2. (HeadsFit(l, u) /\ TypesFit(l, u) /\ DiskTyped)'
          <6>1. Trusted'
            BY <1>2, <1>11 DEF Trusted
          <6> QED
            BY <5>1, <6>1 DEF HeadsInv, TypesInv
        <5>3. u.raised = TRUE
          BY <1>1, <1>3, <1>4 DEF TypesFit, Transactions
        <5>4. (Baseline(u) /\ Restored(u) /\ u.d \in Docsets /\ DiskTyped)'
          BY <1>4, <1>6, <5>1, <5>2, <5>3 DEF HeadsFit, PhaseFits
        <5>5. AtRest'
          BY <5>4, AllBackAtRest
        <5>6. t.d \in dirs'
          BY <1>4, <1>8, <4>2 DEF TypesRoll
        <5> QED
          BY <1>4, <5>5, <5>6, Observed DEF AtRest
      <4> QED
        BY <1>4, <4>1, <4>2
    <3>2. t.orig[c] # None => NamesAsset(file'[s])
      <4>1. t.orig[c] # None => NamesAsset(file[s])
        BY <1>4, <1>7, <2>1 DEF TurnFits
      <4>2. file'[s] = file[s] \/ file'[s] = None
        BY <1>8 DEF LineageInv, Stored
      <4> QED
        BY <4>1, <4>2 DEF NamesAsset
    <3>3. l # "linking" /\ l # "relinking"
      BY <1>1
    <3>4. \A d \in Docsets \ {t.d} : Told(d)'
      BY <1>4, <1>10, <2>1 DEF TurnFits
    <3> QED
      BY <1>4, <1>6, <1>7, <3>1, <3>2, <3>3, <3>4 DEF TurnFits, NamesAsset, Making
  <2> QED
    BY <2>3, <2>4, <2>5
<1>12. CASE Leave(p)
  <2>1. Trusted => /\ \A d \in Docsets \ dirs' : served[d] = None
                   /\ AllVerified' /\ (CatalogLock \notin locks' => AllTold')
    BY <1>5, <1>11
  <2> QED
    BY <1>2, <1>3, <1>12, <2>1, ServedOut
<1>13. CASE Enter(p, l, u)
  <2>1. pc'[p] = l /\ txn'[p] = u /\ l # "idle"
    BY <1>1, <1>13, Entered
  <2>2. Trusted => /\ \A d \in Docsets \ dirs' : served[d] = None
                   /\ AllVerified' /\ TurnFits(pc[p], txn[p])'
    BY <1>11, <1>13, <2>1
  <2> QED
    BY <1>2, <2>1, <2>2, ServedOn
<1> QED
  BY <1>2, <1>12, <1>13

LEMMA OthersServe ==
  ASSUME LineageInv, TypesInv, RestTyped, ServedInv, UNCHANGED <<file, dirs, assets, pc, txn>>,
         UNCHANGED <<locks, cleared>> \/ (cleared \in Nat /\ cleared' = cleared + 1),
         UNCHANGED served \/ Observe
  PROVE  ServedInv'
<1>1. UNCHANGED <<file, dirs, assets>> /\ UNCHANGED <<pc, txn>>
  OBVIOUS
<1> SUFFICES ASSUME Trusted' PROVE ServedInv'
  BY DEF ServedInv
<1>2. UNCHANGED <<locks, cleared>> /\ Trusted
  BY DEF Trusted
<1>3. /\ \A d \in Docsets : Coherent(d) => Told(d)
      /\ AllVerified
      /\ \A d \in Docsets \ dirs : served[d] = None
      /\ CatalogLock \notin locks => AllTold
      /\ \A p \in Procs : pc[p] # "idle" => TurnFits(pc[p], txn[p])
  BY <1>2 DEF ServedInv
<1>4. UNCHANGED served
  <2>1. \A d \in Docsets : PointerOf(d)' = PointerOf(d) /\ (Coherent(d)' <=> Coherent(d))
    BY <1>1 DEF PointerOf, Coherent, Bound, Catalog, Verified
  <2>2. served = [d \in Docsets |-> served[d]]
    BY DEF RestTyped
  <2>3. CASE Observe
    <3>1. served' = [d \in Docsets |-> IF Coherent(d)' THEN PointerOf(d)' ELSE served[d]]
      BY <2>3 DEF Observe
    <3>2. \A d \in Docsets : served'[d] = served[d]
      BY <1>3, <2>1, <3>1 DEF Told
    <3> QED
      BY <2>2, <3>1, <3>2
  <2> QED
    BY <2>3
<1>5. \A d : PointerOf(d)' = PointerOf(d) /\ (Coherent(d)' <=> Coherent(d)) /\ (Told(d)' <=> Told(d))
  BY <1>1, <1>4 DEF PointerOf, Coherent, Bound, Catalog, Verified, Told
<1>6. (AllTold <=> AllTold') /\ (AllVerified <=> AllVerified')
  BY <1>1, <1>5 DEF AllTold, AllVerified, Verified
<1>7. ASSUME NEW l, NEW t, TurnFits(l, t) PROVE TurnFits(l, t)'
  <2>1. Amid(l, t)' <=> Amid(l, t)
    BY <1>1, <1>5 DEF Amid
  <2>2. \A c : Content(t, c)' = Content(t, c)
    BY <1>1 DEF Content
  <2> QED
    BY <1>1, <1>4, <1>5, <1>6, <1>7, <2>1, <2>2 DEF TurnFits, NamesAsset, Making
<1>8. \A p \in Procs : pc'[p] # "idle" => TurnFits(pc[p], txn[p])'
  <2>1. ASSUME NEW p \in Procs, pc'[p] # "idle" PROVE TurnFits(pc[p], txn[p])'
    <3>1. PICK l, t : l = pc[p] /\ t = txn[p]
      OBVIOUS
    <3>2. TurnFits(l, t)'
      BY <1>1, <1>3, <1>7, <2>1, <3>1
    <3>3. pc'[p] = l /\ txn'[p] = t
      BY <1>1, <3>1
    <3> QED
      BY <3>2, <3>3
  <2> QED
    BY <2>1
<1> QED
  BY <1>1, <1>2, <1>3, <1>4, <1>5, <1>6, <1>8 DEF ServedInv

LEMMA TransactionsServe ==
  ASSUME LineageInv, LineageInv', TypesInv, TypesInv', RestTyped, HeadsInv, HeadsInv', ServedInv, Observe,
         NEW p \in Procs, Begin(p) \/ Step(p) \/ Crash(p), UNCHANGED cleared
  PROVE  ServedInv'
<1>1. CASE Begin(p)
  BY <1>1, BeginningServes
<1>2. CASE CheckApproval(p) \/ CheckRegistration(p)
  BY <1>2, CheckingServes
<1>3. CASE PublishRoot(p)
  BY <1>3, PublishRootServes
<1>4. CASE \/ LockDocset(p) \/ Refuse(p) \/ StageFails(p) \/ WriteRefused(p) \/ RetireHead(p)
           \/ RetireFails(p) \/ RestoreFails(p) \/ UnlockDocset(p)
  <2>1. GoesOn(p)
    BY <1>4, QuietStepsGoOn
  <2> QED
    BY <2>1, GoingOnServes
<1>5. CASE MoveHead(p) \/ LinkHead(p) \/ LinkFails(p) \/ VerifyFails(p)
  <2>1. CASE Trusted
    <3>1. GoesOn(p)
      BY <1>5, <2>1, WritingStepsGoOn
    <3> QED
      BY <3>1, GoingOnServes
  <2>2. CASE ~Trusted
    BY <2>2 DEF ServedInv, Trusted
  <2> QED
    BY <2>1, <2>2
<1>6. CASE RestoreHead(p) \/ RelinkHead(p) \/ RelinkFails(p)
  <2>1. GoesOn(p)
    BY <1>6, RestoringStepsGoOn
  <2> QED
    BY <2>1, GoingOnServes
<1>7. CASE CleanUp(p)
  BY <1>7, CleanUpServes
<1>8. CASE UnlockFails(p)
  <2>1. Leave(p) \/ GoesOn(p)
    BY <1>8, UnlockFailsGoesOn
  <2>2. CASE Leave(p)
    BY <1>8, <2>2, LeavingServes
  <2>3. CASE GoesOn(p)
    BY <2>3, GoingOnServes
  <2> QED
    BY <2>1, <2>2, <2>3
<1>9. CASE \/ GiveUpLocking(p) \/ UnlockCatalog(p) \/ Abandon(p) \/ ForceClose(p) \/ ForceCloseFails(p)
           \/ Crash(p)
  BY <1>9, LeavingServes
<1> QED
  BY <1>1, <1>2, <1>3, <1>4, <1>5, <1>6, <1>7, <1>8, <1>9 DEF Step

-----------------------------------------------------------------------------
(* Reads.  A reader whose pointer has not been served since its read began *)
(* is refused when it reads the catalog: it holds no pointer while the     *)
(* docset has an asset, or the pointer on disk is the one it holds and the *)
(* heads do not agree on it.                                               *)

AssetOf(pointer) == IF pointer = None THEN None ELSE pointer.asset

\* Whatever a transaction does to it, the docset's head names an asset.
HasAsset(d) ==
  /\ NamesAsset(file[DocsetHead(d)])
  /\ \A p \in Procs : pc[p] # "idle" /\ txn[p].d = d /\ txn[p].orig # None =>
       NamesAsset(txn[p].orig[DocsetHead(d)]) /\ txn[p].asset # None

Unseen(r) == reading[r] # None /\ seen[r] = FALSE

Refused(x) ==
  /\ x.pointer = None /\ HasAsset(x.d)
  /\ x.at = "catalog" => x.docset.asset # None

Pending(x) ==
  /\ PointerOf(x.d) = x.pointer
  /\ x.at = "catalog" => \/ x.docset.asset # AssetOf(x.pointer)
                         \/ file[DocsetHead(x.d)] # None /\ x.docset = file[DocsetHead(x.d)].content

ReaderFits(r) ==
  Unseen(r) => /\ reading[r].at \in {"docset", "catalog"}
               /\ served[reading[r].d] # reading[r].pointer
               /\ Refused(reading[r]) \/ Pending(reading[r])

ReadersInv == Trusted => \A r \in Readers : ReaderFits(r)

\* A step by p keeps what an asset of a docset is known by: the head in turn is
\* overwritten with something that names an asset too.
LEMMA GoingOnHasAsset ==
  ASSUME LineageInv, LineageInv', TypesInv, HeadsInv, NEW p \in Procs, GoesOn(p),
         NEW d \in Docsets, HasAsset(d)
  PROVE  HasAsset(d)'
<1>1. PICK t, u, s : t = txn[p] /\ u = txn'[p] /\ s = DocsetHead(d)
  OBVIOUS
<1>2. pc[p] # "idle" /\ pc'[p] # "idle" /\ Alike(t, u) /\ Rewrites(p)
  BY <1>1 DEF GoesOn
<1>3. TxnFits(pc[p], t) /\ TypesFit(pc[p], t) /\ t.d \in Docsets
  BY <1>1, <1>2, Acting DEF TypesFit, TypesRoll
<1>4. \A q \in Procs : pc'[q] # "idle" => q = p
  BY <1>2 DEF LineageInv, LockInv, OneActive
<1>5. t.d = d /\ t.orig # None => NamesAsset(t.orig[s]) /\ t.asset # None
  BY <1>1, <1>2 DEF HasAsset
<1>6. NamesAsset(file'[s])
  <2>1. NamesAsset(file[s]) /\ s \in Heads
    BY <1>1 DEF HasAsset, Heads
  <2>2. CASE UNCHANGED file
    BY <2>1, <2>2 DEF NamesAsset
  <2>3. CASE ~ UNCHANGED file
    <3>1. PICK h, f : /\ pc[p] \in {"writing", "linking", "restoring", "relinking"} /\ t.todo # <<>> /\ h = Turn(t)
                      /\ file' = [file EXCEPT ![h] = f]
                      /\ f # None => \/ t.orig[h] # None /\ f.content = t.orig[h].content
                                     \/ f.content = Content(t, h)
      BY <1>1, <1>2, <2>3 DEF Rewrites
    <3>2. h \in HeadsOf(t.d) /\ h \in Heads /\ t.orig # None
      BY <1>3, <3>1, InTurn DEF Working
    <3>3. file'[h] = f /\ \A g \in Heads \ {h} : file'[g] = file[g]
      BY <3>1, <3>2, OneHeadIs
    <3>4. CASE h = s
      <4>1. t.d = d
        BY <1>1, <3>2, <3>4 DEF HeadsOf, DocsetHead, CurrentHead, CatalogHead
      <4>2. Content(t, s) = [title |-> t.title, asset |-> t.asset]
        BY <1>1, <1>3, <4>1, ContentIs
      <4> QED
        BY <1>5, <3>1, <3>2, <3>3, <3>4, <4>1, <4>2 DEF NamesAsset
    <3>5. CASE h # s
      BY <2>1, <3>3, <3>5 DEF NamesAsset
    <3> QED
      BY <3>4, <3>5
  <2> QED
    BY <2>2, <2>3
<1> QED
  BY <1>1, <1>2, <1>4, <1>5, <1>6 DEF HasAsset, Alike, NamesAsset

LEMMA LeavingHasAsset ==
  ASSUME LineageInv, NEW p \in Procs, \A q \in Procs \ {p} : pc[q] = "idle", Leave(p),
         NEW d \in Docsets, HasAsset(d), file'[DocsetHead(d)] \in {file[DocsetHead(d)], None}
  PROVE  HasAsset(d)'
<1>1. \A q \in Procs : pc'[q] = "idle"
  BY DEF Leave, Goto, LineageInv, LockInv, Shapes
<1> QED
  BY <1>1 DEF HasAsset, NamesAsset

LEMMA EnteringHasAsset ==
  ASSUME LineageInv, NEW p \in Procs, \A q \in Procs \ {p} : pc[q] = "idle", NEW l, NEW u, Enter(p, l, u),
         NEW d \in Docsets, HasAsset(d), NamesAsset(file'[DocsetHead(d)]),
         u.d = d /\ u.orig # None => NamesAsset(u.orig[DocsetHead(d)]) /\ u.asset # None
  PROVE  HasAsset(d)'
<1>1. pc'[p] = l /\ txn'[p] = u /\ \A q \in Procs \ {p} : pc'[q] = "idle"
  BY DEF Enter, Goto, LineageInv, LockInv, Shapes
<1> QED
  BY <1>1 DEF HasAsset, NamesAsset

LEMMA BeginningHasAsset ==
  ASSUME LineageInv, NEW p \in Procs, Begin(p), NEW d \in Docsets, HasAsset(d)
  PROVE  HasAsset(d)'
<1>1. CatalogLock \notin locks /\ UNCHANGED file
  BY DEF Begin, ApproveBegin, RegisterBegin, LockFree
<1>2. \A q \in Procs : pc[q] = "idle"
  BY <1>1 DEF LineageInv, LockInv, ActiveLocksCatalog
<1>3. PICK op, e, title, asset, run, l :
          l \in {"locking", "checking"} /\ Enter(p, l, Transaction(op, e, title, asset, run))
  BY DEF Begin, ApproveBegin, RegisterBegin
<1>4. PICK u : u = Transaction(op, e, title, asset, run)
  OBVIOUS
<1>5. u.orig = None
  BY <1>4 DEF Transaction
<1>6. NamesAsset(file'[DocsetHead(d)])
  BY <1>1 DEF HasAsset, NamesAsset
<1> QED
  BY <1>2, <1>3, <1>4, <1>5, <1>6, EnteringHasAsset

\* A transaction captures a head that names an asset, unless the docset is new
\* and has served nothing.
LEMMA CheckingHasAsset ==
  ASSUME LineageInv, TypesInv, HeadsInv, ServedInv, Trusted, NEW p \in Procs, CheckApproval(p) \/ CheckRegistration(p),
         NEW d \in Docsets, HasAsset(d), served[d] # None
  PROVE  HasAsset(d)'
<1>1. PICK t : t = txn[p]
  OBVIOUS
<1>2. pc[p] = "checking" /\ UNCHANGED file
  BY DEF CheckApproval, CheckRegistration, heads
<1>3. /\ TypesFit("checking", t) /\ TxnFits("checking", t) /\ DiskTyped /\ t \in Transactions(t.d) /\ t.d \in Docsets /\ t.orig = None
      /\ \A q \in Procs \ {p} : pc[q] = "idle"
  BY <1>1, <1>2, Acting DEF TypesFit, TypesRoll
<1>4. NamesAsset(file'[DocsetHead(d)])
  BY <1>2 DEF HasAsset, NamesAsset
<1>5. \A h \in HeadsOf(t.d) : Capture(t)[h] = file[h]
  BY <1>3, Captured
<1>6. d \in dirs /\ file[DocsetHead(d)] # None
  <2>1. d \in dirs
    BY DEF ServedInv
  <2>2. AtRest
    BY <1>1, <1>2, <1>3, Acting DEF HeadsFit
  <2> QED
    BY <2>1, <2>2 DEF AtRest, Coherent
<1>7. file[DocsetHead(d)].content.asset # None
  BY <1>6 DEF HasAsset, NamesAsset
<1>8. CASE CheckApproval(p)
  <2>1. PICK u : u = [t EXCEPT !.orig = Capture(t), !.title = file[DocsetHead(t.d)].content.title]
    OBVIOUS
  <2>2. Enter(p, "staging", u)
    BY <1>1, <1>8, <2>1 DEF CheckApproval
  <2>3. u.orig = Capture(t) /\ u.d = t.d /\ u.asset = t.asset
    BY <1>3, <2>1 DEF Transactions
  <2>4. t.asset # None
    BY <1>1, <1>3, <1>8, NoneAssumption DEF TxnFits, ApprovalFits, CheckApproval
  <2>5. u.d = d /\ u.orig # None => NamesAsset(u.orig[DocsetHead(d)]) /\ u.asset # None
    BY <1>3, <1>5, <1>7, <2>3, <2>4, HeadNames DEF NamesAsset
  <2> QED
    BY <1>3, <1>4, <2>2, <2>5, EnteringHasAsset
<1>9. CASE CheckRegistration(p)
  <2>1. PICK asset : asset = IF file[DocsetHead(t.d)] = None THEN None ELSE file[DocsetHead(t.d)].content.asset
    OBVIOUS
  <2>2. PICK c : c = [t EXCEPT !.orig = Capture(t), !.asset = asset]
    OBVIOUS
  <2>3. PICK e : e = [c EXCEPT !.todo = <<DocsetHead(t.d), CatalogHead>>]
    OBVIOUS
  <2>4. Enter(p, "writing", e) \/ Enter(p, "staging", c)
    BY <1>1, <1>9, <2>1, <2>2, <2>3 DEF CheckRegistration
  <2>5. /\ c.orig = Capture(t) /\ c.d = t.d /\ c.asset = asset
        /\ e.orig = Capture(t) /\ e.d = t.d /\ e.asset = asset
    BY <1>3, <2>2, <2>3 DEF Transactions
  <2>6. t.d = d => NamesAsset(Capture(t)[DocsetHead(d)]) /\ asset # None
    BY <1>3, <1>5, <1>6, <1>7, <2>1, HeadNames DEF NamesAsset
  <2>7. /\ c.d = d /\ c.orig # None => NamesAsset(c.orig[DocsetHead(d)]) /\ c.asset # None
        /\ e.d = d /\ e.orig # None => NamesAsset(e.orig[DocsetHead(d)]) /\ e.asset # None
    BY <2>5, <2>6
  <2> QED
    BY <1>3, <1>4, <2>4, <2>7, EnteringHasAsset
<1> QED
  BY <1>8, <1>9

LEMMA PublishRootHasAsset ==
  ASSUME LineageInv, TypesInv, HeadsInv, NEW p \in Procs, PublishRoot(p), NEW d \in Docsets, HasAsset(d)
  PROVE  HasAsset(d)'
<1>1. PICK t, v : t = txn[p] /\ v = [t EXCEPT !.rooted = TRUE, !.todo = WriteOrder(t)]
  OBVIOUS
<1>2. pc[p] = "staging" /\ (Enter(p, "writing", v) \/ Fail(p, v, FALSE))
  BY <1>1 DEF PublishRoot
<1>3. /\ TypesFit("staging", t) /\ DiskTyped /\ t.d \in Docsets /\ t \in Transactions(t.d) /\ t.orig # None
      /\ \A q \in Procs \ {p} : pc[q] = "idle"
  BY <1>1, <1>2, Acting DEF TypesFit, TypesRoll
<1>4. v.d = t.d /\ v.orig = t.orig /\ v.asset = t.asset /\ v.op = t.op /\ t.op \in {"approve", "register"}
  BY <1>1, <1>3 DEF Transactions
<1>5. t.d = d => NamesAsset(t.orig[DocsetHead(d)]) /\ t.asset # None
  BY <1>1, <1>2, <1>3 DEF HasAsset
<1>6. NamesAsset(file'[DocsetHead(d)])
  <2>1. NamesAsset(file[DocsetHead(d)])
    BY DEF HasAsset
  <2>2. CASE UNCHANGED file
    BY <2>1, <2>2 DEF NamesAsset
  <2>3. CASE file' = [file EXCEPT ![DocsetHead(t.d)] = NewFile(DocsetHead(t.d), [title |-> v.title, asset |-> v.asset])]
    <3>1. DocsetHead(t.d) \in Heads /\ DocsetHead(d) \in Heads
      BY <1>3 DEF Heads
    <3>2. PICK f : f = NewFile(DocsetHead(t.d), [title |-> v.title, asset |-> v.asset])
      OBVIOUS
    <3>3. f.content.asset = t.asset
      BY <1>4, <3>2 DEF NewFile
    <3>4. file'[DocsetHead(t.d)] = f /\ \A g \in Heads \ {DocsetHead(t.d)} : file'[g] = file[g]
      BY <2>3, <3>1, <3>2, OneHeadIs
    <3>5. CASE t.d = d
      BY <1>5, <3>3, <3>4, <3>5 DEF NamesAsset
    <3>6. CASE t.d # d
      <4>1. DocsetHead(d) # DocsetHead(t.d)
        BY <3>6 DEF DocsetHead
      <4> QED
        BY <2>1, <3>1, <3>4, <4>1 DEF NamesAsset
    <3> QED
      BY <3>5, <3>6
  <2>4. UNCHANGED file
          \/ file' = [file EXCEPT ![DocsetHead(t.d)] = NewFile(DocsetHead(t.d), [title |-> v.title, asset |-> v.asset])]
    <3>1. v.d = t.d
      BY <1>4
    <3> QED
      BY <1>1, <3>1 DEF PublishRoot
  <2> QED
    BY <2>2, <2>3, <2>4
<1>7. CASE Enter(p, "writing", v)
  BY <1>3, <1>4, <1>5, <1>6, <1>7, EnteringHasAsset
<1>8. CASE Fail(p, v, FALSE)
  <2>1. PICK w : w = [v EXCEPT !.raised = TRUE, !.recovery = FALSE, !.todo = RestoreOrder(v)]
    OBVIOUS
  <2>2. Enter(p, "restoring", w)
    BY <1>8, <2>1 DEF Fail
  <2>3. w.d = t.d /\ w.orig = t.orig /\ w.asset = t.asset
    BY <1>1, <1>3, <2>1 DEF Transactions
  <2> QED
    BY <1>3, <1>5, <1>6, <2>2, <2>3, EnteringHasAsset
<1> QED
  BY <1>2, <1>7, <1>8

LEMMA CleanUpHasAsset ==
  ASSUME LineageInv, TypesInv, HeadsInv, NEW p \in Procs, CleanUp(p), NEW d \in Docsets, HasAsset(d)
  PROVE  HasAsset(d)'
<1>1. PICK t, u, l : t = txn[p] /\ u = [t EXCEPT !.rooted = FALSE] /\ l = IF t.closing THEN "forcing" ELSE "unlocking"
  OBVIOUS
<1>2. pc[p] = "restoring" /\ IF t.recovery THEN Leave(p) ELSE Enter(p, l, u)
  BY <1>1 DEF CleanUp
<1>3. /\ TypesFit("restoring", t) /\ t.d \in Docsets /\ t \in Transactions(t.d) /\ t.orig # None
      /\ \A q \in Procs \ {p} : pc[q] = "idle"
  BY <1>1, <1>2, Acting, ActingOn DEF Working
<1>4. u.d = t.d /\ u.orig = t.orig /\ u.asset = t.asset
  BY <1>1, <1>3 DEF Transactions
<1>5. u.d = d /\ u.orig # None => NamesAsset(u.orig[DocsetHead(d)]) /\ u.asset # None
  BY <1>1, <1>2, <1>3, <1>4 DEF HasAsset
<1>6. file'[DocsetHead(d)] \in {file[DocsetHead(d)], None}
  <2>1. UNCHANGED file \/ file' = [file EXCEPT ![DocsetHead(t.d)] = None]
    BY <1>1 DEF CleanUp
  <2>2. DocsetHead(d) \in Heads /\ DocsetHead(t.d) \in Heads
    BY <1>3 DEF Heads
  <2> QED
    BY <2>1, <2>2 DEF LineageInv, Stored
<1>7. NamesAsset(file'[DocsetHead(d)])
  BY <1>6 DEF HasAsset, NamesAsset
<1> QED
  BY <1>2, <1>3, <1>5, <1>6, <1>7, LeavingHasAsset, EnteringHasAsset

LEMMA TransactionsHaveAssets ==
  ASSUME LineageInv, LineageInv', TypesInv, HeadsInv, ServedInv, Trusted, NEW p \in Procs, Begin(p) \/ Step(p) \/ Crash(p),
         NEW d \in Docsets, HasAsset(d), served[d] # None
  PROVE  HasAsset(d)'
<1>1. ASSUME GoesOn(p) PROVE HasAsset(d)'
  BY <1>1, GoingOnHasAsset
<1>2. CASE Begin(p)
  BY <1>2, BeginningHasAsset
<1>3. CASE CheckApproval(p) \/ CheckRegistration(p)
  BY <1>3, CheckingHasAsset
<1>4. CASE PublishRoot(p) \/ CleanUp(p)
  BY <1>4, PublishRootHasAsset, CleanUpHasAsset
<1>5. CASE \/ LockDocset(p) \/ Refuse(p) \/ StageFails(p) \/ WriteRefused(p) \/ RetireHead(p)
           \/ RetireFails(p) \/ RestoreFails(p) \/ UnlockDocset(p)
  BY <1>1, <1>5, QuietStepsGoOn
<1>6. CASE MoveHead(p) \/ LinkHead(p) \/ LinkFails(p) \/ VerifyFails(p)
  BY <1>1, <1>6, WritingStepsGoOn
<1>7. CASE RestoreHead(p) \/ RelinkHead(p) \/ RelinkFails(p)
  BY <1>1, <1>7, RestoringStepsGoOn
<1>8. CASE \/ GiveUpLocking(p) \/ UnlockCatalog(p) \/ Abandon(p) \/ ForceClose(p) \/ ForceCloseFails(p)
           \/ Crash(p) \/ UnlockFails(p)
  <2>1. pc[p] # "idle" /\ UNCHANGED file
    BY <1>8 DEF GiveUpLocking, UnlockCatalog, Abandon, ForceClose, ForceCloseFails, Crash, UnlockFails, heads
  <2>2. Leave(p) \/ GoesOn(p)
    BY <1>8, UnlockFailsGoesOn DEF GiveUpLocking, UnlockCatalog, Abandon, ForceClose, ForceCloseFails, Crash
  <2>3. \A q \in Procs \ {p} : pc[q] = "idle"
    BY <2>1, Acting
  <2> QED
    BY <1>1, <2>1, <2>2, <2>3, LeavingHasAsset
<1> QED
  BY <1>2, <1>3, <1>4, <1>5, <1>6, <1>7, <1>8 DEF Step

\* A reader without a pointer, of a docset whose pointer is moved aside.
LEMMA MovedAside ==
  ASSUME LineageInv, TypesInv, HeadsInv, ServedInv, Trusted, NEW p \in Procs, pc[p] # "idle",
         txn[p].op = "approve", txn[p].orig # None, txn[p].orig[CurrentHead(txn[p].d)] # None,
         file[CurrentHead(txn[p].d)] = None,
         NEW x, x.d = txn[p].d, Pending(x)
  PROVE  Refused(x)
<1>1. PICK t, s, c : t = txn[p] /\ s = DocsetHead(t.d) /\ c = CurrentHead(t.d)
  OBVIOUS
<1>2. /\ TxnFits(pc[p], t) /\ TypesFit(pc[p], t) /\ TypesRoll(t) /\ t.d \in Docsets
      /\ HeadsFit(pc[p], t) /\ \A q \in Procs \ {p} : pc[q] = "idle"
  BY <1>1, Acting DEF TypesFit, TypesRoll
<1>3. TurnFits(pc[p], t)
  BY <1>1 DEF ServedInv
<1>4. NamesAsset(file[s])
  BY <1>1, <1>3 DEF TurnFits
<1>5. NamesAsset(t.orig[s]) /\ t.asset # None
  <2>1. Baseline(t) /\ t.d \in Home(t) /\ t.asset \in Assets
    BY <1>1, <1>2 DEF HeadsFit, TypesRoll, Home, Making, TxnFits, ApprovalFits
  <2> QED
    BY <1>1, <1>2, <2>1, AssetNamed
<1>6. HasAsset(x.d)
  BY <1>1, <1>2, <1>4, <1>5 DEF HasAsset
<1>7. x.pointer = None
  BY <1>1 DEF Pending, PointerOf
<1>8. x.at = "catalog" => x.docset.asset # None
  BY <1>1, <1>4, <1>7 DEF Pending, AssetOf, NamesAsset
<1> QED
  BY <1>6, <1>7, <1>8 DEF Refused

\* While heads are rewritten, a reader that waits keeps waiting.
LEMMA GoingOnWaits ==
  ASSUME LineageInv, TypesInv, HeadsInv, ServedInv, Trusted, NEW p \in Procs, GoesOn(p),
         NEW x, x.d \in Docsets, ~ Told(x.d), Pending(x)
  PROVE  Refused(x) \/ Pending(x)'
<1>1. PICK t, l : t = txn[p] /\ l = pc[p]
  OBVIOUS
<1>2. l # "idle" /\ Rewrites(p)
  BY <1>1 DEF GoesOn
<1>3. CASE UNCHANGED file
  BY <1>3 DEF Pending, PointerOf
<1>4. CASE ~ UNCHANGED file
  <2>1. PICK h, f : /\ t.todo # <<>> /\ h = Turn(t) /\ file' = [file EXCEPT ![h] = f]
                    /\ \/ l = "writing"
                       \/ l = "linking"
                       \/ l = "restoring" /\ file[h] # None /\ file[h].inode = t.pub[h]
                       \/ l = "relinking" /\ t.orig[h] # None
    BY <1>1, <1>2, <1>4 DEF Rewrites
  <2>2. /\ TxnFits(l, t) /\ TypesFit(l, t) /\ TypesRoll(t) /\ t.d \in Docsets /\ HeadsFit(l, t)
    BY <1>1, <1>2, Acting, ActingOn
  <2>3. TurnFits(l, t)
    BY <1>1, <1>2 DEF ServedInv
  <2>4. PICK s, c : s = DocsetHead(t.d) /\ c = CurrentHead(t.d)
    OBVIOUS
  <2>5. l \in Working /\ l # "staging"
    BY <2>1 DEF Working
  <2>6. /\ t.orig # None /\ h \in OwnHeads(t) /\ h \in HeadsOf(t.d) /\ h \in Heads
    BY <2>1, <2>2, <2>5, InTurn
  <2>7. x.d = t.d /\ Amid(l, t) /\ t.op = "approve"
    BY <2>3, <2>6 DEF TurnFits, Amid
  <2>8. Baseline(t) /\ PubFits(t) /\ PhaseFits(l, t)
    BY <2>2, <2>6 DEF HeadsFit
  <2>9. file'[h] = f /\ \A g \in Heads \ {h} : file'[g] = file[g]
    BY <2>1, <2>6, OneHeadIs, ZenonT(60)
  <2>10. s \in Heads /\ c \in Heads /\ s # c /\ c \in HeadsOf(t.d)
    BY <2>2, <2>4, HeadNames
  <2>11. l = "linking" => h = c /\ file[c] = None /\ served[t.d] = Said(t.orig[c])
    BY <2>1, <2>3, <2>4, <2>6, <2>7, <2>8 DEF Amid, TurnFits, PhaseFits
  <2>12. l = "writing" => FALSE
    BY <2>7 DEF Amid
  <2>13. PointerOf(t.d) = Said(file[c])
    BY <2>4 DEF PointerOf, Said
  <2>14. /\ Content(t, c) = [asset |-> t.asset, digest |-> assets[t.asset]]
         /\ Content(t, s) = [title |-> t.title, asset |-> t.asset]
    <3>1. t.d \in Docsets
      BY <2>2
    <3> QED
      BY <2>4, <3>1, ContentIs
  <2>15. CASE h = c
    <3>1. CASE l = "restoring"
      <4>1. file[c].content = Content(t, c) /\ file[c] # None
        <5>1. t.pub[c] # None
          BY <2>1, <2>2, <2>5, <2>15, <3>1, InTurn DEF TypesFit
        <5> QED
          BY <2>1, <2>6, <2>8, <2>12, <2>15, <3>1, <5>1 DEF PubFits, Genuine
      <4>2. file[c].content.asset = t.asset
        BY <2>14, <4>1
      <4>3. PointerOf(t.d) = Said(t.orig[c])
        BY <2>4, <2>7, <3>1, <4>1 DEF Amid
      <4>4. t.orig[c] # None /\ t.orig[c].content = file[c].content
        <5>1. file[c].content \in Pointer
          BY <2>2, <2>4, <2>10, <4>1, Kinds DEF TypesInv, DiskTyped, Typed
        <5> QED
          BY <2>13, <4>1, <4>3, <5>1, AbsenceAssumption DEF Said
      <4>5. t.orig[c].content.asset # t.asset
        <5>1. PICK F : F = Before(t)
          OBVIOUS
        <5>2. F[c] = t.orig[c]
          BY <2>10, <5>1 DEF Before
        <5> QED
          BY <2>2, <2>4, <2>7, <2>8, <4>4, <5>1, <5>2 DEF Baseline
      <4> QED
        BY <4>2, <4>4, <4>5
    <3>2. CASE l # "restoring"
      <4>1. file[c] = None
        BY <2>1, <2>11, <2>12, <2>8, <2>15, <3>2 DEF PhaseFits
      <4>2. t.orig[c] # None
        <5>1. CASE l = "relinking"
          BY <2>1, <2>15, <5>1
        <5>2. CASE l = "linking"
          BY <2>7, <2>11, <2>13, <4>1, <5>2 DEF Told, Said
        <5> QED
          BY <2>1, <2>12, <3>2, <5>1, <5>2
      <4> QED
        BY <1>1, <1>2, <2>4, <2>6, <2>7, <4>1, <4>2, MovedAside
    <3> QED
      BY <3>1, <3>2
  <2>16. CASE h # c
    <3>1. PointerOf(x.d)' = PointerOf(x.d)
      <4>1. file'[c] = file[c]
        BY <2>9, <2>10, <2>16
      <4> QED
        BY <2>4, <2>7, <4>1, PointerStays
    <3>2. CASE h # s
      <4>1. file'[s] = file[s]
        BY <2>9, <2>10, <3>2
      <4> QED
        BY <2>4, <2>7, <3>1, <4>1 DEF Pending
    <3>3. CASE h = s /\ l = "relinking"
      <4>1. file[s] = None
        BY <2>1, <2>8, <3>3 DEF PhaseFits
      <4> QED
        BY <2>4, <2>7, <3>1, <4>1 DEF Pending
    <3>4. CASE h = s /\ l = "restoring"
      <4>1. file[s] # None /\ file[s].content = Content(t, s)
        <5>1. t.pub[s] # None
          BY <2>1, <2>2, <2>5, <3>4, InTurn DEF TypesFit
        <5> QED
          BY <2>1, <2>6, <2>8, <3>4, <5>1 DEF PubFits, Genuine
      <4>2. file[s].content.asset = t.asset
        BY <2>14, <4>1
      <4>3. t.asset \in Assets /\ None \notin Assets
        BY <2>2, <2>7, NoneAssumption DEF TxnFits, ApprovalFits
      <4>4. AssetOf(x.pointer) # t.asset
        <5>1. x.pointer = Said(file[c])
          BY <2>7, <2>13 DEF Pending
        <5>2. CASE file[c] = None
          BY <4>3, <5>1, <5>2 DEF Said, AssetOf
        <5>3. CASE file[c] # None
          <6>1. x.pointer = Said(t.orig[c])
            BY <2>4, <2>7, <2>13, <3>4, <5>1, <5>3 DEF Amid
          <6>2. PICK F : F = Before(t)
            OBVIOUS
          <6>3. F[c] = t.orig[c]
            BY <2>10, <6>2 DEF Before
          <6>4. t.orig[c] # None => t.orig[c].content.asset # t.asset
            BY <2>2, <2>4, <2>7, <2>8, <6>2, <6>3 DEF Baseline
          <6> QED
            BY <4>3, <6>1, <6>4 DEF Said, AssetOf
        <5> QED
          BY <5>2, <5>3
      <4>5. x.at = "catalog" => x.docset.asset # AssetOf(x.pointer)
        BY <2>4, <2>7, <4>2, <4>4 DEF Pending
      <4> QED
        BY <3>1, <4>5 DEF Pending, AssetOf
    <3>5. l \in {"restoring", "relinking"}
      BY <2>1, <2>11, <2>12, <2>16
    <3> QED
      BY <3>2, <3>3, <3>4, <3>5
  <2> QED
    BY <2>15, <2>16
<1> QED
  BY <1>3, <1>4

LEMMA TransactionsWait ==
  ASSUME LineageInv, LineageInv', TypesInv, HeadsInv, ServedInv, Trusted, NEW p \in Procs, Begin(p) \/ Step(p) \/ Crash(p),
         NEW x, x.d \in Docsets, served[x.d] # x.pointer, Refused(x) \/ Pending(x)
  PROVE  Refused(x)' \/ Pending(x)'
<1>1. ASSUME Refused(x) PROVE Refused(x)'
  <2>1. HasAsset(x.d) /\ served[x.d] # None
    BY <1>1 DEF Refused
  <2>2. HasAsset(x.d)'
    BY <2>1, TransactionsHaveAssets
  <2> QED
    BY <1>1, <2>2 DEF Refused
<1>2. ASSUME Pending(x) PROVE Refused(x) \/ Pending(x)'
  <2>1. ~ Told(x.d)
    BY <1>2 DEF Pending, Told
  <2>2. CASE UNCHANGED file
    BY <1>2, <2>2 DEF Pending, PointerOf
  <2>3. CASE GoesOn(p)
    BY <1>2, <2>1, <2>3, GoingOnWaits
  <2>4. CASE PublishRoot(p) \/ CleanUp(p)
    <3>1. PICK t : t = txn[p]
      OBVIOUS
    <3>2. pc[p] \in {"staging", "restoring"}
      BY <2>4 DEF PublishRoot, CleanUp
    <3>3. TurnFits(pc[p], t) /\ TypesFit(pc[p], t)
      BY <3>1, <3>2, Acting DEF ServedInv
    <3>4. t.op = "approve"
      BY <2>1, <3>2, <3>3 DEF TurnFits, AllTold, Amid
    <3>5. UNCHANGED file
      BY <2>4, <3>1, <3>2, <3>3, <3>4 DEF PublishRoot, CleanUp, TypesFit, TypesRoll, Transactions
    <3> QED
      BY <1>2, <3>5 DEF Pending, PointerOf
  <2>5. UNCHANGED file \/ GoesOn(p) \/ PublishRoot(p) \/ CleanUp(p)
    <3>1. CASE \/ LockDocset(p) \/ Refuse(p) \/ StageFails(p) \/ WriteRefused(p) \/ RetireHead(p)
               \/ RetireFails(p) \/ RestoreFails(p) \/ UnlockDocset(p)
      BY <3>1, QuietStepsGoOn
    <3>2. CASE MoveHead(p) \/ LinkHead(p) \/ LinkFails(p) \/ VerifyFails(p)
      BY <3>2, WritingStepsGoOn
    <3>3. CASE RestoreHead(p) \/ RelinkHead(p) \/ RelinkFails(p)
      BY <3>3, RestoringStepsGoOn
    <3>4. CASE \/ Begin(p) \/ CheckApproval(p) \/ CheckRegistration(p) \/ GiveUpLocking(p) \/ UnlockCatalog(p)
               \/ Abandon(p) \/ ForceClose(p) \/ ForceCloseFails(p) \/ Crash(p) \/ UnlockFails(p)
      BY <3>4 DEF Begin, ApproveBegin, RegisterBegin, CheckApproval, CheckRegistration, GiveUpLocking, UnlockCatalog,
           Abandon, ForceClose, ForceCloseFails, Crash, UnlockFails, heads
    <3> QED
      BY <3>1, <3>2, <3>3, <3>4 DEF Step
  <2> QED
    BY <2>2, <2>3, <2>4, <2>5
<1> QED
  BY <1>1, <1>2

\* What is unseen after a step was unseen before it, unless it was read.
LEMMA UnseenStays ==
  ASSUME RestTyped, Observe, NEW r \in Readers, Unseen(r)'
  PROVE  /\ seen[r] = FALSE /\ served'[reading'[r].d] # reading'[r].pointer
         /\ UNCHANGED reading => Unseen(r)
<1>1. reading'[r] # None /\ seen'[r] = FALSE
  BY DEF Unseen
<1>2. seen'[r] = (reading'[r] # None /\ (seen[r] \/ served'[reading'[r].d] = reading'[r].pointer))
  BY DEF Observe
<1>3. seen[r] \in BOOLEAN
  BY DEF RestTyped
<1> QED
  BY <1>1, <1>2, <1>3 DEF Unseen

LEMMA TransactionsKeepReaders ==
  ASSUME LineageInv, LineageInv', TypesInv, RestTyped, HeadsInv, ServedInv, ReadersInv, Observe,
         NEW p \in Procs, Begin(p) \/ Step(p) \/ Crash(p)
  PROVE  ReadersInv'
<1>1. UNCHANGED reading /\ UNCHANGED cleared
  BY StepsRest
<1> SUFFICES ASSUME Trusted, NEW r \in Readers, Unseen(r)'
             PROVE  /\ reading'[r].at \in {"docset", "catalog"}
                    /\ served'[reading'[r].d] # reading'[r].pointer
                    /\ Refused(reading[r])' \/ Pending(reading[r])'
  BY <1>1 DEF ReadersInv, Trusted, ReaderFits
<1>2. Unseen(r) /\ served'[reading'[r].d] # reading'[r].pointer
  BY <1>1, UnseenStays
<1>3. PICK x : x = reading[r]
  OBVIOUS
<1>4. /\ x.at \in {"docset", "catalog"} /\ served[x.d] # x.pointer /\ (Refused(x) \/ Pending(x))
  BY <1>2, <1>3 DEF ReadersInv, ReaderFits
<1>5. x.d \in Docsets
  BY <1>2, <1>3 DEF RestTyped, Unseen, Readings
<1>6. Refused(x)' \/ Pending(x)'
  BY <1>4, <1>5, TransactionsWait
<1>7. reading'[r] = x
  BY <1>1, <1>3
<1>8. Refused(reading[r])' \/ Pending(reading[r])'
  BY <1>6, <1>7
<1> QED
  BY <1>2, <1>4, <1>7, <1>8

\* A reader that reads on.
LEMMA ReadingOn ==
  ASSUME TypesInv, RestTyped, ServedInv, Trusted, NEW r \in Readers, Read(r), UNCHANGED served,
         ReaderFits(r), seen[r] = FALSE, reading'[r] # None, served[reading'[r].d] # reading'[r].pointer
  PROVE  /\ reading'[r].at \in {"docset", "catalog"}
         /\ Refused(reading'[r]) \/ Pending(reading'[r])
<1>1. PICK x, y : x = reading[r] /\ y = reading'[r]
  OBVIOUS
<1>2. x # None => /\ x.at \in {"docset", "catalog"} /\ served[x.d] # x.pointer /\ (Refused(x) \/ Pending(x))
                  /\ x \in Readings
  BY <1>1 DEF ReaderFits, Unseen, RestTyped
<1>3. CASE ReadPointer(r)
  <2>1. PICK d \in dirs : y = [d |-> d, at |-> "docset", pointer |-> PointerOf(d), docset |-> None]
    BY <1>1, <1>3 DEF ReadPointer, RestTyped
  <2>2. y.at = "docset" /\ y.d = d /\ y.pointer = PointerOf(d)
    BY <2>1
  <2> QED
    BY <1>1, <2>2 DEF Pending
<1>4. CASE ReadDocset(r)
  <2>1. PICK f : f = file[DocsetHead(x.d)]
    OBVIOUS
  <2>2. f # None /\ y = [x EXCEPT !.at = "catalog", !.docset = f.content] /\ x # None
    BY <1>1, <1>4, <2>1 DEF ReadDocset, RestTyped
  <2>3. y.at = "catalog" /\ y.docset = f.content /\ y.pointer = x.pointer /\ y.d = x.d
    BY <1>2, <2>2 DEF Readings
  <2>4. ASSUME Refused(x) PROVE Refused(y)
    BY <2>1, <2>2, <2>3, <2>4 DEF Refused, HasAsset, NamesAsset
  <2>5. ASSUME Pending(x) PROVE Pending(y)
    BY <2>1, <2>2, <2>3, <2>5 DEF Pending
  <2> QED
    BY <1>1, <1>2, <2>2, <2>3, <2>4, <2>5
<1>5. CASE ReadCatalog(r)
  <2>1. x # None /\ x.at = "catalog" /\ Bound(x.pointer, x.docset, Catalog[x.d])
    BY <1>1, <1>5 DEF ReadCatalog, RestTyped
  <2>2. ~ Refused(x)
    BY <2>1 DEF Refused, Bound
  <2>3. x.docset.asset = AssetOf(x.pointer)
    BY <2>1 DEF Bound, AssetOf
  <2>4. PointerOf(x.d) = x.pointer /\ file[DocsetHead(x.d)] # None /\ x.docset = file[DocsetHead(x.d)].content
    BY <1>2, <2>1, <2>2, <2>3 DEF Pending
  <2>5. x.d \in Docsets
    BY <1>2, <2>1 DEF Readings
  <2>6. Coherent(x.d)
    BY <2>1, <2>4, <2>5 DEF Coherent, ServedInv, AllVerified
  <2>7. Told(x.d)
    BY <2>5, <2>6 DEF ServedInv
  <2> QED
    BY <1>2, <2>1, <2>4, <2>7 DEF Told
<1>6. CASE ReadAsset(r) \/ ReadReturns(r)
  BY <1>1, <1>2, <1>6 DEF ReadAsset, ReadReturns
<1> QED
  BY <1>3, <1>4, <1>5, <1>6 DEF Read

LEMMA NothingServed ==
  ASSUME RestTyped, ServedInv, Trusted, UNCHANGED <<file, assets>>, Observe
  PROVE  UNCHANGED served
<1>1. \A d \in Docsets : PointerOf(d)' = PointerOf(d) /\ (Coherent(d)' <=> Coherent(d))
  BY DEF PointerOf, Coherent, Bound, Catalog, Verified
<1>2. served = [d \in Docsets |-> served[d]]
  BY DEF RestTyped
<1>3. served' = [d \in Docsets |-> IF Coherent(d)' THEN PointerOf(d)' ELSE served[d]]
  BY DEF Observe
<1>4. \A d \in Docsets : Coherent(d) => Told(d)
  BY DEF ServedInv
<1>5. \A d \in Docsets : served'[d] = served[d]
  BY <1>1, <1>3, <1>4 DEF Told
<1> QED
  BY <1>2, <1>3, <1>5

\* A step that changes no head, no root and no transaction leaves a reader
\* that reads nothing in it where it was.
LEMMA WaitingStays ==
  ASSUME UNCHANGED <<file, pc, txn>>, NEW x
  PROVE  (Refused(x)' <=> Refused(x)) /\ (Pending(x)' <=> Pending(x))
BY DEF Refused, Pending, HasAsset, NamesAsset, PointerOf

LEMMA ReadsKeepReaders ==
  ASSUME TypesInv, RestTyped, ServedInv, ReadersInv, NEW r \in Readers, Read(r), Observe
  PROVE  ReadersInv'
<1>1. UNCHANGED <<file, pc, txn>> /\ UNCHANGED assets /\ UNCHANGED cleared
      /\ \A q \in Readers \ {r} : reading'[q] = reading[q]
  BY DEF Read, ReadPointer, ReadDocset, ReadCatalog, ReadAsset, ReadReturns, heads, RestTyped
<1> SUFFICES ASSUME Trusted, NEW q \in Readers, Unseen(q)'
             PROVE  /\ reading'[q].at \in {"docset", "catalog"}
                    /\ served'[reading'[q].d] # reading'[q].pointer
                    /\ Refused(reading[q])' \/ Pending(reading[q])'
  BY <1>1 DEF ReadersInv, Trusted, ReaderFits
<1>2. UNCHANGED served
  BY <1>1, NothingServed
<1>3. /\ seen[q] = FALSE /\ served'[reading'[q].d] # reading'[q].pointer /\ reading'[q] # None
  BY UnseenStays DEF Unseen
<1>4. ReaderFits(q)
  BY DEF ReadersInv
<1>5. PICK y : y = reading'[q]
  OBVIOUS
<1>6. y.at \in {"docset", "catalog"} /\ (Refused(y) \/ Pending(y))
  <2>1. CASE q = r
    BY <1>2, <1>3, <1>4, <1>5, <2>1, ReadingOn
  <2>2. CASE q # r
    <3>1. reading[q] = y /\ Unseen(q)
      BY <1>1, <1>3, <1>5, <2>2 DEF Unseen
    <3> QED
      BY <1>4, <3>1 DEF ReaderFits
  <2> QED
    BY <2>1, <2>2
<1>7. Refused(y)' \/ Pending(y)'
  BY <1>1, <1>6, WaitingStays
<1>8. Refused(reading[q])' \/ Pending(reading[q])'
  BY <1>5, <1>7
<1> QED
  BY <1>3, <1>5, <1>6, <1>8

LEMMA RestingKeepsReaders ==
  ASSUME ReadersInv, UNCHANGED vars
  PROVE  ReadersInv'
<1>1. UNCHANGED <<file, pc, txn>> /\ UNCHANGED <<cleared, reading, seen, served>>
  BY DEF vars, heads
<1> SUFFICES ASSUME Trusted, NEW r \in Readers, Unseen(r)'
             PROVE  /\ reading'[r].at \in {"docset", "catalog"}
                    /\ served'[reading'[r].d] # reading'[r].pointer
                    /\ Refused(reading[r])' \/ Pending(reading[r])'
  BY <1>1 DEF ReadersInv, Trusted, ReaderFits
<1>2. PICK x : x = reading[r]
  OBVIOUS
<1>3. x.at \in {"docset", "catalog"} /\ served[x.d] # x.pointer /\ (Refused(x) \/ Pending(x))
  BY <1>1, <1>2 DEF ReadersInv, ReaderFits, Unseen
<1>4. Refused(x)' \/ Pending(x)'
  BY <1>1, <1>3, WaitingStays
<1>5. reading'[r] = x
  BY <1>1, <1>2
<1>6. Refused(reading[r])' \/ Pending(reading[r])'
  BY <1>4, <1>5
<1> QED
  BY <1>1, <1>3, <1>5, <1>6

ReadsInv == AgreeInv /\ ServedInv /\ ReadersInv

LEMMA ReadsInvInit == Init => ReadsInv
<1> SUFFICES ASSUME Init PROVE ReadsInv
  OBVIOUS
<1>1. AgreeInv
  BY AgreeInvInit
<1>2. \A d \in Docsets : PointerOf(d) = None /\ served[d] = None /\ ~ Coherent(d)
  BY DEF Init, PointerOf, Heads, Coherent
<1>3. \A p \in Procs : pc[p] = "idle"
  BY DEF Init
<1>4. ServedInv
  BY <1>2, <1>3 DEF ServedInv, AllTold, AllVerified, Told, Verified
<1>5. ReadersInv
  BY DEF Init, ReadersInv, ReaderFits, Unseen
<1> QED
  BY <1>1, <1>4, <1>5 DEF ReadsInv

LEMMA ReadsInvNext == ReadsInv /\ [Next]_vars => ReadsInv'
<1> SUFFICES ASSUME ReadsInv, [Next]_vars PROVE ReadsInv'
  OBVIOUS
<1>1. AgreeInv'
  BY AgreeInvNext DEF ReadsInv
<1>2. /\ LineageInv /\ LineageInv' /\ TypesInv /\ TypesInv' /\ RestTyped /\ HeadsInv /\ HeadsInv'
      /\ ServedInv /\ ReadersInv
  BY <1>1 DEF ReadsInv, AgreeInv
<1>3. cleared \in Nat
  BY <1>2, MaxClearsAssumption DEF RestTyped
<1>4. ASSUME NEW p \in Procs, Begin(p) \/ Step(p) \/ Crash(p), Observe PROVE ServedInv' /\ ReadersInv'
  <2>1. UNCHANGED cleared
    BY <1>2, <1>4, StepsRest
  <2>2. ServedInv'
    BY <1>2, <1>4, <2>1, TransactionsServe
  <2>3. ReadersInv'
    BY <1>2, <1>4, TransactionsKeepReaders
  <2> QED
    BY <2>2, <2>3
<1>5. ASSUME ClearLocks, Observe PROVE ServedInv' /\ ReadersInv'
  <2>1. UNCHANGED <<file, dirs, assets, pc, txn>> /\ cleared' = cleared + 1
    BY <1>5 DEF ClearLocks
  <2>2. ServedInv'
    BY <1>2, <1>3, <1>5, <2>1, OthersServe
  <2>3. ~ Trusted'
    BY <1>3, <2>1 DEF Trusted
  <2> QED
    BY <2>2, <2>3 DEF ReadersInv
<1>6. ASSUME NEW r \in Readers, Read(r), Observe PROVE ServedInv' /\ ReadersInv'
  <2>1. UNCHANGED <<file, dirs, assets, pc, txn>> /\ UNCHANGED <<locks, cleared>>
    BY <1>6 DEF Read, ReadPointer, ReadDocset, ReadCatalog, ReadAsset, ReadReturns, heads
  <2>2. ServedInv'
    BY <1>2, <1>6, <2>1, OthersServe
  <2>3. ReadersInv'
    BY <1>2, <1>6, ReadsKeepReaders
  <2> QED
    BY <2>2, <2>3
<1>7. ASSUME UNCHANGED vars PROVE ServedInv' /\ ReadersInv'
  <2>1. UNCHANGED <<file, dirs, assets, pc, txn>> /\ UNCHANGED <<locks, cleared>> /\ UNCHANGED served
    BY <1>7 DEF vars, heads
  <2>2. ServedInv'
    BY <1>2, <2>1, OthersServe
  <2>3. ReadersInv'
    BY <1>2, <1>7, RestingKeepsReaders
  <2> QED
    BY <2>2, <2>3
<1>8. ServedInv' /\ ReadersInv'
  BY <1>4, <1>5, <1>6, <1>7 DEF Next
<1> QED
  BY <1>1, <1>8 DEF ReadsInv

\* What a reader that takes no lock returns, an asset or none, is what all the
\* heads of its docset said together at one instant of the read, or when they
\* last agreed before it, whichever transaction replaces them or rolls them
\* back while it reads them one after the other (query.py:
\* load_current_asset_optional).
THEOREM ReadersSeeOneInstant ==
  ASSUME IdentityFaults = FALSE
  PROVE  Spec => []ReadsAreAtomic
<1>1. ReadsInv => ReadsAreAtomic
  <2> SUFFICES ASSUME ReadsInv, cleared = 0, NEW r \in Readers, reading[r] # None, reading[r].at = "done"
               PROVE  seen[r]
    BY DEF ReadsAreAtomic
  <2>1. ReaderFits(r) /\ seen[r] \in BOOLEAN
    BY DEF ReadsInv, ReadersInv, Trusted, AgreeInv, RestTyped
  <2> QED
    BY <2>1 DEF ReaderFits, Unseen
<1> QED
  BY <1>1, ReadsInvInit, ReadsInvNext, PTL DEF Spec
=============================================================================
