--------------------------- MODULE FoundryApproval ---------------------------
(***************************************************************************)
(* The governed heads of a foundry: docset.json and current.json of every  *)
(* docset and the catalog.json all docsets share.  approve_candidate       *)
(* (foundry/approve.py) and register_docset (foundry/register.py) replace  *)
(* them one at a time, in several file-system steps each, under two lock   *)
(* directories, and roll back on failure; processes may die between any    *)
(* two steps and leave their locks, which an operator removes by hand.     *)
(* load_current_asset_optional (foundry/query.py) reads without any lock.  *)
(*                                                                         *)
(* Every file-system call may fail.  Files of other programs and the       *)
(* candidate's contents are outside the model; what they can do to an      *)
(* approval is to refuse it (Refuse) or to fail it while it stages.        *)
(***************************************************************************)
EXTENDS Naturals, Sequences, FiniteSets

CONSTANTS
  Docsets,        \* docset ids
  Assets,         \* asset ids make_asset_id may draw
  Runs,           \* candidates: what tells two assets of one id apart
  Titles,         \* docset metadata a registration may carry
  Procs,          \* operating-system processes that change the foundry
  Readers,        \* concurrent readers of the current asset
  IdentityFaults, \* whether the stat that verifies a moved head may fail
  MaxClears,      \* bound: how often an operator removes stale locks
  None

ASSUME MaxClearsAssumption == MaxClears \in Nat
ASSUME NoneAssumption == None \notin Docsets \cup Assets \cup Runs \cup Titles

VARIABLES
  file,    \* Heads -> [content, inode], None while the name is absent
  dirs,    \* docset directories that exist
  assets,  \* Assets -> the manifest of the published root, or None
  locks,   \* the lock directories that exist
  pc,      \* Procs -> where the process is
  txn,     \* Procs -> the transaction it runs, None when idle
  reading, \* Readers -> the read in progress, or None
  served,  \* history: Docsets -> what the heads said when they last agreed
  seen,    \* history: Readers -> was its pointer served since the read began
  acked,   \* history: Docsets -> assets whose approval returned
  cleared  \* history: how often an operator has removed stale locks

heads == <<file, dirs, assets, locks>>
vars  == <<heads, pc, txn, reading, served, seen, acked, cleared>>

-----------------------------------------------------------------------------
(* The heads and what they say.                                            *)

DocsetHead(d)  == <<"docset", d>>
CurrentHead(d) == <<"current", d>>
CatalogHead    == <<"catalog", None>>
Heads == {DocsetHead(d) : d \in Docsets} \cup {CurrentHead(d) : d \in Docsets}
           \cup {CatalogHead}

\* The lock directories: .catalog-governance.lock beside the catalog and
\* .governance.lock inside the docset.
CatalogLock   == <<"catalog", None>>
DocsetLock(d) == <<"docset", d>>
Locks == {DocsetLock(d) : d \in Docsets} \cup {CatalogLock}

Entry    == [title: Titles, asset: Assets \cup {None}]
Manifest == [docset: Docsets, run: Runs, supersedes: Assets \cup {None}]
Pointer  == [asset: Assets, digest: Manifest]

Catalogs == [Docsets -> Entry \cup {None}]
File     == [content: Catalogs \cup Entry \cup Pointer, inode: Nat]

Catalog == IF file[CatalogHead] = None THEN [d \in Docsets |-> None]
           ELSE file[CatalogHead].content

\* The bindings a reader verifies between a pointer, a docset, its catalog
\* entry and the asset root the pointer names.
Bound(pointer, docset, entry) ==
  /\ entry = docset
  /\ docset.asset = IF pointer = None THEN None ELSE pointer.asset
Verified(pointer) == pointer # None => assets[pointer.asset] = pointer.digest

PointerOf(d) == IF file[CurrentHead(d)] = None THEN None
                ELSE file[CurrentHead(d)].content
Coherent(d) ==
  /\ file[DocsetHead(d)] # None
  /\ Bound(PointerOf(d), file[DocsetHead(d)].content, Catalog[d])
  /\ Verified(PointerOf(d))

-----------------------------------------------------------------------------
(* Transactions.  orig is what was captured under the locks (None before), *)
(* pub the identities of the heads this transaction has replaced, todo the *)
(* heads still to write or to restore.                                     *)

HeadsOf(d) == {DocsetHead(d), CurrentHead(d), CatalogHead}

Snapshots(d) == [HeadsOf(d) -> File \cup {None}]
Transactions(d) ==
  [op: {"approve", "register"}, d: {d}, title: Titles \cup {None},
   asset: Assets \cup {None}, run: Runs \cup {None},
   orig: Snapshots(d) \cup {None}, pub: [HeadsOf(d) -> Nat \cup {None}], todo: Seq(Heads),
   rooted: BOOLEAN, raised: BOOLEAN, recovery: BOOLEAN, failed: BOOLEAN, closing: BOOLEAN]

\* What is absent is not something that is there.
ASSUME AbsenceAssumption ==
  /\ None \notin Nat /\ None \notin File
  /\ None \notin Manifest /\ None \notin Entry /\ None \notin Pointer
  /\ \A d \in Docsets : None \notin Snapshots(d) /\ None \notin Transactions(d)

Transaction(op, d, title, asset, run) ==
  [op |-> op, d |-> d, title |-> title, asset |-> asset, run |-> run,
   orig |-> None, pub |-> [h \in HeadsOf(d) |-> None], todo |-> <<>>,
   rooted |-> FALSE, raised |-> FALSE, recovery |-> FALSE, failed |-> FALSE,
   closing |-> FALSE]

Goto(p, l)  == pc' = [pc EXCEPT ![p] = l]
Enter(p, l, t) == Goto(p, l) /\ txn' = [txn EXCEPT ![p] = t]
\* Mutant: the process stops but keeps its transaction open.
LeaveOpen(p) == Goto(p, "idle") /\ UNCHANGED txn
Leave(p) == Goto(p, "idle") /\ txn' = [txn EXCEPT ![p] = None]

\* Identities are only compared for one name, so inodes are numbered per head;
\* a moved file keeps its own as long as a transaction may compare it.
Identity(f) == IF f = None THEN {} ELSE {f.inode}
InodesInUse(h) ==
  Identity(file[h]) \cup
  UNION {{txn[p].pub[h]} \cup IF txn[p].orig = None THEN {} ELSE Identity(txn[p].orig[h]) :
         p \in {q \in Procs : pc[q] # "idle" /\ h \in HeadsOf(txn[q].d)}}
Fresh(h) == CHOOSE n \in 1..(Cardinality(InodesInUse(h)) + 1) : n \notin InodesInUse(h)
NewFile(h, content) == [content |-> content, inode |-> Fresh(h)]

\* A head is restored when this transaction has published it.
ToRestore(t, h) == IF t.pub[h] = None THEN <<>> ELSE <<h>>

\* Mutant: only the pointer, the promotion signal, is restored.
RestoreOrderOfPointer(t) ==
  IF t.op = "approve" THEN ToRestore(t, CurrentHead(t.d)) ELSE <<>>

RestoreOrder(t) ==
  IF t.op = "approve"
  THEN ToRestore(t, CurrentHead(t.d)) \o ToRestore(t, DocsetHead(t.d)) \o ToRestore(t, CatalogHead)
  ELSE ToRestore(t, CatalogHead) \o ToRestore(t, DocsetHead(t.d))

\* An exception: roll back what this transaction has published.
Fail(p, t, recovery) ==
  Enter(p, "restoring", [t EXCEPT !.raised = TRUE, !.recovery = recovery,
                                  !.todo = RestoreOrder(t)])

-----------------------------------------------------------------------------
(* Taking the locks: the catalog's first, then the docset's.               *)

\* Mutant: mkdir with exist_ok.
LockIgnored(l) == TRUE

LockFree(l) == l \notin locks

ApproveBegin(p) ==
  \E d \in dirs, a \in Assets, r \in Runs :
    /\ pc[p] = "idle" /\ LockFree(CatalogLock)
    /\ locks' = locks \cup {CatalogLock}
    /\ Enter(p, "locking", Transaction("approve", d, None, a, r))
    /\ UNCHANGED <<file, dirs, assets, reading, acked, cleared>>

RegisterBegin(p) ==
  \E d \in Docsets, title \in Titles :
    /\ pc[p] = "idle" /\ LockFree(CatalogLock)
    /\ locks' = locks \cup {CatalogLock}
    /\ Enter(p, "checking", Transaction("register", d, title, None, None))
    /\ UNCHANGED <<file, dirs, assets, reading, acked, cleared>>

LockDocset(p) ==
  /\ pc[p] = "locking" /\ LockFree(DocsetLock(txn[p].d))
  /\ locks' = locks \cup {DocsetLock(txn[p].d)}
  /\ Goto(p, "checking")
  /\ UNCHANGED <<file, dirs, assets, txn, reading, acked, cleared>>

\* The catalog lock is given back; failing to is ignored.
GiveUpLocking(p) ==
  /\ pc[p] = "locking"
  /\ locks' \in {locks \ {CatalogLock}, locks}
  /\ Leave(p)
  /\ UNCHANGED <<file, dirs, assets, reading, acked, cleared>>

-----------------------------------------------------------------------------
(* Capturing the baseline and publishing the new root.                     *)

Capture(t) == [h \in HeadsOf(t.d) |-> file[h]]

\* Mutant: the baseline is the docset alone; what it names is not verified.
CheckApprovalUnbound(p) ==
  LET t == txn[p] IN
  /\ pc[p] = "checking" /\ t.op = "approve"
  /\ file[DocsetHead(t.d)] # None
  /\ assets[t.asset] = None
  /\ Enter(p, "staging", [t EXCEPT !.orig = Capture(t),
                                   !.title = file[DocsetHead(t.d)].content.title])
  /\ UNCHANGED <<heads, reading, acked, cleared>>

CheckApproval(p) ==
  LET t == txn[p] IN
  /\ pc[p] = "checking" /\ t.op = "approve"
  /\ Coherent(t.d)
  /\ assets[t.asset] = None
  /\ Enter(p, "staging", [t EXCEPT !.orig = Capture(t),
                                   !.title = file[DocsetHead(t.d)].content.title])
  /\ UNCHANGED <<heads, reading, acked, cleared>>

\* A registered docset keeps its current asset, a docset directory without
\* docset.json starts without one, and a new directory is staged first.
CheckRegistration(p) ==
  LET t     == txn[p]
      known == file[DocsetHead(t.d)]
      asset == IF known = None THEN None ELSE known.content.asset
      c     == [t EXCEPT !.orig = Capture(t), !.asset = asset]
  IN
  /\ pc[p] = "checking" /\ t.op = "register"
  /\ IF t.d \in dirs
     THEN Enter(p, "writing", [c EXCEPT !.todo = <<DocsetHead(t.d), CatalogHead>>])
     ELSE Enter(p, "staging", c)
  /\ UNCHANGED <<heads, reading, acked, cleared>>

\* No approver, a failed validation, a low score, a stale base, an asset id
\* drawn twice in a second, an existing docset, an unreadable head.
Refuse(p) ==
  /\ pc[p] = "checking"
  /\ Enter(p, "unlocking", [txn[p] EXCEPT !.raised = TRUE])
  /\ UNCHANGED <<heads, reading, acked, cleared>>

\* Mutant: the new asset starts a lineage of its own.
SupersedesNothing(t) == None

Supersedes(t) == t.orig[DocsetHead(t.d)].content.asset
NewManifest(t) == [docset |-> t.d, run |-> t.run, supersedes |-> Supersedes(t)]
WriteOrder(t) ==
  IF t.op = "approve" THEN <<DocsetHead(t.d), CatalogHead, CurrentHead(t.d)>>
                      ELSE <<CatalogHead>>

\* The rename is atomic; what is verified and flushed after it may still fail.
PublishRoot(p) ==
  LET t == [txn[p] EXCEPT !.rooted = TRUE, !.todo = WriteOrder(txn[p])] IN
  /\ pc[p] = "staging"
  /\ IF t.op = "approve"
     THEN /\ assets[t.asset] = None
          /\ assets' = [assets EXCEPT ![t.asset] = NewManifest(t)]
          /\ UNCHANGED <<file, dirs>>
     ELSE /\ t.d \notin dirs
          /\ dirs' = dirs \cup {t.d}
          /\ file' = [file EXCEPT ![DocsetHead(t.d)] =
                        NewFile(DocsetHead(t.d), [title |-> t.title, asset |-> t.asset])]
          /\ UNCHANGED assets
  /\ Enter(p, "writing", t) \/ Fail(p, t, FALSE)
  /\ UNCHANGED <<locks, reading, acked, cleared>>

StageFails(p) ==
  /\ pc[p] = "staging"
  /\ \E recovery \in BOOLEAN : Fail(p, txn[p], recovery)
  /\ UNCHANGED <<heads, reading, acked, cleared>>

-----------------------------------------------------------------------------
(* Replacing one head: move the captured file aside, link the new one into *)
(* the absent name, retire the old one.  A head that was absent has        *)
(* nothing to move.                                                        *)

CatalogOf(snapshot) ==
  IF snapshot = None THEN [d \in Docsets |-> None] ELSE snapshot.content

Content(t, h) ==
  LET entry == [title |-> t.title, asset |-> t.asset] IN
  IF h = DocsetHead(t.d) THEN entry
  ELSE IF h = CatalogHead THEN [CatalogOf(t.orig[h]) EXCEPT ![t.d] = entry]
  ELSE [asset |-> t.asset, digest |-> assets[t.asset]]

MoveHead(p) ==
  LET t == txn[p]  h == Head(t.todo) IN
  /\ pc[p] = "writing"
  /\ file[h] = t.orig[h]
  /\ file' = [file EXCEPT ![h] = None]
  /\ Goto(p, "linking")
  /\ UNCHANGED <<dirs, assets, locks, txn, reading, acked, cleared>>

\* The head is no longer the captured one, or the move fails.
WriteRefused(p) ==
  /\ pc[p] = "writing"
  /\ Fail(p, txn[p], FALSE)
  /\ UNCHANGED <<heads, reading, acked, cleared>>

LinkHead(p) ==
  LET t == txn[p]  h == Head(t.todo) IN
  /\ pc[p] = "linking" /\ file[h] = None
  /\ file' = [file EXCEPT ![h] = NewFile(h, Content(t, h))]
  /\ Enter(p, "retiring", [t EXCEPT !.pub[h] = Fresh(h)])
  /\ UNCHANGED <<dirs, assets, locks, reading, acked, cleared>>

\* The old head is put back, or is left aside and recovery is required.
LinkFails(p) ==
  LET t == txn[p]  h == Head(t.todo) IN
  /\ pc[p] = "linking"
  /\ \/ file' = [file EXCEPT ![h] = t.orig[h]] /\ Fail(p, t, FALSE)
     \/ t.orig[h] # None /\ Fail(p, t, TRUE) /\ UNCHANGED file
  /\ UNCHANGED <<dirs, assets, locks, reading, acked, cleared>>

\* The stat that verifies the moved or the linked inode raises: nothing is
\* put back, and the head does not count as published.
VerifyFails(p) ==
  LET t == txn[p]  h == Head(t.todo) IN
  /\ IdentityFaults
  /\ pc[p] = "linking"
  /\ \/ t.orig[h] # None /\ UNCHANGED file
     \/ file[h] = None /\ file' = [file EXCEPT ![h] = NewFile(h, Content(t, h))]
  /\ Fail(p, t, FALSE)
  /\ UNCHANGED <<dirs, assets, locks, reading, acked, cleared>>

Advanced(t) == [t EXCEPT !.todo = Tail(@)]

RetireHead(p) ==
  LET t == Advanced(txn[p]) IN
  /\ pc[p] = "retiring"
  /\ Enter(p, IF t.todo = <<>> THEN "unlocking" ELSE "writing", t)
  /\ UNCHANGED <<heads, reading, acked, cleared>>

\* Recovery is required when the old head cannot be retired; a failed flush
\* or, after the last head, a failed namespace validation only rolls back.
RetireFails(p) ==
  LET t == txn[p] IN
  /\ pc[p] = "retiring"
  /\ \/ Fail(p, t, FALSE)
     \/ t.orig[Head(t.todo)] # None /\ Fail(p, t, TRUE)
  /\ UNCHANGED <<heads, reading, acked, cleared>>

-----------------------------------------------------------------------------
(* Rolling back: every published head is moved aside again, if it is still *)
(* the published inode, and the captured bytes are linked in its place.    *)

RestoreHead(p) ==
  LET t == txn[p]  h == Head(t.todo) IN
  /\ pc[p] = "restoring" /\ t.todo # <<>>
  /\ file[h] # None /\ file[h].inode = t.pub[h]
  /\ file' = [file EXCEPT ![h] = None]
  /\ IF t.orig[h] = None
     THEN \E failed \in BOOLEAN :
            Enter(p, "restoring", [Advanced(t) EXCEPT !.failed = @ \/ failed])
     ELSE Goto(p, "relinking") /\ UNCHANGED txn
  /\ UNCHANGED <<dirs, assets, locks, reading, acked, cleared>>

\* Mutant: the same head is tried again until it can be restored.
RestoreRetries(p) ==
  LET t == txn[p] IN
  /\ pc[p] = "restoring" /\ t.todo # <<>>
  /\ Enter(p, "restoring", [t EXCEPT !.failed = ~@])
  /\ UNCHANGED <<heads, reading, acked, cleared>>

\* Another inode owns the name, or the move fails; the next head is tried.
RestoreFails(p) ==
  LET t == txn[p] IN
  /\ pc[p] = "restoring" /\ t.todo # <<>>
  /\ Enter(p, "restoring", [Advanced(t) EXCEPT !.failed = TRUE])
  /\ UNCHANGED <<heads, reading, acked, cleared>>

RelinkHead(p) ==
  LET t == txn[p]  h == Head(t.todo) IN
  /\ pc[p] = "relinking"
  /\ file' = [file EXCEPT ![h] = NewFile(h, t.orig[h].content)]
  /\ \E failed \in BOOLEAN :
       Enter(p, "restoring", [Advanced(t) EXCEPT !.failed = @ \/ failed])
  /\ UNCHANGED <<dirs, assets, locks, reading, acked, cleared>>

\* The published head is put back, or the name stays absent.
RelinkFails(p) ==
  LET t == txn[p]  h == Head(t.todo) IN
  /\ pc[p] = "relinking"
  /\ \/ UNCHANGED file
     \/ file' = [file EXCEPT ![h] = [content |-> Content(t, h), inode |-> t.pub[h]]]
  /\ Enter(p, "restoring", [Advanced(t) EXCEPT !.failed = TRUE])
  /\ UNCHANGED <<dirs, assets, locks, reading, acked, cleared>>

\* Mutant: the heads are restored, the published root stays.
CleanUpHeadsOnly(p) ==
  LET t == txn[p] IN
  /\ pc[p] = "restoring" /\ t.todo = <<>> /\ ~t.failed
  /\ IF t.recovery THEN Leave(p)
     ELSE Enter(p, IF t.closing THEN "forcing" ELSE "unlocking", t)
  /\ UNCHANGED <<heads, reading, acked, cleared>>

\* Only when every head is back is the published root retired.
CleanUp(p) ==
  LET t == txn[p] IN
  /\ pc[p] = "restoring" /\ t.todo = <<>> /\ ~t.failed
  /\ IF t.rooted /\ t.op = "approve"
     THEN assets' = [assets EXCEPT ![t.asset] = None]
     ELSE UNCHANGED assets
  /\ IF t.rooted /\ t.op = "register"
     THEN /\ dirs' = dirs \ {t.d}
          /\ file' = [file EXCEPT ![DocsetHead(t.d)] = None]
     ELSE UNCHANGED <<file, dirs>>
  /\ IF t.recovery THEN Leave(p)
     ELSE Enter(p, IF t.closing THEN "forcing" ELSE "unlocking",
                [t EXCEPT !.rooted = FALSE])
  /\ UNCHANGED <<locks, reading, acked, cleared>>

\* A head could not be restored or the root could not be retired: the locks
\* stay behind as recovery guards.
Abandon(p) ==
  /\ pc[p] = "restoring" /\ txn[p].todo = <<>>
  /\ Leave(p)
  /\ UNCHANGED <<heads, reading, acked, cleared>>

-----------------------------------------------------------------------------
(* Closing the transaction: the docset's lock first, then the catalog's.   *)

UnlockDocset(p) ==
  /\ pc[p] = "unlocking" /\ txn[p].op = "approve"
  /\ DocsetLock(txn[p].d) \in locks
  /\ locks' = locks \ {DocsetLock(txn[p].d)}
  /\ Goto(p, "releasing")
  /\ UNCHANGED <<file, dirs, assets, txn, reading, acked, cleared>>

UnlockCatalog(p) ==
  LET t == txn[p] IN
  /\ \/ pc[p] = "releasing"
     \/ pc[p] = "unlocking" /\ t.op = "register"
  /\ CatalogLock \in locks
  /\ locks' = locks \ {CatalogLock}
  /\ acked' = IF t.raised \/ t.op = "register" THEN acked
              ELSE [acked EXCEPT ![t.d] = @ \cup {t.asset}]
  /\ Leave(p)
  /\ UNCHANGED <<file, dirs, assets, reading, cleared>>

\* A lock that cannot be removed undoes even a finished publication; a
\* registration that had already failed leaves its lock.
UnlockFails(p) ==
  LET t == [txn[p] EXCEPT !.closing = TRUE] IN
  /\ pc[p] \in {"unlocking", "releasing"}
  /\ IF t.op = "register" /\ t.raised THEN Leave(p)
     ELSE IF t.orig = None THEN Enter(p, "forcing", t)
     ELSE Fail(p, t, FALSE)
  /\ UNCHANGED <<heads, reading, acked, cleared>>

LocksOf(t) == IF t.op = "approve" THEN {DocsetLock(t.d), CatalogLock} ELSE {CatalogLock}

ForceClose(p) ==
  /\ pc[p] = "forcing"
  /\ locks' = locks \ LocksOf(txn[p])
  /\ Leave(p)
  /\ UNCHANGED <<file, dirs, assets, reading, acked, cleared>>

ForceCloseFails(p) ==
  /\ pc[p] = "forcing"
  /\ locks' \in {locks, locks \ (LocksOf(txn[p]) \ {CatalogLock})}
  /\ Leave(p)
  /\ UNCHANGED <<file, dirs, assets, reading, acked, cleared>>

-----------------------------------------------------------------------------
(* Crashes, and the operator who removes stale locks after verifying that *)
(* no approval is active.                                                  *)

Crash(p) ==
  /\ pc[p] # "idle"
  /\ Leave(p)
  /\ UNCHANGED <<heads, reading, acked, cleared>>

ClearLocks ==
  /\ cleared < MaxClears
  /\ locks # {} /\ \A p \in Procs : pc[p] = "idle"
  /\ \E stale \in SUBSET locks : stale # {} /\ locks' = locks \ stale
  /\ cleared' = cleared + 1
  /\ UNCHANGED <<file, dirs, assets, pc, txn, reading, acked>>

-----------------------------------------------------------------------------
(* Reading the current asset: the pointer, the docset, the catalog, the    *)
(* asset root, refusing whatever does not bind.                            *)

ReadPointer(r) ==
  /\ reading[r] = None
  /\ \E d \in dirs :
       reading' = [reading EXCEPT ![r] =
         [d |-> d, at |-> "docset", pointer |-> PointerOf(d), docset |-> None]]
  /\ UNCHANGED <<heads, pc, txn, acked, cleared>>

ReadDocset(r) ==
  LET found == file[DocsetHead(reading[r].d)] IN
  /\ reading[r] # None /\ reading[r].at = "docset"
  /\ reading' = [reading EXCEPT ![r] =
       IF found = None THEN None
       ELSE [@ EXCEPT !.at = "catalog", !.docset = found.content]]
  /\ UNCHANGED <<heads, pc, txn, acked, cleared>>

\* Mutant: without a pointer the baseline is not looked at.
ReadCatalogLoosely(r) ==
  LET x == reading[r] IN
  /\ x # None /\ x.at = "catalog"
  /\ reading' = [reading EXCEPT ![r] =
       IF x.pointer # None /\ ~Bound(x.pointer, x.docset, Catalog[x.d]) THEN None
       ELSE [@ EXCEPT !.docset = None,
                      !.at = IF x.pointer = None THEN "done" ELSE "asset"]]
  /\ UNCHANGED <<heads, pc, txn, acked, cleared>>

ReadCatalog(r) ==
  LET x == reading[r] IN
  /\ x # None /\ x.at = "catalog"
  /\ reading' = [reading EXCEPT ![r] =
       IF ~Bound(x.pointer, x.docset, Catalog[x.d]) THEN None
       ELSE [@ EXCEPT !.docset = None,
                      !.at = IF x.pointer = None THEN "done" ELSE "asset"]]
  /\ UNCHANGED <<heads, pc, txn, acked, cleared>>

ReadAsset(r) ==
  /\ reading[r] # None /\ reading[r].at = "asset"
  /\ reading' = [reading EXCEPT ![r] =
       IF Verified(reading[r].pointer) THEN [@ EXCEPT !.at = "done"] ELSE None]
  /\ UNCHANGED <<heads, pc, txn, acked, cleared>>

ReadReturns(r) ==
  /\ reading[r] # None /\ reading[r].at = "done"
  /\ reading' = [reading EXCEPT ![r] = None]
  /\ UNCHANGED <<heads, pc, txn, acked, cleared>>

-----------------------------------------------------------------------------
Observe ==
  /\ served' = [d \in Docsets |-> IF Coherent(d)' THEN PointerOf(d)' ELSE served[d]]
  /\ seen' = [r \in Readers |-> /\ reading'[r] # None
                                /\ seen[r] \/ served'[reading'[r].d] = reading'[r].pointer]

Init ==
  /\ file = [h \in Heads |-> None] /\ dirs = {}
  /\ assets = [a \in Assets |-> None] /\ locks = {}
  /\ pc = [p \in Procs |-> "idle"] /\ txn = [p \in Procs |-> None]
  /\ reading = [r \in Readers |-> None] /\ seen = [r \in Readers |-> FALSE]
  /\ served = [d \in Docsets |-> None]
  /\ acked = [d \in Docsets |-> {}] /\ cleared = 0

Begin(p) == ApproveBegin(p) \/ RegisterBegin(p)
Step(p) ==
  \/ LockDocset(p) \/ GiveUpLocking(p)
  \/ CheckApproval(p) \/ CheckRegistration(p) \/ Refuse(p)
  \/ PublishRoot(p) \/ StageFails(p)
  \/ MoveHead(p) \/ WriteRefused(p) \/ LinkHead(p) \/ LinkFails(p)
  \/ VerifyFails(p) \/ RetireHead(p) \/ RetireFails(p)
  \/ RestoreHead(p) \/ RestoreFails(p) \/ RelinkHead(p) \/ RelinkFails(p)
  \/ CleanUp(p) \/ Abandon(p)
  \/ UnlockDocset(p) \/ UnlockCatalog(p) \/ UnlockFails(p)
  \/ ForceClose(p) \/ ForceCloseFails(p)
Read(r) == ReadPointer(r) \/ ReadDocset(r) \/ ReadCatalog(r) \/ ReadAsset(r)
             \/ ReadReturns(r)

Next ==
  /\ \/ \E p \in Procs : Begin(p) \/ Step(p) \/ Crash(p)
     \/ ClearLocks
     \/ \E r \in Readers : Read(r)
  /\ Observe

Spec == Init /\ [][Next]_vars

\* A process that is inside a transaction and alive keeps running.
Fairness == \A p \in Procs : WF_vars(Step(p) /\ Observe)
FairSpec == Spec /\ Fairness

-----------------------------------------------------------------------------
(* Properties.                                                             *)

Labels == {"idle", "locking", "checking", "staging", "writing", "linking",
           "retiring", "restoring", "relinking", "unlocking", "releasing", "forcing"}

Readings == [d: Docsets, at: {"docset", "catalog", "asset", "done"},
             pointer: Pointer \cup {None}, docset: Entry \cup {None}]

\* The type of every variable; a process has a transaction exactly while it is
\* not idle, and an asset root belongs to an existing docset.
TypeOK ==
  /\ \A d \in Docsets :
       /\ file[DocsetHead(d)] # None => file[DocsetHead(d)].content \in Entry
       /\ file[CurrentHead(d)] # None => file[CurrentHead(d)].content \in Pointer
       /\ d \notin dirs => file[DocsetHead(d)] = None /\ file[CurrentHead(d)] = None
  /\ Catalog \in Catalogs
  /\ dirs \subseteq Docsets
  /\ assets \in [Assets -> Manifest \cup {None}]
  /\ \A a \in Assets : assets[a] # None => assets[a].docset \in dirs
  /\ locks \subseteq Locks
  /\ pc \in [Procs -> Labels]
  /\ \A p \in Procs : IF pc[p] = "idle" THEN txn[p] = None
                       ELSE txn[p] # None /\ txn[p] \in Transactions(txn[p].d)
  /\ reading \in [Readers -> Readings \cup {None}] /\ seen \in [Readers -> BOOLEAN]
  /\ served \in [Docsets -> Pointer \cup {None}]
  /\ acked \in [Docsets -> SUBSET Assets] /\ cleared \in 0..MaxClears

\* The two-lock protocol of store.py: at most one transaction runs, it runs
\* under the catalog lock, and an approval captures, writes and restores
\* under its docset's lock, even though an operator may remove stale locks and
\* a close that failed half way rolls back with the docset's lock gone.
LocksExclude ==
  /\ \A p, q \in Procs : pc[p] # "idle" /\ pc[q] # "idle" => p = q
  /\ \A p \in Procs :
       /\ pc[p] # "idle" => CatalogLock \in locks
       /\ pc[p] \notin {"idle", "locking", "releasing"} /\ txn[p].op = "approve"
            /\ ~txn[p].closing => DocsetLock(txn[p].d) \in locks

\* Whatever failed, and at whichever step, a foundry nobody holds a lock on
\* has heads that agree: the rollback put every head back or left its locks
\* (approve.py: _raise_approval_failure, register.py: rollback).
QuiescentHeadsAgree ==
  locks = {} /\ cleared = 0 => \A d \in dirs : Coherent(d)

\* a is reached from x through supersedes: it is in every set of assets that
\* holds x and, with an asset, its predecessor.
Reaches(x, a) ==
  \A S \in SUBSET Assets :
    /\ x \in S
    /\ \A b \in S : assets[b] # None /\ assets[b].supersedes # None => assets[b].supersedes \in S
    => a \in S

Lineage(d) ==
  IF PointerOf(d) = None THEN {} ELSE {a \in Assets : Reaches(PointerOf(d).asset, a)}

\* An approval that returned is never lost: no rollback retires its root, and,
\* until an operator removes locks, whatever pointer the docset has descends
\* from it, at every instant of every later approval, failed or not.
AckedStaysInLineage ==
  \A d \in Docsets : \A a \in acked[d] :
    /\ assets[a] # None
    /\ cleared = 0 /\ file[CurrentHead(d)] # None => a \in Lineage(d)

\* Supersedes never dangles: the predecessor of a published root is a published
\* root of the same docset, whatever failed or crashed before, verification
\* failures and hand-removed locks included (the coherence check of
\* _approve_candidate_locked is what a broken docset does not pass).
LineageIntact ==
  \A a \in Assets : assets[a] # None /\ assets[a].supersedes # None =>
    /\ assets[assets[a].supersedes] # None
    /\ assets[assets[a].supersedes].docset = assets[a].docset

\* A rolled-back approval leaves no asset root behind: without locks every
\* published root is in the lineage of its docset's current asset.
NoOrphanRoots ==
  locks = {} /\ cleared = 0 =>
    \A a \in Assets : assets[a] # None => a \in Lineage(assets[a].docset)

\* load_current_asset_optional takes no lock and reads four files one after
\* the other, yet what it returns (an asset, or no asset) is what all the heads
\* said together at one instant of the read, or when they last agreed before it.
ReadsAreAtomic ==
  cleared = 0 => \A r \in Readers : reading[r] # None /\ reading[r].at = "done" => seen[r]

\* A transaction of a process that stays alive ends, rolled back or not.
TransactionsEnd ==
  \A p \in Procs : pc[p] # "idle" ~> pc[p] = "idle"

\* DESIGN_DECISIONS.md, "If rollback or ownership verification fails, both
\* locks remain": heads that disagree are never left without a lock.
UncertaintyStaysLocked ==
  cleared = 0 /\ (\A p \in Procs : pc[p] = "idle") =>
    \A d \in dirs : Coherent(d) \/ {DocsetLock(d), CatalogLock} \cap locks # {}
=============================================================================
