---------------------------- MODULE ImporterProofs ----------------------------
(***************************************************************************)
(* What a failed import gives back and what a committed overwrite keeps,   *)
(* for any number of processes, runs and directories and however often the *)
(* operator removes stale locks.                                           *)
(*                                                                         *)
(* ImportInv is about the candidate and the locks, whatever names overlap  *)
(* and whichever moves report their failure late.  BackupsInv is about the *)
(* quarantined backups and needs that a quarantine reported as failed has  *)
(* not happened (importer.py:211-218).  KeptInv is about the history of    *)
(* the commits and needs besides that no run's hidden names begin with     *)
(* another's backup prefix (importer.py:203).                              *)
(***************************************************************************)
EXTENDS Importer, TLAPS

Names == {Name(k, r) : k \in Kinds, r \in Runs} \cup {Unmade, Tombstone}
Some(S) == S \cup {None}

Txs(runs, finds) ==
  [run: runs, overwrite: BOOLEAN, prior: Some(Dirs), stage: Some(Dirs), backup: Some(Dirs),
   pruned: Seq([dir: Dirs, from: Names]), found: finds]

Working == Txs(Runs, [candidate: Some(Dirs), backups: SUBSET Dirs])

Inside(p) == pc[p] \in Before \cup Rollback
C(r) == Name("candidate", r)
B(r) == Name("backup", r)

-----------------------------------------------------------------------------
(* The invariant.                                                          *)

\* The directories: one under a candidate's name, complete ones are made.
Placed ==
  /\ at \in [Dirs -> Names] /\ whole \subseteq Dirs /\ saving \subseteq Runs /\ cleared \in Nat
  /\ \A d, e \in Dirs : at[d] = at[e] /\ at[d].kind = "candidate" => d = e
  /\ \A d \in whole : at[d] # Unmade

\* The processes: whoever is inside holds the lock.
Engaged ==
  /\ pc \in [Procs -> Before \cup Rollback \cup {"idle", "cleanup"}]
  /\ tx \in [Procs -> Working \cup {Idle}]
  /\ \A p \in Procs : /\ Inside(p) <=> lock = p
                      /\ tx[p] = Idle <=> pc[p] = "idle"

\* What an import has read and made so far.
Known(p) ==
  LET t == tx[p] IN
  /\ t.prior # None => at[t.prior] # Unmade /\ (t.found.candidate # None => t.prior = t.found.candidate)
  /\ t.prior # None /\ t.found.candidate = None => t.prior \notin whole
  /\ t.stage # None => t.stage # t.prior /\ t.stage # t.found.candidate
  /\ pc[p] \in {"check", "collect", "stage"} => t.stage = None
  /\ pc[p] = "check" => t.prior = None
  /\ (pc[p] \in {"collect", "stage", "quarantine", "backup", "publish", "close"} \/ t.stage # None)
        /\ t.found.candidate # None => t.prior = t.found.candidate
  /\ t.backup \in {None, t.prior}
  /\ pc[p] \in {"quarantine", "backup", "publish", "close"} => t.stage # None
  /\ pc[p] \in {"quarantine", "backup"} => t.prior # None
  /\ \A i \in 1..Len(t.pruned) :
       /\ t.pruned[i].dir # t.found.candidate
       /\ t.pruned[i].from.kind # "candidate" /\ t.pruned[i].from # Unmade
       /\ cleared = 0 => t.pruned[i].from.kind # "recovery"

\* Where the candidate stands that an import found.
FoundStands(p) ==
  LET t == tx[p]  d == t.found.candidate IN
  d # None =>
    /\ pc[p] \in {"check", "collect", "stage", "quarantine", "backup", "restore", "release"}
         => at[d] = C(t.run)
    /\ pc[p] \in {"publish", "close"} => at[d] = B(t.run) /\ t.backup = d
    /\ pc[p] = "reconcile" => at[d] = C(t.run) \/ (at[d] = B(t.run) /\ t.prior = d)
    /\ pc[p] \in {"undo", "surrender", "putback"} =>
         \/ at[d] = C(t.run) /\ t.backup = None
         \/ at[d] = B(t.run) /\ t.backup = d

\* Where it found none, no complete run stands there but the one it published.
NoneFound(p) ==
  LET t == tx[p] IN
  t.found.candidate = None =>
    \A d \in whole : at[d] = C(t.run) => d = t.stage /\ pc[p] \in {"close", "reconcile", "undo"}

\* An overwrite quarantines every backup before it makes its own.
BackupsCollected(p) ==
  LET t == tx[p] IN
  /\ pc[p] = "backup" => \A d \in Dirs : at[d] # B(t.run)
  /\ pc[p] \in {"publish", "close"} /\ t.prior # None => \A d \in Dirs : at[d] = B(t.run) <=> d = t.prior

TxInv(p) == Inside(p) => Known(p) /\ FoundStands(p) /\ NoneFound(p) /\ BackupsCollected(p)

\* A directory that was not known keeps the locks until somebody removes them.
ForeignLocked ==
  cleared = 0 /\ (\E d \in Dirs : at[d].kind = "recovery") =>
    lock = "stale" \/ \E p \in Procs : pc[p] = "surrender"

ImportInv == Placed /\ Engaged /\ (\A p \in Procs : TxInv(p)) /\ ForeignLocked

Hypotheses == DistinctNone /\ LockNamesApart

-----------------------------------------------------------------------------
(* Helpers.                                                                *)

LEMMA OccupantIs ==
  ASSUME DistinctNone, Placed, NEW r \in Runs
  PROVE  /\ Occupant(r) = None => \A d \in Dirs : at[d] # C(r)
         /\ Occupant(r) # None => Occupant(r) \in Dirs /\ at[Occupant(r)] = C(r)
         /\ \A d \in Dirs : at[d] = C(r) => Occupant(r) = d
<1>1. CASE Entries("candidate", r) = {}
  BY <1>1 DEF Occupant, Entries, C
<1>2. CASE Entries("candidate", r) # {}
  <2>1. PICK d \in Dirs : at[d] = Name("candidate", r)
    BY <1>2 DEF Entries
  <2>2. \A e \in Dirs : at[e] = Name("candidate", r) => e = d
    BY <2>1 DEF Placed, Name
  <2>3. Occupant(r) = d
    BY <1>2, <2>1, <2>2 DEF Occupant
  <2> QED
    BY <2>1, <2>2, <2>3 DEF C, DistinctNone
<1> QED
  BY <1>1, <1>2

LEMMA FreshIs == \A d \in Fresh : d \in Dirs /\ at[d] = Unmade
BY DEF Fresh, Unused

LEMMA NameTypes ==
  ASSUME NEW r \in Runs
  PROVE  /\ \A k \in Kinds : Name(k, r) \in Names
         /\ C(r) \in Names /\ B(r) \in Names /\ Tombstone \in Names
         /\ C(r) # B(r) /\ C(r) # Tombstone /\ C(r) # Unmade /\ B(r) # Unmade /\ B(r) # Tombstone
         /\ Tombstone # Unmade /\ Tombstone.kind = "tombstone" /\ Unmade.kind = "unmade"
         /\ C(r).kind = "candidate" /\ B(r).kind = "backup" /\ C(r).run = r
         /\ \A k \in Kinds : Name(k, r) # Unmade /\ Name(k, r).kind = k
         /\ \A k \in Kinds \ {"candidate", "backup"} :
              Name(k, r) # C(r) /\ Name(k, r) # B(r)
<1>1. ASSUME NEW k \in Kinds
      PROVE  /\ Name(k, r) \in Names /\ Name(k, r) # Unmade /\ Name(k, r).kind = k /\ Name(k, r).run = r
             /\ k \notin {"candidate", "backup"} => Name(k, r) # C(r) /\ Name(k, r) # B(r)
  <2>1. Name(k, r) \in Names
    BY DEF Names
  <2>2. Name(k, r).kind = k /\ Name(k, r).run = r /\ C(r).kind = "candidate" /\ B(r).kind = "backup"
    BY DEF Name, C, B
  <2>3. Unmade.kind = "unmade" /\ k # "unmade"
    BY DEF Unmade, Name, Kinds
  <2> QED
    BY <2>1, <2>2, <2>3
<1>2. "candidate" \in Kinds /\ "backup" \in Kinds /\ "tombstone" \notin Kinds
  BY DEF Kinds
<1>3. /\ Tombstone \in Names /\ Tombstone.kind = "tombstone" /\ Unmade.kind = "unmade"
      /\ C(r).kind = "candidate" /\ B(r).kind = "backup" /\ C(r).run = r
  BY DEF Names, Tombstone, Unmade, Name, C, B
<1>4. C(r) \in Names /\ B(r) \in Names
  BY <1>1, <1>2 DEF C, B
<1> QED
  BY <1>1, <1>3, <1>4

LEMMA SeqElements ==
  ASSUME NEW S, NEW s \in Seq(S)
  PROVE  Len(s) \in Nat /\ \A i \in 1..Len(s) : s[i] \in S
OBVIOUS

LEMMA SeqPrefix ==
  ASSUME NEW S, NEW s \in Seq(S), Len(s) > 0
  PROVE  LET q == SubSeq(s, 1, Len(s) - 1) IN
         q \in Seq(S) /\ Len(q) = Len(s) - 1 /\ \A i \in 1..(Len(s) - 1) : q[i] = s[i]
<1> DEFINE n == Len(s) - 1
<1>1. n \in Nat /\ n <= Len(s) /\ \A i \in 1..Len(s) : s[i] \in S
  OBVIOUS
<1>2. SubSeq(s, 1, n) = [i \in 1..n |-> s[i]]
  BY <1>1
<1>3. [i \in 1..n |-> s[i]] \in Seq(S) /\ Len([i \in 1..n |-> s[i]]) = n
  BY <1>1
<1> QED
  BY <1>1, <1>2, <1>3

LEMMA SeqEnds ==
  ASSUME NEW S, NEW s \in Seq(S), s # <<>>
  PROVE  Head(s) \in S /\ Tail(s) \in Seq(S)
OBVIOUS

LEMMA Opened ==
  ASSUME Hypotheses, ImportInv, NEW p \in Procs, Inside(p)
  PROVE  LET t == tx[p] IN
         /\ t \in Working /\ t.run \in Runs /\ lock = p
         /\ t.found.candidate \in Some(Dirs) /\ t.prior \in Some(Dirs)
         /\ t.stage \in Some(Dirs) /\ t.backup \in Some(Dirs)
         /\ Len(t.pruned) \in Nat
         /\ \A i \in 1..Len(t.pruned) : t.pruned[i].dir \in Dirs /\ t.pruned[i].from \in Names
         /\ Known(p) /\ FoundStands(p) /\ NoneFound(p) /\ BackupsCollected(p)
         /\ \A q \in Procs \ {p} : ~Inside(q)
<1>1. lock = p /\ pc[p] # "idle"
  BY DEF ImportInv, Engaged, Inside, Before, Rollback
<1>2. tx[p] \in Working
  BY <1>1 DEF ImportInv, Engaged
<1>3. \A q \in Procs \ {p} : ~Inside(q)
  BY <1>1 DEF ImportInv, Engaged
<1>4. Known(p) /\ FoundStands(p) /\ NoneFound(p) /\ BackupsCollected(p)
  BY DEF ImportInv, TxInv
<1>5. tx[p].pruned \in Seq([dir: Dirs, from: Names])
  BY <1>2 DEF Working, Txs
<1>6. Len(tx[p].pruned) \in Nat /\ \A i \in 1..Len(tx[p].pruned) : tx[p].pruned[i] \in [dir: Dirs, from: Names]
  BY <1>5, SeqElements
<1>7. /\ tx[p].run \in Runs /\ tx[p].prior \in Some(Dirs) /\ tx[p].stage \in Some(Dirs)
      /\ tx[p].backup \in Some(Dirs) /\ tx[p].found \in [candidate: Some(Dirs), backups: SUBSET Dirs]
  BY <1>2 DEF Working, Txs
<1>8. tx[p].found.candidate \in Some(Dirs)
  BY <1>7
<1>9. \A i \in 1..Len(tx[p].pruned) : tx[p].pruned[i].dir \in Dirs /\ tx[p].pruned[i].from \in Names
  BY <1>6
<1> QED
  BY <1>1, <1>2, <1>3, <1>4, <1>6, <1>7, <1>8, <1>9

\* A directory that moves leaves the names in order.
LEMMA MovePlaced ==
  ASSUME Placed, NEW d \in Dirs, NEW name \in Names, name # Unmade,
         name.kind = "candidate" => \A e \in Dirs : at[e] # name,
         Move(d, name), whole' = whole \/ whole' = whole \cup {d},
         saving' \subseteq Runs, cleared' \in Nat
  PROVE  /\ Placed' /\ at'[d] = name
         /\ \A e \in Dirs \ {d} : at'[e] = at[e]
<1>1. at'[d] = name /\ \A e \in Dirs \ {d} : at'[e] = at[e]
  BY DEF Move, Placed
<1>2. at' \in [Dirs -> Names]
  BY DEF Move, Placed
<1>3. ASSUME NEW x \in Dirs, NEW y \in Dirs, at'[x] = at'[y], at'[x].kind = "candidate"
      PROVE  x = y
  <2>1. CASE x = d /\ y # d
    BY <1>1, <1>3, <2>1
  <2>2. CASE x # d /\ y = d
    BY <1>1, <1>3, <2>2
  <2>3. CASE x # d /\ y # d
    BY <1>1, <1>3, <2>3 DEF Placed
  <2> QED
    BY <2>1, <2>2, <2>3
<1>4. \A x \in whole' : at'[x] # Unmade
  BY <1>1 DEF Placed
<1>5. whole' \subseteq Dirs
  BY DEF Placed
<1> QED
  BY <1>1, <1>2, <1>3, <1>4, <1>5 DEF Placed

\* What goes on beside an import does not touch what it relies on.
LEMMA Bystander ==
  ASSUME Hypotheses, ImportInv, NEW p \in Procs, Inside(p),
         tx'[p] = tx[p], pc'[p] = pc[p], UNCHANGED <<whole, cleared>>,
         \A d \in Dirs : \/ at'[d] = at[d]
                         \/ at[d].kind = "prune" /\ at'[d] = Tombstone
                         \/ at[d] = Unmade /\ at'[d].kind = "candidate"
  PROVE  TxInv(p)'
<1> DEFINE t == tx[p]
<1>1. /\ t.run \in Runs /\ t.found.candidate \in Some(Dirs) /\ t.prior \in Some(Dirs)
      /\ t.stage \in Some(Dirs) /\ Known(p) /\ FoundStands(p) /\ NoneFound(p) /\ BackupsCollected(p)
  BY Opened
<1>2. \A d \in Dirs : /\ at[d] = C(t.run) => at'[d] = C(t.run)
                      /\ at'[d] = B(t.run) <=> at[d] = B(t.run)
                      /\ at[d] # Unmade => at'[d] # Unmade
                      /\ d \in whole /\ at'[d] = C(t.run) => at[d] = C(t.run)
  BY <1>1, NameTypes DEF ImportInv, Placed
<1>3. Known(p)'
  BY <1>1, <1>2 DEF Known, Some
<1>4. FoundStands(p)'
  BY <1>1, <1>2 DEF FoundStands, Some
<1>5. NoneFound(p)'
  <2>1. whole \subseteq Dirs
    BY DEF ImportInv, Placed
  <2>2. ASSUME t.found.candidate = None, NEW d \in whole, at'[d] = C(t.run)
        PROVE  d = t.stage /\ pc[p] \in {"close", "reconcile", "undo"}
    BY <1>1, <1>2, <2>1, <2>2 DEF NoneFound
  <2> QED
    BY <2>2 DEF NoneFound
<1>6. BackupsCollected(p)'
  BY <1>1, <1>2 DEF BackupsCollected
<1> QED
  BY <1>3, <1>4, <1>5, <1>6 DEF TxInv

\* A step of the import inside the transaction that goes on inside.
LEMMA GoesOn ==
  ASSUME Hypotheses, ImportInv, NEW p \in Procs, Inside(p),
         NEW label \in Before \cup Rollback, NEW u \in Working,
         pc' = [pc EXCEPT ![p] = label], tx' = [tx EXCEPT ![p] = u], lock' = lock,
         Placed', Known(p)', FoundStands(p)', NoneFound(p)', BackupsCollected(p)', ForeignLocked'
  PROVE  ImportInv'
<1>1. lock = p /\ \A q \in Procs \ {p} : ~Inside(q)
  BY Opened
<1>2. /\ pc'[p] = label /\ tx'[p] = u
      /\ \A q \in Procs \ {p} : pc'[q] = pc[q] /\ tx'[q] = tx[q]
  BY DEF ImportInv, Engaged
<1>3. u # Idle /\ label # "idle"
  BY DEF Hypotheses, DistinctNone, Working, Txs, Idle, Before, Rollback
<1>4. pc' \in [Procs -> Before \cup Rollback \cup {"idle", "cleanup"}] /\ tx' \in [Procs -> Working \cup {Idle}]
  BY DEF ImportInv, Engaged
<1>5. ASSUME NEW q \in Procs
      PROVE  /\ Inside(q)' <=> lock' = q
             /\ tx'[q] = Idle <=> pc'[q] = "idle"
             /\ TxInv(q)'
  <2>1. CASE q = p
    BY <1>1, <1>2, <1>3, <2>1 DEF Inside, TxInv
  <2>2. CASE q # p
    <3>1. ~Inside(q) /\ pc'[q] = pc[q] /\ tx'[q] = tx[q] /\ lock' # q
      BY <1>1, <1>2, <2>2
    <3> QED
      BY <3>1 DEF ImportInv, Engaged, Inside, TxInv
  <2> QED
    BY <2>1, <2>2
<1>6. Engaged'
  BY <1>4, <1>5 DEF Engaged
<1> QED
  BY <1>5, <1>6 DEF ImportInv

\* A step that ends the work inside the transaction.
LEMMA GoesOut ==
  ASSUME Hypotheses, ImportInv, NEW p \in Procs, Inside(p), NEW label, NEW u,
         \/ label = "idle" /\ u = Idle
         \/ label = "cleanup" /\ u \in Working,
         pc' = [pc EXCEPT ![p] = label], tx' = [tx EXCEPT ![p] = u], lock' \in {"free", "stale"},
         Placed', ForeignLocked'
  PROVE  ImportInv'
<1>1. lock = p /\ \A q \in Procs \ {p} : ~Inside(q)
  BY Opened
<1>2. /\ pc'[p] = label /\ tx'[p] = u
      /\ \A q \in Procs \ {p} : pc'[q] = pc[q] /\ tx'[q] = tx[q]
  BY DEF ImportInv, Engaged
<1>3. label \notin Before \cup Rollback /\ (u = Idle <=> label = "idle")
  BY DEF Hypotheses, DistinctNone, Working, Txs, Idle, Before, Rollback
<1>4. pc' \in [Procs -> Before \cup Rollback \cup {"idle", "cleanup"}] /\ tx' \in [Procs -> Working \cup {Idle}]
  BY DEF ImportInv, Engaged
<1>5. ASSUME NEW q \in Procs
      PROVE  /\ ~Inside(q)' /\ lock' # q
             /\ tx'[q] = Idle <=> pc'[q] = "idle"
  <2>1. CASE q = p
    BY <1>2, <1>3, <2>1 DEF Inside, Hypotheses, LockNamesApart
  <2>2. CASE q # p
    <3>1. ~Inside(q) /\ pc'[q] = pc[q] /\ tx'[q] = tx[q]
      BY <1>1, <1>2, <2>2
    <3> QED
      BY <3>1 DEF ImportInv, Engaged, Inside, Hypotheses, LockNamesApart
  <2> QED
    BY <2>1, <2>2
<1>6. Engaged'
  BY <1>4, <1>5 DEF Engaged
<1> QED
  BY <1>5, <1>6 DEF ImportInv, TxInv

\* An import inside the transaction is the one that may have met a foreign directory.
LEMMA NoForeign ==
  ASSUME Hypotheses, ImportInv, NEW p \in Procs, Inside(p), pc[p] # "surrender"
  PROVE  cleared = 0 => \A d \in Dirs : at[d].kind # "recovery"
<1>1. lock = p /\ \A q \in Procs \ {p} : ~Inside(q)
  BY Opened
<1>2. \A q \in Procs : pc[q] # "surrender"
  BY <1>1 DEF Inside, Rollback
<1> QED
  BY <1>1, <1>2 DEF ImportInv, ForeignLocked, Hypotheses, LockNamesApart

-----------------------------------------------------------------------------
(* The local variables of an import.                                       *)

LEMMA UpdatePrior ==
  ASSUME NEW t \in Working, NEW v \in Some(Dirs)
  PROVE  LET u == [t EXCEPT !.prior = v] IN
         /\ u \in Working /\ u.prior = v /\ u.run = t.run /\ u.stage = t.stage /\ u.backup = t.backup
         /\ u.pruned = t.pruned /\ u.found = t.found
BY DEF Working, Txs

LEMMA UpdateStage ==
  ASSUME NEW t \in Working, NEW v \in Some(Dirs)
  PROVE  LET u == [t EXCEPT !.stage = v] IN
         /\ u \in Working /\ u.stage = v /\ u.run = t.run /\ u.prior = t.prior /\ u.backup = t.backup
         /\ u.pruned = t.pruned /\ u.found = t.found
BY DEF Working, Txs

LEMMA UpdateBackup ==
  ASSUME NEW t \in Working, NEW v \in Some(Dirs)
  PROVE  LET u == [t EXCEPT !.backup = v] IN
         /\ u \in Working /\ u.backup = v /\ u.run = t.run /\ u.prior = t.prior /\ u.stage = t.stage
         /\ u.pruned = t.pruned /\ u.found = t.found
BY DEF Working, Txs

LEMMA UpdatePruned ==
  ASSUME NEW t \in Working, NEW s \in Seq([dir: Dirs, from: Names])
  PROVE  LET u == [t EXCEPT !.pruned = s] IN
         /\ u \in Working /\ u.pruned = s /\ u.run = t.run /\ u.prior = t.prior /\ u.stage = t.stage
         /\ u.backup = t.backup /\ u.found = t.found
BY DEF Working, Txs

LEMMA Updated ==
  ASSUME Engaged, NEW p \in Procs, NEW label, NEW u,
         pc' = [pc EXCEPT ![p] = label], tx' = [tx EXCEPT ![p] = u]
  PROVE  pc'[p] = label /\ tx'[p] = u
BY DEF Engaged

\* A step that leaves the directories alone, or everything about them but labels.
LEMMA StandStill ==
  ASSUME ImportInv, UNCHANGED <<at, whole, saving, cleared>>
  PROVE  Placed'
BY DEF ImportInv, Placed

LEMMA StillNoForeign ==
  ASSUME Hypotheses, ImportInv, NEW p \in Procs, Inside(p), pc[p] # "surrender",
         \A d \in Dirs : at'[d] = at[d] \/ at'[d].kind # "recovery",
         cleared' = cleared
  PROVE  ForeignLocked'
BY NoForeign DEF ForeignLocked

-----------------------------------------------------------------------------
(* Before the commit.                                                      *)

LEMMA BeginKeeps == ASSUME Hypotheses, ImportInv, NEW p \in Procs, ImportBegin(p) PROVE ImportInv'
<1>1. PICK r \in Runs, overwrite \in BOOLEAN :
        tx' = [tx EXCEPT ![p] = [Idle EXCEPT !.run = r, !.overwrite = overwrite, !.found = Found(r)]]
  BY DEF ImportBegin, Note
<1> DEFINE u == [Idle EXCEPT !.run = r, !.overwrite = overwrite, !.found = Found(r)]
<1>2. /\ pc' = [pc EXCEPT ![p] = "check"] /\ lock = "free" /\ lock' = p
      /\ UNCHANGED <<at, whole, saving, cleared>>
  BY DEF ImportBegin, LockFree, Goto, outside
<1>3. \A q \in Procs : ~Inside(q)
  BY <1>2 DEF ImportInv, Engaged, Hypotheses, LockNamesApart
<1>4. Found(r).candidate = Occupant(r) /\ Occupant(r) \in Some(Dirs)
      /\ Found(r) \in [candidate: Some(Dirs), backups: SUBSET Dirs]
  BY OccupantIs DEF Found, Entries, Some, ImportInv, Hypotheses
<1>5. /\ u \in Working /\ u.run = r /\ u.prior = None /\ u.stage = None /\ u.backup = None
      /\ u.pruned = <<>> /\ u.found = Found(r)
  <2>1. <<>> \in Seq([dir: Dirs, from: Names]) /\ None \in Some(Dirs)
    BY DEF Some
  <2>2. u \in Working
    BY <1>4, <2>1 DEF Working, Txs, Idle
  <2> QED
    BY <2>2 DEF Idle
<1>6. u # Idle
  BY <1>5 DEF Working, Txs, Idle, Hypotheses, DistinctNone
<1> HIDE DEF u
<1>7. /\ pc'[p] = "check" /\ tx'[p] = u
      /\ \A q \in Procs \ {p} : pc'[q] = pc[q] /\ tx'[q] = tx[q]
      /\ pc' \in [Procs -> Before \cup Rollback \cup {"idle", "cleanup"}] /\ tx' \in [Procs -> Working \cup {Idle}]
  BY <1>1, <1>2, <1>5 DEF ImportInv, Engaged, Before, u
<1>8. Engaged'
  <2>1. ASSUME NEW q \in Procs
        PROVE  (Inside(q)' <=> lock' = q) /\ (tx'[q] = Idle <=> pc'[q] = "idle")
    <3>1. CASE q = p
      BY <1>2, <1>6, <1>7, <3>1 DEF Inside, Before
    <3>2. CASE q # p
      BY <1>2, <1>3, <1>7, <3>2 DEF Inside, ImportInv, Engaged
    <3> QED
      BY <3>1, <3>2
  <2> QED
    BY <1>7, <2>1 DEF Engaged
<1>9. Placed'
  BY <1>2, StandStill
<1>10. Known(p)'
  BY <1>5, <1>7 DEF Known
<1>11. FoundStands(p)' /\ NoneFound(p)' /\ BackupsCollected(p)'
  <2>1. /\ Occupant(r) = None => \A d \in Dirs : at[d] # C(r)
        /\ Occupant(r) # None => at[Occupant(r)] = C(r)
        /\ whole \subseteq Dirs
    BY OccupantIs DEF ImportInv, Hypotheses, Placed
  <2> QED
    BY <1>2, <1>4, <1>5, <1>7, <2>1 DEF FoundStands, NoneFound, BackupsCollected
<1>12. \A q \in Procs : TxInv(q)'
  <2>1. \A q \in Procs \ {p} : ~Inside(q)'
    BY <1>3, <1>7 DEF Inside
  <2> QED
    BY <1>10, <1>11, <2>1 DEF TxInv
<1>13. ForeignLocked'
  <2>1. \A q \in Procs : pc[q] # "surrender"
    BY <1>3 DEF Inside, Rollback
  <2> QED
    BY <1>2, <2>1 DEF ImportInv, ForeignLocked
<1> QED
  BY <1>8, <1>9, <1>12, <1>13 DEF ImportInv

LEMMA ReadPriorKeeps == ASSUME Hypotheses, ImportInv, NEW p \in Procs, ReadPrior(p) PROVE ImportInv'
<1> DEFINE t == tx[p]
           prior == Occupant(t.run)
           u == [t EXCEPT !.prior = prior]
<1>1. /\ pc[p] = "check" /\ Inside(p) /\ pc' = [pc EXCEPT ![p] = "collect"] /\ tx' = [tx EXCEPT ![p] = u]
      /\ lock' = lock /\ UNCHANGED <<at, whole, saving, cleared>>
  BY DEF ReadPrior, Goto, Note, Inside, Before, outside
<1>2. /\ t \in Working /\ t.run \in Runs /\ Known(p) /\ FoundStands(p) /\ NoneFound(p)
      /\ t.found.candidate \in Some(Dirs)
  BY <1>1, Opened
<1>3. /\ prior = None => \A d \in Dirs : at[d] # C(t.run)
      /\ prior # None => prior \in Dirs /\ at[prior] = C(t.run)
      /\ \A d \in Dirs : at[d] = C(t.run) => prior = d
  BY <1>2, OccupantIs DEF ImportInv, Hypotheses
<1> HIDE DEF prior
<1>4. /\ u \in Working /\ u.prior = prior /\ u.run = t.run /\ u.stage = t.stage /\ u.backup = t.backup
      /\ u.pruned = t.pruned /\ u.found = t.found
  BY <1>2, <1>3, UpdatePrior DEF Some
<1> HIDE DEF u
<1>5. pc'[p] = "collect" /\ tx'[p] = u
  BY <1>1, Updated DEF ImportInv
<1>6. t.stage = None /\ t.prior = None /\ t.backup = None
  BY <1>1, <1>2 DEF Known
<1>7. t.found.candidate # None => prior = t.found.candidate
  BY <1>1, <1>2, <1>3 DEF FoundStands, Some
<1>8. t.found.candidate = None /\ prior # None => prior \notin whole
  BY <1>1, <1>2, <1>3 DEF NoneFound
<1>9. prior # None => at[prior] # Unmade
  BY <1>2, <1>3, NameTypes
<1>10. Known(p)'
  BY <1>1, <1>2, <1>4, <1>5, <1>6, <1>7, <1>8, <1>9 DEF Known
<1>11. FoundStands(p)' /\ NoneFound(p)' /\ BackupsCollected(p)'
  BY <1>1, <1>2, <1>4, <1>5 DEF FoundStands, NoneFound, BackupsCollected
<1>12. Placed' /\ ForeignLocked'
  BY <1>1, StandStill, StillNoForeign
<1> QED
  BY <1>1, <1>4, <1>10, <1>11, <1>12, GoesOn DEF Before

\* What goes on beside the imports.
LEMMA Beside ==
  ASSUME Hypotheses, ImportInv, UNCHANGED <<lock, pc, tx, whole, cleared>>, Placed', ForeignLocked',
         \A d \in Dirs : \/ at'[d] = at[d]
                         \/ at[d].kind = "prune" /\ at'[d] = Tombstone
                         \/ at[d] = Unmade /\ at'[d].kind = "candidate"
  PROVE  ImportInv'
<1>1. Engaged'
  BY DEF ImportInv, Engaged, Inside
<1>2. ASSUME NEW p \in Procs
      PROVE  TxInv(p)'
  <2>1. CASE Inside(p)
    BY <2>1, Bystander
  <2>2. CASE ~Inside(p)
    BY <2>2 DEF TxInv, Inside
  <2> QED
    BY <2>1, <2>2
<1> QED
  BY <1>1, <1>2 DEF ImportInv

\* A step that changes nothing but where the import is.
LEMMA JumpKeeps ==
  ASSUME Hypotheses, ImportInv, NEW p \in Procs, Inside(p), pc[p] # "surrender",
         NEW label \in Before \cup Rollback, pc' = [pc EXCEPT ![p] = label],
         UNCHANGED <<at, whole, lock, tx, saving, cleared>>,
         Known(p)', FoundStands(p)', NoneFound(p)', BackupsCollected(p)'
  PROVE  ImportInv'
<1>1. tx' = [tx EXCEPT ![p] = tx[p]] /\ tx[p] \in Working
  BY Opened DEF ImportInv, Engaged
<1>2. Placed' /\ ForeignLocked'
  BY StandStill, StillNoForeign
<1> QED
  BY <1>1, <1>2, GoesOn

LEMMA CollectKeeps == ASSUME Hypotheses, ImportInv, NEW p \in Procs, CollectLeftovers(p) PROVE ImportInv'
<1> DEFINE t == tx[p]
<1>1. pc[p] = "collect" /\ Inside(p) /\ UNCHANGED <<whole, lock, tx, saving, cleared>>
  BY DEF CollectLeftovers, Inside, Before, outside
<1>2. /\ t.run \in Runs /\ Known(p) /\ FoundStands(p) /\ NoneFound(p)
  BY <1>1, Opened
<1>3. ASSUME NEW d \in Entries("prune", t.run), Move(d, Tombstone), UNCHANGED pc
      PROVE  ImportInv'
  <2>1. d \in Dirs /\ at[d].kind = "prune" /\ at[d] = Name("prune", t.run)
    BY <1>3 DEF Entries, Name
  <2>2. Placed' /\ at'[d] = Tombstone /\ \A e \in Dirs \ {d} : at'[e] = at[e]
    BY <1>1, <1>2, <1>3, <2>1, MovePlaced, NameTypes DEF ImportInv, Placed
  <2>3. ForeignLocked'
    BY <1>1, <1>2, <2>1, <2>2, StillNoForeign, NameTypes
  <2> QED
    BY <1>1, <1>3, <2>1, <2>2, <2>3, Beside
<1>4. CASE Goto(p, "stage") /\ UNCHANGED at
  <2>1. pc' = [pc EXCEPT ![p] = "stage"] /\ pc'[p] = "stage"
    BY <1>4 DEF Goto, ImportInv, Engaged
  <2>2. Known(p)'
    BY <1>1, <1>2, <1>4, <2>1 DEF Known
  <2>3. FoundStands(p)' /\ NoneFound(p)' /\ BackupsCollected(p)'
    BY <1>1, <1>2, <1>4, <2>1 DEF FoundStands, NoneFound, BackupsCollected
  <2> QED
    BY <1>1, <1>4, <2>1, <2>2, <2>3, JumpKeeps DEF Before
<1> QED
  BY <1>3, <1>4 DEF CollectLeftovers

LEMMA StageKeeps == ASSUME Hypotheses, ImportInv, NEW p \in Procs, StageCandidate(p) PROVE ImportInv'
<1> DEFINE t == tx[p]
           label == IF t.prior = None THEN "publish" ELSE "quarantine"
<1>1. PICK d \in Fresh :
        Move(d, Name("stage", t.run)) /\ whole' = whole \cup {d} /\ tx' = [tx EXCEPT ![p] = [t EXCEPT !.stage = d]]
  BY DEF StageCandidate, Note
<1> DEFINE u == [t EXCEPT !.stage = d]
<1>2. /\ pc[p] = "stage" /\ Inside(p) /\ pc' = [pc EXCEPT ![p] = label] /\ lock' = lock
      /\ UNCHANGED <<saving, cleared>>
  BY DEF StageCandidate, Goto, Inside, Before, outside
<1>3. /\ t \in Working /\ t.run \in Runs /\ Known(p) /\ FoundStands(p) /\ NoneFound(p)
      /\ t.found.candidate \in Some(Dirs) /\ t.prior \in Some(Dirs)
  BY <1>2, Opened
<1>4. d \in Dirs /\ at[d] = Unmade /\ d # None
  BY FreshIs DEF Hypotheses, DistinctNone
<1>5. /\ u \in Working /\ u.stage = d /\ u.run = t.run /\ u.prior = t.prior /\ u.backup = t.backup
      /\ u.pruned = t.pruned /\ u.found = t.found
  BY <1>3, <1>4, UpdateStage DEF Some
<1> HIDE DEF u
<1>6. pc'[p] = label /\ tx'[p] = u
  BY <1>1, <1>2, Updated DEF ImportInv, u
<1>7. "stage" \in Kinds \ {"candidate", "backup"}
  BY DEF Kinds
<1>8. /\ Placed' /\ at'[d] = Name("stage", t.run) /\ \A e \in Dirs \ {d} : at'[e] = at[e]
      /\ Name("stage", t.run) # C(t.run) /\ Name("stage", t.run).kind = "stage" /\ Name("stage", t.run) # Unmade
  <2>1. /\ Name("stage", t.run) \in Names /\ Name("stage", t.run) # Unmade
        /\ Name("stage", t.run).kind = "stage" /\ Name("stage", t.run) # C(t.run)
    BY <1>3, <1>7, NameTypes
  <2>2. saving' \subseteq Runs /\ cleared' \in Nat /\ Placed
    BY <1>2 DEF ImportInv, Placed
  <2> QED
    BY <1>1, <1>4, <2>1, <2>2, MovePlaced
<1>9. /\ t.found.candidate # None => t.prior = t.found.candidate /\ at[t.found.candidate] = C(t.run)
      /\ t.prior # None => at[t.prior] # Unmade
  BY <1>2, <1>3 DEF Known, FoundStands
<1>10. d # t.prior /\ d # t.found.candidate
  BY <1>3, <1>4, <1>9, NameTypes
<1>11. Known(p)'
  BY <1>1, <1>2, <1>3, <1>5, <1>6, <1>8, <1>10, <1>4 DEF Known, Some
<1>12. FoundStands(p)'
  BY <1>2, <1>3, <1>5, <1>6, <1>8, <1>9, <1>10 DEF FoundStands, Some
<1>13. NoneFound(p)'
  <2>1. whole \subseteq Dirs
    BY DEF ImportInv, Placed
  <2> QED
    BY <1>1, <1>2, <1>3, <1>5, <1>6, <1>8, <2>1 DEF NoneFound
<1>14. BackupsCollected(p)'
  BY <1>3, <1>5, <1>6 DEF BackupsCollected
<1>15. ForeignLocked'
  <2>1. \A e \in Dirs : at'[e] = at[e] \/ at'[e].kind # "recovery"
    BY <1>8
  <2> QED
    BY <1>2, <2>1, StillNoForeign
<1>16. label \in Before \cup Rollback
  BY DEF Before
<1> HIDE DEF label
<1> QED
  BY <1>1, <1>2, <1>5, <1>8, <1>11, <1>12, <1>13, <1>14, <1>15, <1>16, GoesOn DEF u

\* What a failed copy leaves is a stage's name or a tombstone.
LEMMA StagingFailsKeeps == ASSUME Hypotheses, ImportInv, NEW p \in Procs, StagingFails(p) PROVE ImportInv'
<1> DEFINE t == tx[p]
<1>1. PICK d \in Fresh, left \in {Tombstone, Name("stage", t.run)} : Move(d, left)
  BY DEF StagingFails
<1>2. /\ pc[p] = "stage" /\ Inside(p) /\ pc' = [pc EXCEPT ![p] = "reconcile"]
      /\ UNCHANGED <<whole, lock, tx, saving, cleared>>
  BY DEF StagingFails, Goto, Inside, Before, outside
<1>3. /\ t \in Working /\ t.run \in Runs /\ Known(p) /\ FoundStands(p) /\ NoneFound(p)
      /\ t.found.candidate \in Some(Dirs) /\ t.prior \in Some(Dirs)
  BY <1>2, Opened
<1>4. d \in Dirs /\ at[d] = Unmade
  BY FreshIs
<1>5. "stage" \in Kinds \ {"candidate", "backup"}
  BY DEF Kinds
<1>6. /\ left \in Names /\ left # Unmade /\ left.kind \notin {"candidate", "recovery"} /\ left # C(t.run)
  BY <1>3, <1>5, NameTypes
<1>7. Placed' /\ at'[d] = left /\ \A e \in Dirs \ {d} : at'[e] = at[e]
  BY <1>1, <1>2, <1>4, <1>6, MovePlaced DEF ImportInv, Placed
<1>8. tx' = [tx EXCEPT ![p] = t] /\ pc'[p] = "reconcile" /\ tx'[p] = t
  BY <1>2 DEF ImportInv, Engaged
<1>9. /\ t.found.candidate # None => t.prior = t.found.candidate /\ at[t.found.candidate] = C(t.run)
      /\ t.prior # None => at[t.prior] # Unmade
      /\ d \notin whole
  BY <1>2, <1>3, <1>4 DEF Known, FoundStands, ImportInv, Placed
<1>10. Known(p)'
  BY <1>2, <1>3, <1>4, <1>6, <1>7, <1>8 DEF Known, Some
<1>11. FoundStands(p)'
  BY <1>3, <1>4, <1>7, <1>8, <1>9, NameTypes DEF FoundStands, Some
<1>12. NoneFound(p)'
  BY <1>2, <1>3, <1>4, <1>7, <1>8, <1>9 DEF NoneFound, ImportInv, Placed
<1>13. BackupsCollected(p)'
  BY <1>8 DEF BackupsCollected
<1>14. ForeignLocked'
  BY <1>2, <1>6, <1>7, StillNoForeign
<1> QED
  BY <1>2, <1>3, <1>7, <1>8, <1>10, <1>11, <1>12, <1>13, <1>14, GoesOn DEF Rollback

LEMMA StepFailsKeeps == ASSUME Hypotheses, ImportInv, NEW p \in Procs, StepFails(p) PROVE ImportInv'
<1> DEFINE t == tx[p]
<1>1. /\ pc[p] \in Before /\ Inside(p) /\ pc' = [pc EXCEPT ![p] = "reconcile"] /\ pc'[p] = "reconcile"
      /\ UNCHANGED <<at, whole, lock, tx, saving, cleared>>
  BY DEF StepFails, Goto, Inside, outside, ImportInv, Engaged
<1>2. /\ Known(p) /\ FoundStands(p) /\ NoneFound(p) /\ t.found.candidate \in Some(Dirs)
  BY <1>1, Opened
<1>3. Known(p)'
  BY <1>1, <1>2 DEF Known
<1>4. FoundStands(p)'
  BY <1>1, <1>2 DEF FoundStands, Known, Before
<1>5. NoneFound(p)'
  BY <1>1, <1>2 DEF NoneFound, Before
<1>6. BackupsCollected(p)'
  BY <1>1 DEF BackupsCollected
<1>7. pc[p] # "surrender"
  BY <1>1 DEF Before
<1> QED
  BY <1>1, <1>3, <1>4, <1>5, <1>6, <1>7, JumpKeeps DEF Rollback

\* What is quarantined is neither the candidate that was found nor unmade.
LEMMA StaleBackupIs ==
  ASSUME Hypotheses, Placed, NEW r \in Runs, NEW d \in StaleBackups(r)
  PROVE  d \in Dirs /\ at[d] # Unmade /\ at[d] # C(r) /\ at[d].kind # "candidate" /\ at[d] \in Names
<1>1. d \in Dirs /\ at[d] \in Names
  BY DEF StaleBackups, Placed
<1>2. CASE at[d] = Name("backup", r)
  BY <1>1, <1>2, NameTypes DEF B
<1>3. CASE at[d].kind \in Kinds \ {"candidate"}
  BY <1>1, <1>3, NameTypes DEF Kinds
<1> QED
  BY <1>1, <1>2, <1>3 DEF StaleBackups

LEMMA QuarantineKeeps == ASSUME Hypotheses, ImportInv, NEW p \in Procs, QuarantineBackup(p) PROVE ImportInv'
<1> DEFINE t == tx[p]
<1>1. /\ pc[p] = "quarantine" /\ Inside(p) /\ lock' = lock /\ UNCHANGED <<whole, saving, cleared>>
  BY DEF QuarantineBackup, Inside, Before, outside
<1>2. /\ t \in Working /\ t.run \in Runs /\ Known(p) /\ FoundStands(p) /\ NoneFound(p)
      /\ t.found.candidate \in Some(Dirs) /\ t.prior \in Some(Dirs) /\ t.stage \in Some(Dirs)
      /\ Len(t.pruned) \in Nat
  BY <1>1, Opened
<1>3. t.found.candidate # None => t.prior = t.found.candidate /\ at[t.found.candidate] = C(t.run)
  BY <1>1, <1>2 DEF Known, FoundStands
<1>4. "prune" \in Kinds \ {"candidate", "backup"}
  BY DEF Kinds
<1>5. ASSUME NEW d \in StaleBackups(t.run), Move(d, Name("prune", t.run))
      PROVE  /\ d \in Dirs /\ d # t.found.candidate /\ at[d].kind # "candidate" /\ at[d] # Unmade /\ at[d] \in Names
             /\ cleared = 0 => at[d].kind # "recovery"
             /\ Placed' /\ ForeignLocked' /\ at'[d] = Name("prune", t.run)
             /\ Name("prune", t.run) \notin {C(t.run), B(t.run), Unmade}
             /\ \A e \in Dirs \ {d} : at'[e] = at[e]
             /\ \A e \in Dirs : at[e] # Unmade => at'[e] # Unmade
  <2>1. d \in Dirs /\ at[d] # Unmade /\ at[d] # C(t.run) /\ at[d].kind # "candidate" /\ at[d] \in Names
    BY <1>2, <1>5, StaleBackupIs DEF ImportInv
  <2>2. /\ Name("prune", t.run) \in Names /\ Name("prune", t.run).kind = "prune"
        /\ Name("prune", t.run) \notin {C(t.run), B(t.run), Unmade}
    BY <1>2, <1>4, NameTypes
  <2>3. Placed' /\ at'[d] = Name("prune", t.run) /\ \A e \in Dirs \ {d} : at'[e] = at[e]
    BY <1>1, <1>5, <2>1, <2>2, MovePlaced DEF ImportInv, Placed
  <2>4. ForeignLocked'
    BY <1>1, <2>2, <2>3, StillNoForeign
  <2>5. cleared = 0 => at[d].kind # "recovery"
    BY <1>1, <2>1, NoForeign
  <2> QED
    BY <1>3, <2>1, <2>2, <2>3, <2>4, <2>5 DEF Hypotheses, DistinctNone
<1>6. ASSUME NEW d \in StaleBackups(t.run), Move(d, Name("prune", t.run)), UNCHANGED pc,
             Note(p, [t EXCEPT !.pruned = Append(@, [dir |-> d, from |-> at[d]])])
      PROVE  ImportInv'
  <2> DEFINE entry == [dir |-> d, from |-> at[d]]
             s == Append(t.pruned, entry)
             u == [t EXCEPT !.pruned = s]
  <2>1. t.pruned \in Seq([dir: Dirs, from: Names]) /\ entry \in [dir: Dirs, from: Names]
    BY <1>2, <1>5, <1>6 DEF Working, Txs
  <2>2. /\ s \in Seq([dir: Dirs, from: Names]) /\ Len(s) = Len(t.pruned) + 1
        /\ \A i \in 1..Len(t.pruned) : s[i] = t.pruned[i]
        /\ s[Len(t.pruned) + 1] = entry
    BY <2>1
  <2>3. tx' = [tx EXCEPT ![p] = u]
    BY <1>6 DEF Note
  <2> HIDE DEF s
  <2>4. /\ u \in Working /\ u.pruned = s /\ u.run = t.run /\ u.prior = t.prior /\ u.stage = t.stage
        /\ u.backup = t.backup /\ u.found = t.found
    BY <1>2, <2>2, UpdatePruned
  <2> HIDE DEF u
  <2>5. pc' = [pc EXCEPT ![p] = "quarantine"] /\ pc'[p] = "quarantine" /\ tx'[p] = u
    BY <1>1, <1>6, <2>3 DEF ImportInv, Engaged
  <2>6. ASSUME NEW i \in 1..Len(s)
        PROVE  /\ s[i].dir # t.found.candidate /\ s[i].from.kind # "candidate" /\ s[i].from # Unmade
               /\ cleared = 0 => s[i].from.kind # "recovery"
    <3>1. CASE i \in 1..Len(t.pruned)
      BY <1>2, <2>2, <3>1 DEF Known
    <3>2. CASE i = Len(t.pruned) + 1
      <4>1. s[i].dir = d /\ s[i].from = at[d]
        BY <2>2, <3>2
      <4> QED
        BY <1>5, <1>6, <4>1
    <3> QED
      BY <1>2, <2>2, <3>1, <3>2
  <2>7. Known(p)'
    BY <1>1, <1>2, <1>5, <1>6, <2>4, <2>5, <2>6 DEF Known, Some
  <2>8. FoundStands(p)'
    BY <1>2, <1>3, <1>5, <1>6, <2>4, <2>5 DEF FoundStands, Some
  <2>9. NoneFound(p)'
    BY <1>1, <1>2, <1>5, <1>6, <2>4, <2>5 DEF NoneFound, ImportInv, Placed
  <2>10. BackupsCollected(p)'
    BY <2>5 DEF BackupsCollected
  <2> QED
    BY <1>1, <1>5, <1>6, <2>3, <2>4, <2>5, <2>7, <2>8, <2>9, <2>10, GoesOn DEF Before
<1>7. ASSUME NEW d \in StaleBackups(t.run), Move(d, Name("prune", t.run)), Goto(p, "reconcile"), UNCHANGED tx
      PROVE  ImportInv'
  <2>1. /\ pc' = [pc EXCEPT ![p] = "reconcile"] /\ pc'[p] = "reconcile" /\ tx'[p] = t
        /\ tx' = [tx EXCEPT ![p] = t]
    BY <1>7 DEF Goto, ImportInv, Engaged
  <2>2. Known(p)'
    BY <1>1, <1>2, <1>5, <1>7, <2>1 DEF Known, Some
  <2>3. FoundStands(p)'
    BY <1>2, <1>3, <1>5, <1>7, <2>1 DEF FoundStands, Some
  <2>4. NoneFound(p)'
    BY <1>1, <1>2, <1>5, <1>7, <2>1 DEF NoneFound, ImportInv, Placed
  <2>5. BackupsCollected(p)'
    BY <2>1 DEF BackupsCollected
  <2> QED
    BY <1>1, <1>2, <1>5, <1>7, <2>1, <2>2, <2>3, <2>4, <2>5, GoesOn DEF Rollback
<1>8. CASE StaleBackups(t.run) = {} /\ Goto(p, "backup") /\ UNCHANGED <<at, tx>>
  <2>1. pc' = [pc EXCEPT ![p] = "backup"] /\ pc'[p] = "backup"
    BY <1>8 DEF Goto, ImportInv, Engaged
  <2>2. Known(p)'
    BY <1>1, <1>2, <1>8, <2>1 DEF Known
  <2>3. FoundStands(p)' /\ NoneFound(p)'
    BY <1>1, <1>2, <1>3, <1>8, <2>1 DEF FoundStands, NoneFound
  <2>4. BackupsCollected(p)'
    BY <1>8, <2>1 DEF BackupsCollected, StaleBackups, B
  <2> QED
    BY <1>1, <1>8, <2>1, <2>2, <2>3, <2>4, JumpKeeps DEF Before
<1> QED
  BY <1>6, <1>7, <1>8 DEF QuarantineBackup

LEMMA MoveAsideKeeps == ASSUME Hypotheses, ImportInv, NEW p \in Procs, MoveAside(p) PROVE ImportInv'
<1> DEFINE t == tx[p]
<1>1. /\ pc[p] = "backup" /\ Inside(p) /\ lock' = lock /\ UNCHANGED <<whole, saving, cleared>>
      /\ Occupant(t.run) = t.prior /\ Move(t.prior, B(t.run))
  BY DEF MoveAside, Inside, Before, outside, B
<1>2. /\ t \in Working /\ t.run \in Runs /\ Known(p) /\ FoundStands(p) /\ NoneFound(p) /\ BackupsCollected(p)
      /\ t.found.candidate \in Some(Dirs) /\ t.prior \in Some(Dirs)
  BY <1>1, Opened
<1>3. t.prior # None /\ t.prior \in Dirs /\ at[t.prior] = C(t.run)
  BY <1>1, <1>2, OccupantIs DEF Known, ImportInv, Hypotheses, Some
<1>4. t.found.candidate # None => t.prior = t.found.candidate
  BY <1>1, <1>2 DEF Known
<1>5. /\ C(t.run) # B(t.run) /\ B(t.run) # Unmade /\ B(t.run) \in Names /\ B(t.run).kind = "backup"
  BY <1>2, NameTypes
<1>6. Placed' /\ at'[t.prior] = B(t.run) /\ \A e \in Dirs \ {t.prior} : at'[e] = at[e]
  BY <1>1, <1>3, <1>5, MovePlaced DEF ImportInv, Placed
<1>7. ForeignLocked'
  BY <1>1, <1>5, <1>6, StillNoForeign
<1>8. /\ \A e \in whole : at'[e] # C(t.run) \/ t.found.candidate # None
      /\ \A e \in Dirs : at'[e] = B(t.run) <=> e = t.prior
  BY <1>1, <1>2, <1>5, <1>6 DEF NoneFound, BackupsCollected, ImportInv, Placed
<1>9. CASE Note(p, [t EXCEPT !.backup = t.prior]) /\ Goto(p, "publish")
  <2> DEFINE u == [t EXCEPT !.backup = t.prior]
  <2>1. /\ u \in Working /\ u.backup = t.prior /\ u.run = t.run /\ u.prior = t.prior /\ u.stage = t.stage
        /\ u.pruned = t.pruned /\ u.found = t.found
    BY <1>2, UpdateBackup
  <2>2. pc' = [pc EXCEPT ![p] = "publish"] /\ tx' = [tx EXCEPT ![p] = u]
    BY <1>9 DEF Note, Goto
  <2> HIDE DEF u
  <2>3. pc'[p] = "publish" /\ tx'[p] = u
    BY <2>2, Updated DEF ImportInv
  <2>4. Known(p)'
    BY <1>1, <1>2, <1>3, <1>4, <1>5, <1>6, <2>1, <2>3 DEF Known
  <2>5. FoundStands(p)' /\ NoneFound(p)' /\ BackupsCollected(p)'
    BY <1>1, <1>4, <1>6, <1>8, <2>1, <2>3 DEF FoundStands, NoneFound, BackupsCollected
  <2> QED
    BY <1>1, <1>6, <1>7, <2>1, <2>2, <2>4, <2>5, GoesOn DEF Before
<1>10. CASE Goto(p, "reconcile") /\ UNCHANGED tx
  <2>1. /\ pc' = [pc EXCEPT ![p] = "reconcile"] /\ pc'[p] = "reconcile" /\ tx'[p] = t
        /\ tx' = [tx EXCEPT ![p] = t]
    BY <1>10 DEF Goto, ImportInv, Engaged
  <2>2. Known(p)'
    BY <1>1, <1>2, <1>3, <1>4, <1>5, <1>6, <2>1 DEF Known
  <2>3. FoundStands(p)' /\ NoneFound(p)' /\ BackupsCollected(p)'
    BY <1>1, <1>4, <1>6, <1>8, <2>1 DEF FoundStands, NoneFound, BackupsCollected
  <2> QED
    BY <1>1, <1>2, <1>6, <1>7, <2>1, <2>2, <2>3, GoesOn DEF Rollback
<1> QED
  BY <1>9, <1>10 DEF MoveAside

LEMMA PublishKeeps == ASSUME Hypotheses, ImportInv, NEW p \in Procs, PublishStage(p) PROVE ImportInv'
<1> DEFINE t == tx[p]
<1>1. /\ pc[p] = "publish" /\ Inside(p) /\ UNCHANGED <<whole, lock, tx, saving, cleared>>
      /\ Occupant(t.run) = None /\ Move(t.stage, C(t.run))
  BY DEF PublishStage, Inside, Before, outside, C
<1>2. /\ t \in Working /\ t.run \in Runs /\ Known(p) /\ FoundStands(p) /\ NoneFound(p) /\ BackupsCollected(p)
      /\ t.found.candidate \in Some(Dirs) /\ t.prior \in Some(Dirs) /\ t.stage \in Some(Dirs)
  BY <1>1, Opened
<1>3. t.stage \in Dirs /\ \A e \in Dirs : at[e] # C(t.run)
  BY <1>1, <1>2, OccupantIs DEF Known, ImportInv, Hypotheses, Some
<1>4. t.found.candidate # None => t.prior = t.found.candidate
  BY <1>1, <1>2 DEF Known
<1>5. /\ C(t.run) # B(t.run) /\ C(t.run) # Unmade /\ C(t.run) \in Names /\ C(t.run).kind = "candidate"
  BY <1>2, NameTypes
<1>6. Placed' /\ at'[t.stage] = C(t.run) /\ \A e \in Dirs \ {t.stage} : at'[e] = at[e]
  BY <1>1, <1>3, <1>5, MovePlaced DEF ImportInv, Placed
<1>7. ForeignLocked'
  BY <1>1, <1>5, <1>6, StillNoForeign
<1>8. PICK label \in {"close", "reconcile"} : pc' = [pc EXCEPT ![p] = label]
  BY DEF PublishStage, Goto
<1>9. pc'[p] = label /\ tx'[p] = t /\ tx' = [tx EXCEPT ![p] = t]
  BY <1>1, <1>8 DEF ImportInv, Engaged
<1>10. Known(p)'
  BY <1>1, <1>2, <1>4, <1>5, <1>6, <1>9 DEF Known, Some
<1>11. FoundStands(p)'
  BY <1>1, <1>2, <1>4, <1>6, <1>9 DEF FoundStands, Known, Some
<1>12. NoneFound(p)'
  BY <1>1, <1>2, <1>3, <1>6, <1>9 DEF NoneFound, ImportInv, Placed
<1>13. BackupsCollected(p)'
  BY <1>1, <1>2, <1>5, <1>6, <1>9 DEF BackupsCollected, Known
<1> QED
  BY <1>1, <1>2, <1>6, <1>7, <1>8, <1>9, <1>10, <1>11, <1>12, <1>13, GoesOn DEF Before, Rollback

LEMMA CloseKeeps == ASSUME Hypotheses, ImportInv, NEW p \in Procs, Close(p) PROVE ImportInv'
<1>1. /\ pc[p] = "close" /\ Inside(p) /\ pc' = [pc EXCEPT ![p] = "cleanup"] /\ lock' = "free"
      /\ UNCHANGED <<at, whole, tx, saving, cleared>>
  BY DEF Close, Goto, Inside, Before
<1>2. tx' = [tx EXCEPT ![p] = tx[p]] /\ tx[p] \in Working
  BY <1>1, Opened DEF ImportInv, Engaged
<1>3. Placed' /\ ForeignLocked'
  BY <1>1, StandStill, StillNoForeign
<1> QED
  BY <1>1, <1>2, <1>3, GoesOut

-----------------------------------------------------------------------------
(* The failure.                                                            *)

LEMMA ReconcileKeeps == ASSUME Hypotheses, ImportInv, NEW p \in Procs, Reconcile(p) PROVE ImportInv'
<1> DEFINE t == tx[p]
           moved == t.prior # None /\ at[t.prior] = B(t.run)
           backup == IF moved THEN t.prior ELSE None
           u == [t EXCEPT !.backup = backup]
<1>1. /\ pc[p] = "reconcile" /\ Inside(p) /\ lock' = lock /\ UNCHANGED <<at, whole, saving, cleared>>
      /\ pc' = [pc EXCEPT ![p] = "undo"] /\ tx' = [tx EXCEPT ![p] = u]
  BY DEF Reconcile, Goto, Note, Inside, Rollback, outside, B
<1>2. /\ t \in Working /\ t.run \in Runs /\ Known(p) /\ FoundStands(p) /\ NoneFound(p)
      /\ t.found.candidate \in Some(Dirs) /\ t.prior \in Some(Dirs)
  BY <1>1, Opened
<1>3. backup \in Some(Dirs) /\ backup \in {None, t.prior} /\ (backup # None <=> moved)
  BY <1>2 DEF Some
<1>4. /\ u \in Working /\ u.backup = backup /\ u.run = t.run /\ u.prior = t.prior /\ u.stage = t.stage
      /\ u.pruned = t.pruned /\ u.found = t.found
  BY <1>2, <1>3, UpdateBackup
<1> HIDE DEF u
<1>5. pc'[p] = "undo" /\ tx'[p] = u
  BY <1>1, Updated DEF ImportInv
<1>6. Known(p)'
  BY <1>1, <1>2, <1>3, <1>4, <1>5 DEF Known
<1>7. ASSUME t.found.candidate # None
      PROVE  LET d == t.found.candidate IN
             \/ at[d] = C(t.run) /\ backup = None
             \/ at[d] = B(t.run) /\ backup = d
  <2>1. t.prior # None => t.prior = t.found.candidate
    BY <1>2, <1>7 DEF Known
  <2>2. \/ at[t.found.candidate] = C(t.run)
        \/ at[t.found.candidate] = B(t.run) /\ t.prior = t.found.candidate
    BY <1>1, <1>2, <1>7 DEF FoundStands
  <2>3. C(t.run) # B(t.run)
    BY <1>2, NameTypes
  <2> QED
    BY <1>7, <2>1, <2>2, <2>3
<1>8. FoundStands(p)'
  BY <1>1, <1>4, <1>5, <1>7 DEF FoundStands
<1>9. NoneFound(p)' /\ BackupsCollected(p)'
  BY <1>1, <1>2, <1>4, <1>5 DEF NoneFound, BackupsCollected
<1>10. Placed' /\ ForeignLocked'
  BY <1>1, StandStill, StillNoForeign
<1> QED
  BY <1>1, <1>4, <1>6, <1>8, <1>9, <1>10, GoesOn DEF Rollback

LEMMA UndoKeeps == ASSUME Hypotheses, ImportInv, NEW p \in Procs, UndoPublication(p) PROVE ImportInv'
<1> DEFINE t == tx[p]
<1>1. /\ pc[p] = "undo" /\ Inside(p) /\ UNCHANGED <<whole, lock, tx, saving, cleared>>
  BY DEF UndoPublication, Inside, Rollback, outside
<1>2. /\ t \in Working /\ t.run \in Runs /\ Known(p) /\ FoundStands(p) /\ NoneFound(p)
      /\ t.found.candidate \in Some(Dirs) /\ t.prior \in Some(Dirs) /\ t.stage \in Some(Dirs)
  BY <1>1, Opened
<1>3. whole \subseteq Dirs /\ None \notin Dirs
  BY DEF ImportInv, Placed, Hypotheses, DistinctNone
<1>4. CASE t.stage = None /\ Goto(p, "putback") /\ UNCHANGED at
  <2>1. pc' = [pc EXCEPT ![p] = "putback"] /\ pc'[p] = "putback" /\ tx'[p] = t
    BY <1>1, <1>4 DEF Goto, ImportInv, Engaged
  <2>2. Known(p)' /\ FoundStands(p)' /\ BackupsCollected(p)'
    BY <1>1, <1>2, <1>4, <2>1 DEF Known, FoundStands, BackupsCollected
  <2>3. NoneFound(p)'
    BY <1>1, <1>2, <1>3, <1>4, <2>1 DEF NoneFound
  <2> QED
    BY <1>1, <1>4, <2>1, <2>2, <2>3, JumpKeeps DEF Rollback
<1>5. CASE t.stage # None /\ Move(t.stage, Tombstone) /\ Goto(p, "putback")
  <2>1. /\ pc' = [pc EXCEPT ![p] = "putback"] /\ pc'[p] = "putback" /\ tx'[p] = t
        /\ tx' = [tx EXCEPT ![p] = t]
    BY <1>1, <1>5 DEF Goto, ImportInv, Engaged
  <2>2. t.stage \in Dirs
    BY <1>2, <1>5 DEF Some
  <2>3. /\ Tombstone \in Names /\ Tombstone # Unmade /\ Tombstone.kind = "tombstone" /\ C(t.run) # Tombstone
    BY <1>2, NameTypes
  <2>4. Placed' /\ at'[t.stage] = Tombstone /\ \A e \in Dirs \ {t.stage} : at'[e] = at[e]
    BY <1>1, <1>5, <2>2, <2>3, MovePlaced DEF ImportInv, Placed
  <2>5. Known(p)'
    BY <1>1, <1>2, <1>5, <2>1, <2>3, <2>4 DEF Known, Some
  <2>6. FoundStands(p)'
    BY <1>1, <1>2, <1>5, <2>1, <2>4 DEF FoundStands, Known, Some
  <2>7. NoneFound(p)' /\ BackupsCollected(p)'
    BY <1>1, <1>2, <1>3, <2>1, <2>3, <2>4 DEF NoneFound, BackupsCollected
  <2>8. ForeignLocked'
    BY <1>1, <2>3, <2>4, StillNoForeign
  <2> QED
    BY <1>1, <1>2, <2>1, <2>4, <2>5, <2>6, <2>7, <2>8, GoesOn DEF Rollback
<1>6. CASE /\ t.stage # None /\ Occupant(t.run) \notin {None, t.prior, t.stage}
           /\ Move(Occupant(t.run), Name("recovery", t.run)) /\ Goto(p, "surrender")
  <2>1. /\ pc' = [pc EXCEPT ![p] = "surrender"] /\ pc'[p] = "surrender" /\ tx'[p] = t
        /\ tx' = [tx EXCEPT ![p] = t]
    BY <1>1, <1>6 DEF Goto, ImportInv, Engaged
  <2>2. PICK x \in Dirs : /\ x = Occupant(t.run) /\ at[x] = C(t.run) /\ x \notin {t.prior, t.stage}
                          /\ \A e \in Dirs : at[e] = C(t.run) => e = x
    BY <1>2, <1>6, OccupantIs DEF ImportInv, Hypotheses
  <2>3. "recovery" \in Kinds \ {"candidate", "backup"}
    BY DEF Kinds
  <2>4. /\ Name("recovery", t.run) \in Names /\ Name("recovery", t.run) # Unmade
        /\ Name("recovery", t.run).kind = "recovery" /\ Name("recovery", t.run) # C(t.run)
        /\ C(t.run) # B(t.run)
    BY <1>2, <2>3, NameTypes
  <2>5. Placed' /\ at'[x] = Name("recovery", t.run) /\ \A e \in Dirs \ {x} : at'[e] = at[e]
    BY <1>1, <1>6, <2>2, <2>4, MovePlaced DEF ImportInv, Placed
  <2>6. Known(p)'
    BY <1>1, <1>2, <2>1, <2>2, <2>5 DEF Known, Some
  <2>7. ASSUME t.found.candidate # None
        PROVE  /\ at'[t.found.candidate] = B(t.run) /\ t.backup = t.found.candidate
    <3>1. t.prior = t.found.candidate /\ t.found.candidate \in Dirs
      BY <1>2, <1>6, <2>7 DEF Known, Some
    <3>2. at[t.found.candidate] # C(t.run)
      BY <2>2, <3>1
    <3> QED
      BY <1>1, <1>2, <2>2, <2>4, <2>5, <2>7, <3>1, <3>2 DEF FoundStands
  <2>8. FoundStands(p)'
    BY <2>1, <2>7 DEF FoundStands
  <2>9. NoneFound(p)' /\ BackupsCollected(p)'
    BY <1>1, <1>3, <2>1, <2>2, <2>4, <2>5 DEF NoneFound, BackupsCollected
  <2>10. ForeignLocked'
    BY <2>1 DEF ForeignLocked
  <2> QED
    BY <1>1, <1>2, <2>1, <2>5, <2>6, <2>8, <2>9, <2>10, GoesOn DEF Rollback
<1> QED
  BY <1>4, <1>5, <1>6 DEF UndoPublication

LEMMA PutBackKeeps == ASSUME Hypotheses, ImportInv, NEW p \in Procs, PutBack(p) PROVE ImportInv'
<1> DEFINE t == tx[p]
<1>1. /\ pc[p] = "putback" /\ Inside(p) /\ UNCHANGED <<whole, lock, tx, saving, cleared>>
      /\ pc' = [pc EXCEPT ![p] = "restore"] /\ pc'[p] = "restore" /\ tx'[p] = t
      /\ tx' = [tx EXCEPT ![p] = t]
  BY DEF PutBack, Goto, Inside, Rollback, outside, ImportInv, Engaged
<1>2. /\ t \in Working /\ t.run \in Runs /\ Known(p) /\ FoundStands(p) /\ NoneFound(p)
      /\ t.found.candidate \in Some(Dirs) /\ t.prior \in Some(Dirs) /\ t.backup \in Some(Dirs)
  BY <1>1, Opened
<1>3. CASE t.backup = None /\ UNCHANGED at
  <2>1. Known(p)' /\ FoundStands(p)' /\ NoneFound(p)' /\ BackupsCollected(p)'
    BY <1>1, <1>2, <1>3 DEF Known, FoundStands, NoneFound, BackupsCollected
  <2> QED
    BY <1>1, <1>3, <2>1, JumpKeeps DEF Rollback
<1>4. CASE t.backup # None /\ Occupant(t.run) = None /\ Move(t.backup, C(t.run))
  <2>1. t.backup \in Dirs /\ t.backup = t.prior /\ \A e \in Dirs : at[e] # C(t.run)
    BY <1>2, <1>4, OccupantIs DEF Known, Some, ImportInv, Hypotheses
  <2>2. /\ C(t.run) # Unmade /\ C(t.run) \in Names /\ C(t.run).kind = "candidate"
    BY <1>2, NameTypes
  <2>3. Placed' /\ at'[t.backup] = C(t.run) /\ \A e \in Dirs \ {t.backup} : at'[e] = at[e]
    BY <1>1, <1>4, <2>1, <2>2, MovePlaced DEF ImportInv, Placed
  <2>4. Known(p)'
    BY <1>1, <1>2, <2>1, <2>2, <2>3 DEF Known, Some
  <2>5. FoundStands(p)'
    BY <1>1, <1>2, <2>1, <2>3 DEF FoundStands, Some
  <2>6. NoneFound(p)'
    BY <1>1, <1>2, <1>4, <2>1, <2>3 DEF NoneFound, Known, ImportInv, Placed
  <2>7. BackupsCollected(p)'
    BY <1>1 DEF BackupsCollected
  <2>8. ForeignLocked'
    BY <1>1, <2>2, <2>3, StillNoForeign
  <2> QED
    BY <1>1, <1>2, <2>3, <2>4, <2>5, <2>6, <2>7, <2>8, GoesOn DEF Rollback
<1> QED
  BY <1>3, <1>4 DEF PutBack, C

LEMMA RestoreKeeps == ASSUME Hypotheses, ImportInv, NEW p \in Procs, RestoreBackup(p) PROVE ImportInv'
<1> DEFINE t == tx[p]
           n == Len(t.pruned)
<1>1. /\ pc[p] = "restore" /\ Inside(p) /\ UNCHANGED <<whole, lock, saving, cleared>>
  BY DEF RestoreBackup, Inside, Rollback, outside
<1>2. /\ t \in Working /\ t.run \in Runs /\ Known(p) /\ FoundStands(p) /\ NoneFound(p)
      /\ t.found.candidate \in Some(Dirs) /\ n \in Nat
      /\ \A i \in 1..n : t.pruned[i].dir \in Dirs /\ t.pruned[i].from \in Names
  BY <1>1, Opened
<1>3. \A i \in 1..n :
        /\ t.pruned[i].dir # t.found.candidate
        /\ t.pruned[i].from.kind # "candidate" /\ t.pruned[i].from # Unmade
        /\ cleared = 0 => t.pruned[i].from.kind # "recovery"
  BY <1>2 DEF Known
<1>4. CASE /\ n > 0 /\ Move(t.pruned[n].dir, t.pruned[n].from) /\ UNCHANGED pc
           /\ Note(p, [t EXCEPT !.pruned = SubSeq(@, 1, n - 1)])
  <2> DEFINE s == SubSeq(t.pruned, 1, n - 1)
             u == [t EXCEPT !.pruned = s]
  <2>1. PICK d \in Dirs, from \in Names :
          /\ d = t.pruned[n].dir /\ from = t.pruned[n].from
          /\ d # t.found.candidate /\ from.kind # "candidate" /\ from # Unmade
          /\ cleared = 0 => from.kind # "recovery"
    BY <1>2, <1>3, <1>4
  <2>2. /\ s \in Seq([dir: Dirs, from: Names]) /\ Len(s) = n - 1
        /\ \A i \in 1..(n - 1) : s[i] = t.pruned[i]
    <3>1. t.pruned \in Seq([dir: Dirs, from: Names])
      BY <1>2 DEF Working, Txs
    <3> QED
      BY <1>4, <3>1, SeqPrefix
  <2>3. tx' = [tx EXCEPT ![p] = u]
    BY <1>4 DEF Note
  <2> HIDE DEF s
  <2>4. /\ u \in Working /\ u.pruned = s /\ u.run = t.run /\ u.prior = t.prior /\ u.stage = t.stage
        /\ u.backup = t.backup /\ u.found = t.found
    BY <1>2, <2>2, UpdatePruned
  <2> HIDE DEF u
  <2>5. pc' = [pc EXCEPT ![p] = "restore"] /\ pc'[p] = "restore" /\ tx'[p] = u
    BY <1>1, <1>4, <2>3 DEF ImportInv, Engaged
  <2>6. Placed' /\ at'[d] = from /\ \A e \in Dirs \ {d} : at'[e] = at[e]
    <3>1. Placed /\ saving' \subseteq Runs /\ cleared' \in Nat
      BY <1>1 DEF ImportInv, Placed
    <3>2. Move(d, from)
      BY <1>4, <2>1
    <3> QED
      BY <1>1, <2>1, <3>1, <3>2, MovePlaced
  <2>7. from # C(t.run)
    BY <1>2, <2>1, NameTypes
  <2>8. \A i \in 1..Len(s) :
          /\ s[i].dir # t.found.candidate /\ s[i].from.kind # "candidate" /\ s[i].from # Unmade
          /\ cleared = 0 => s[i].from.kind # "recovery"
    BY <1>2, <1>3, <2>2
  <2>9. Known(p)'
    <3>1. u.prior # None => at'[u.prior] # Unmade
      <4>1. u.prior # None => u.prior \in Dirs /\ at[u.prior] # Unmade
        BY <1>1, <1>2, <2>4, Opened DEF Known, Some
      <4> QED
        BY <2>1, <2>6, <4>1
    <3> QED
      BY <1>1, <1>2, <2>4, <2>5, <2>8, <3>1 DEF Known
  <2>10. FoundStands(p)'
    BY <1>1, <1>2, <2>1, <2>4, <2>5, <2>6 DEF FoundStands, Some
  <2>11. NoneFound(p)'
    BY <1>1, <1>2, <2>4, <2>5, <2>6, <2>7 DEF NoneFound, ImportInv, Placed
  <2>12. BackupsCollected(p)'
    BY <2>5 DEF BackupsCollected
  <2>13. ForeignLocked'
    <3>1. CASE cleared = 0
      BY <1>1, <2>1, <2>6, <3>1, StillNoForeign
    <3>2. CASE cleared # 0
      BY <1>1, <3>2 DEF ForeignLocked
    <3> QED
      BY <3>1, <3>2
  <2> QED
    BY <1>1, <2>3, <2>4, <2>5, <2>6, <2>9, <2>10, <2>11, <2>12, <2>13, GoesOn DEF Rollback
<1>5. CASE Goto(p, "release") /\ UNCHANGED <<at, tx>>
  <2>1. pc' = [pc EXCEPT ![p] = "release"] /\ pc'[p] = "release"
    BY <1>5 DEF Goto, ImportInv, Engaged
  <2>2. Known(p)' /\ FoundStands(p)' /\ NoneFound(p)' /\ BackupsCollected(p)'
    BY <1>1, <1>2, <1>5, <2>1 DEF Known, FoundStands, NoneFound, BackupsCollected
  <2> QED
    BY <1>1, <1>5, <2>1, <2>2, JumpKeeps DEF Rollback
<1> QED
  BY <1>4, <1>5 DEF RestoreBackup

LEMMA SurrenderKeeps == ASSUME Hypotheses, ImportInv, NEW p \in Procs, Surrender(p) PROVE ImportInv'
<1> DEFINE t == tx[p]
<1>1. /\ pc[p] = "surrender" /\ Inside(p) /\ lock' = "stale" /\ UNCHANGED <<whole, saving, cleared>>
      /\ pc' = [pc EXCEPT ![p] = "idle"] /\ tx' = [tx EXCEPT ![p] = Idle]
  BY DEF Surrender, Stop, Goto, Note, Inside, Rollback, outside
<1>2. t.run \in Runs /\ t.backup \in Some(Dirs)
  BY <1>1, Opened
<1>3. Placed'
  <2>1. CASE t.backup # None /\ Occupant(t.run) = None
    <3>1. t.backup \in Dirs /\ Move(t.backup, C(t.run)) /\ \A e \in Dirs : at[e] # C(t.run)
      BY <1>2, <2>1, OccupantIs DEF Surrender, C, Some, ImportInv, Hypotheses
    <3>2. C(t.run) # Unmade /\ C(t.run) \in Names
      BY <1>2, NameTypes
    <3> QED
      BY <1>1, <3>1, <3>2, MovePlaced DEF ImportInv, Placed
  <2>2. CASE ~(t.backup # None /\ Occupant(t.run) = None)
    <3>1. UNCHANGED at
      BY <2>2 DEF Surrender
    <3> QED
      BY <1>1, <3>1, StandStill
  <2> QED
    BY <2>1, <2>2
<1>4. ForeignLocked'
  BY <1>1 DEF ForeignLocked
<1> QED
  BY <1>1, <1>3, <1>4, GoesOut

LEMMA ReleaseKeeps == ASSUME Hypotheses, ImportInv, NEW p \in Procs, Release(p) PROVE ImportInv'
<1>1. /\ pc[p] = "release" /\ Inside(p) /\ lock' \in {"free", "stale"} /\ UNCHANGED <<at, whole, saving, cleared>>
      /\ pc' = [pc EXCEPT ![p] = "idle"] /\ tx' = [tx EXCEPT ![p] = Idle]
  BY DEF Release, Stop, Goto, Note, Inside, Rollback, outside
<1>2. Placed' /\ ForeignLocked'
  BY <1>1, StandStill, StillNoForeign
<1> QED
  BY <1>1, <1>2, GoesOut

-----------------------------------------------------------------------------
(* After the commit, and outside.                                          *)

\* What moves beside the imports leaves no foreign directory behind.
LEMMA ForeignBeside ==
  ASSUME Hypotheses, ImportInv, NEW p \in Procs, ~Inside(p), UNCHANGED <<lock, cleared>>,
         \A q \in Procs \ {p} : pc'[q] = pc[q],
         \A d \in Dirs : at'[d] = at[d] \/ at'[d].kind # "recovery"
  PROVE  ForeignLocked'
<1>1. pc[p] # "surrender"
  BY DEF Inside, Rollback
<1>2. ASSUME cleared = 0, NEW d \in Dirs, at'[d].kind = "recovery"
      PROVE  lock = "stale" \/ \E q \in Procs \ {p} : pc[q] = "surrender"
  BY <1>1, <1>2 DEF ImportInv, ForeignLocked
<1> QED
  BY <1>2 DEF ForeignLocked

\* A step of an import that has committed.
LEMMA Afterwards ==
  ASSUME Hypotheses, ImportInv, NEW p \in Procs, ~Inside(p), NEW label, NEW u,
         \/ label = "idle" /\ u = Idle
         \/ label = "cleanup" /\ u \in Working,
         pc' = [pc EXCEPT ![p] = label], tx' = [tx EXCEPT ![p] = u],
         UNCHANGED <<lock, whole, cleared>>, Placed',
         \A d \in Dirs : \/ at'[d] = at[d]
                         \/ at[d].kind = "prune" /\ at'[d] = Tombstone
  PROVE  ImportInv'
<1>1. /\ pc'[p] = label /\ tx'[p] = u
      /\ \A q \in Procs \ {p} : pc'[q] = pc[q] /\ tx'[q] = tx[q]
  BY DEF ImportInv, Engaged
<1>2. label \notin Before \cup Rollback /\ (u = Idle <=> label = "idle")
  BY DEF Hypotheses, DistinctNone, Working, Txs, Idle, Before, Rollback
<1>3. pc' \in [Procs -> Before \cup Rollback \cup {"idle", "cleanup"}] /\ tx' \in [Procs -> Working \cup {Idle}]
  BY DEF ImportInv, Engaged
<1>4. ASSUME NEW q \in Procs
      PROVE  (Inside(q)' <=> lock' = q) /\ (tx'[q] = Idle <=> pc'[q] = "idle") /\ TxInv(q)'
  <2>1. CASE q = p
    <3>1. ~Inside(q)' /\ lock # p
      BY <1>1, <1>2, <2>1 DEF Inside, ImportInv, Engaged
    <3> QED
      BY <1>1, <1>2, <2>1, <3>1 DEF TxInv
  <2>2. CASE q # p
    <3>1. pc'[q] = pc[q] /\ tx'[q] = tx[q]
      BY <1>1, <2>2
    <3>2. TxInv(q)'
      <4>1. CASE Inside(q)
        BY <3>1, <4>1, Bystander
      <4>2. CASE ~Inside(q)
        BY <3>1, <4>2 DEF TxInv, Inside
      <4> QED
        BY <4>1, <4>2
    <3> QED
      BY <3>1, <3>2 DEF ImportInv, Engaged, Inside
  <2> QED
    BY <2>1, <2>2
<1>5. Engaged'
  BY <1>3, <1>4 DEF Engaged
<1>6. ForeignLocked'
  <2>1. \A d \in Dirs : at'[d] = at[d] \/ at'[d].kind # "recovery"
    BY DEF Tombstone, Name
  <2> QED
    BY <1>1, <2>1, ForeignBeside
<1> QED
  BY <1>4, <1>5, <1>6 DEF ImportInv

LEMMA AbandonKeeps == ASSUME Hypotheses, ImportInv, NEW p \in Procs, Abandon(p) PROVE ImportInv'
<1>1. /\ pc' = [pc EXCEPT ![p] = "idle"] /\ tx' = [tx EXCEPT ![p] = Idle]
      /\ UNCHANGED <<at, whole, saving, cleared>>
  BY DEF Abandon, Stop, Goto, Note, outside
<1>2. Placed'
  BY <1>1, StandStill
<1>3. CASE Inside(p)
  <2>1. lock' = "stale"
    BY <1>3, Opened DEF Abandon
  <2> QED
    BY <1>1, <1>2, <1>3, <2>1, GoesOut DEF ForeignLocked
<1>4. CASE ~Inside(p)
  <2>1. lock' = lock
    BY <1>4 DEF Abandon, ImportInv, Engaged
  <2> QED
    BY <1>1, <1>2, <1>4, <2>1, Afterwards
<1> QED
  BY <1>3, <1>4

LEMMA RetireKeeps == ASSUME Hypotheses, ImportInv, NEW p \in Procs, RetireQuarantine(p) PROVE ImportInv'
<1> DEFINE t == tx[p]
<1>1. /\ pc[p] = "cleanup" /\ ~Inside(p) /\ UNCHANGED <<whole, lock, saving, cleared>>
  BY DEF RetireQuarantine, Inside, Before, Rollback, outside
<1>2. t \in Working
  BY <1>1 DEF ImportInv, Engaged
<1>3. CASE /\ t.pruned # <<>> /\ UNCHANGED pc /\ Note(p, [t EXCEPT !.pruned = Tail(@)])
           /\ LET d == Head(t.pruned).dir IN
                \/ at[d] = Name("prune", t.run) /\ Move(d, Tombstone)
                \/ UNCHANGED at
  <2> DEFINE u == [t EXCEPT !.pruned = Tail(t.pruned)]
             d == Head(t.pruned).dir
  <2>1. t.pruned \in Seq([dir: Dirs, from: Names]) /\ t.run \in Runs
    BY <1>2 DEF Working, Txs
  <2>2. Tail(t.pruned) \in Seq([dir: Dirs, from: Names]) /\ Head(t.pruned) \in [dir: Dirs, from: Names]
    BY <1>3, <2>1, SeqEnds
  <2>3. u \in Working
    BY <1>2, <2>2, UpdatePruned
  <2>4. tx' = [tx EXCEPT ![p] = u] /\ pc' = [pc EXCEPT ![p] = "cleanup"]
    BY <1>1, <1>3 DEF Note, ImportInv, Engaged
  <2>5. d \in Dirs
    BY <2>2
  <2> HIDE DEF u, d
  <2>6. CASE at[d] = Name("prune", t.run) /\ Move(d, Tombstone)
    <3>1. Tombstone \in Names /\ Tombstone # Unmade /\ Tombstone.kind = "tombstone"
      BY <2>1, NameTypes
    <3>2. Placed' /\ at'[d] = Tombstone /\ \A e \in Dirs \ {d} : at'[e] = at[e]
      BY <1>1, <2>5, <2>6, <3>1, MovePlaced DEF ImportInv, Placed
    <3>3. at[d].kind = "prune"
      BY <2>6 DEF Name
    <3> QED
      BY <1>1, <2>3, <2>4, <3>2, <3>3, Afterwards
  <2>7. CASE UNCHANGED at
    <3>1. Placed'
      BY <1>1, <2>7, StandStill
    <3> QED
      BY <1>1, <2>3, <2>4, <2>7, <3>1, Afterwards
  <2> QED
    BY <1>3, <2>6, <2>7 DEF d
<1>4. CASE Stop(p) /\ UNCHANGED at
  <2>1. Placed'
    BY <1>1, <1>4, StandStill
  <2>2. pc' = [pc EXCEPT ![p] = "idle"] /\ tx' = [tx EXCEPT ![p] = Idle]
    BY <1>4 DEF Stop, Goto, Note
  <2> QED
    BY <1>1, <1>4, <2>1, <2>2, Afterwards
<1> QED
  BY <1>3, <1>4 DEF RetireQuarantine

LEMMA SaveKeeps ==
  ASSUME Hypotheses, ImportInv, NEW r \in Runs, SaveBegin(r) \/ SaveDecision(r)
  PROVE  ImportInv'
<1>1. UNCHANGED <<whole, lock, pc, tx, cleared>> /\ saving' \subseteq Runs
  BY DEF SaveBegin, SaveDecision, ImportInv, Placed
<1>2. CASE UNCHANGED at
  <2>1. Placed' /\ ForeignLocked'
    BY <1>1, <1>2 DEF ImportInv, Placed, ForeignLocked
  <2> QED
    BY <1>1, <1>2, <2>1, Beside
<1>3. CASE Occupant(r) = None /\ \E d \in Fresh : Move(d, Name("candidate", r))
  <2>1. PICK d \in Fresh : Move(d, C(r))
    BY <1>3 DEF C
  <2>2. d \in Dirs /\ at[d] = Unmade
    BY FreshIs
  <2>3. \A e \in Dirs : at[e] # C(r)
    BY <1>3, OccupantIs DEF ImportInv, Hypotheses
  <2>4. C(r) \in Names /\ C(r) # Unmade /\ C(r).kind = "candidate"
    BY NameTypes
  <2>5. Placed' /\ at'[d] = C(r) /\ \A e \in Dirs \ {d} : at'[e] = at[e]
    BY <1>1, <2>1, <2>2, <2>3, <2>4, MovePlaced DEF ImportInv, Placed
  <2>6. ForeignLocked'
    BY <1>1, <2>4, <2>5 DEF ImportInv, ForeignLocked
  <2> QED
    BY <1>1, <2>2, <2>4, <2>5, <2>6, Beside
<1> QED
  BY <1>2, <1>3 DEF SaveBegin, SaveDecision

LEMMA ClearKeeps == ASSUME Hypotheses, ImportInv, ClearLocks PROVE ImportInv'
<1>1. /\ lock = "stale" /\ lock' = "free" /\ cleared \in Nat /\ cleared' = cleared + 1
      /\ UNCHANGED <<at, whole, pc, tx, saving>>
  BY DEF ClearLocks, ImportInv, Placed
<1>2. \A q \in Procs : ~Inside(q) /\ ~Inside(q)' /\ lock' # q
  BY <1>1 DEF ImportInv, Engaged, Hypotheses, LockNamesApart, Inside
<1>3. Engaged'
  BY <1>1, <1>2 DEF ImportInv, Engaged
<1>4. Placed' /\ ForeignLocked'
  BY <1>1 DEF ImportInv, Placed, ForeignLocked
<1> QED
  BY <1>2, <1>3, <1>4 DEF ImportInv, TxInv

-----------------------------------------------------------------------------
(* The theorems.                                                           *)

LEMMA ImportInitially == ASSUME Hypotheses, Init PROVE ImportInv
<1>1. Unmade \in Names /\ Unmade.kind = "unmade"
  BY DEF Names, Unmade, Name
<1>2. Placed
  BY <1>1 DEF Init, Placed
<1>3. \A p \in Procs : pc[p] = "idle" /\ ~Inside(p) /\ tx[p] = Idle
  BY DEF Init, Inside, Before, Rollback
<1>4. Engaged
  BY <1>3 DEF Init, Engaged, Hypotheses, LockNamesApart
<1>5. ForeignLocked
  BY <1>1 DEF Init, ForeignLocked
<1> QED
  BY <1>2, <1>3, <1>4, <1>5 DEF ImportInv, TxInv

LEMMA ImportInductive == ASSUME Hypotheses, ImportInv, [Next]_vars PROVE ImportInv'
<1>1. CASE UNCHANGED vars
  <2>1. UNCHANGED <<at, whole, lock, pc, tx, saving, cleared>>
    BY <1>1 DEF vars
  <2>2. Placed' /\ ForeignLocked'
    BY <2>1 DEF ImportInv, Placed, ForeignLocked
  <2> QED
    BY <2>1, <2>2, Beside
<1>2. ASSUME NEW p \in Procs,
             \/ ImportBegin(p) \/ ReadPrior(p) \/ CollectLeftovers(p)
             \/ StageCandidate(p) \/ StagingFails(p) \/ QuarantineBackup(p)
             \/ MoveAside(p) \/ PublishStage(p) \/ Close(p) \/ StepFails(p)
      PROVE  ImportInv'
  BY <1>2, BeginKeeps, ReadPriorKeeps, CollectKeeps, StageKeeps, StagingFailsKeeps,
     QuarantineKeeps, MoveAsideKeeps, PublishKeeps, CloseKeeps, StepFailsKeeps
<1>3. ASSUME NEW p \in Procs,
             \/ Reconcile(p) \/ UndoPublication(p) \/ Surrender(p) \/ PutBack(p)
             \/ RestoreBackup(p) \/ Release(p) \/ Abandon(p) \/ RetireQuarantine(p)
      PROVE  ImportInv'
  BY <1>3, ReconcileKeeps, UndoKeeps, SurrenderKeeps, PutBackKeeps, RestoreKeeps,
     ReleaseKeeps, AbandonKeeps, RetireKeeps
<1> QED
  BY <1>1, <1>2, <1>3, SaveKeeps, ClearKeeps DEF Next

\* The invariant holds in every run of import_run, its failures and the workbench's late saves.
THEOREM ImportInvariant == ASSUME DistinctNone, LockNamesApart PROVE Spec => []ImportInv
<1>1. Hypotheses
  BY DEF Hypotheses
<1>2. Init => ImportInv
  BY <1>1, ImportInitially
<1>3. ImportInv /\ [Next]_vars => ImportInv'
  BY <1>1, ImportInductive
<1> QED
  BY <1>2, <1>3, PTL DEF Spec

\* At most one directory stands under a candidate's name, and whoever is inside a
\* transaction, its rollback included, holds the lock.
THEOREM LockedInside == ASSUME DistinctNone, LockNamesApart PROVE Spec => []TypeOK
<1>1. ImportInv => TypeOK
  BY DEF ImportInv, Placed, Engaged, Inside, TypeOK, Names
<1> QED
  BY <1>1, ImportInvariant, PTL

\* An import that fails and gives its locks back leaves under the candidate's name
\* the directory it found there, or no complete run (importer.py:145-172).
THEOREM CandidateIsRestored ==
  ASSUME DistinctNone, LockNamesApart PROVE Spec => []FailureRestoresCandidate
<1>1. ASSUME ImportInv, NEW p \in Procs, pc[p] = "release"
      PROVE  IF tx[p].found.candidate = None THEN Occupant(tx[p].run) \notin whole
             ELSE Occupant(tx[p].run) = tx[p].found.candidate
  <2>1. Hypotheses /\ Inside(p)
    BY <1>1 DEF Hypotheses, Inside, Rollback
  <2>2. /\ FoundStands(p) /\ NoneFound(p) /\ tx[p].run \in Runs
        /\ tx[p].found.candidate \in Some(Dirs)
    BY <1>1, <2>1, Opened
  <2>3. /\ Occupant(tx[p].run) # None =>
             Occupant(tx[p].run) \in Dirs /\ at[Occupant(tx[p].run)] = C(tx[p].run)
        /\ \A d \in Dirs : at[d] = C(tx[p].run) => Occupant(tx[p].run) = d
    BY <1>1, <2>2, OccupantIs DEF ImportInv
  <2>4. None \notin whole
    BY <1>1 DEF ImportInv, Placed, DistinctNone
  <2> QED
    BY <1>1, <2>2, <2>3, <2>4 DEF FoundStands, NoneFound, Some
<1>2. ImportInv => FailureRestoresCandidate
  BY <1>1 DEF FailureRestoresCandidate
<1> QED
  BY <1>2, ImportInvariant, PTL

\* When an overwrite commits, what it replaced is the one backup of the run
\* (docs/ARCHITECTURE.md:453).
THEOREM PredecessorIsTheBackup ==
  ASSUME DistinctNone, LockNamesApart PROVE Spec => []OneBackupAtCommit
<1>1. ASSUME ImportInv, NEW p \in Procs, pc[p] = "close", tx[p].prior # None
      PROVE  Entries("backup", tx[p].run) = {tx[p].prior}
  <2>1. Hypotheses /\ Inside(p)
    BY <1>1 DEF Hypotheses, Inside, Before
  <2>2. BackupsCollected(p) /\ tx[p].prior \in Dirs
    BY <1>1, <2>1, Opened DEF Some
  <2> QED
    BY <1>1, <2>2 DEF BackupsCollected, Entries, B
<1>2. ImportInv => OneBackupAtCommit
  BY <1>1 DEF OneBackupAtCommit
<1> QED
  BY <1>2, ImportInvariant, PTL

\* A directory that a failed import did not know under the candidate's name keeps
\* the locks until the operator removes them (importer.py:338-360).
THEOREM ForeignKeepsTheLocks ==
  ASSUME DistinctNone, LockNamesApart PROVE Spec => []ForeignKeepsLocks
<1>1. ASSUME ImportInv, NEW r \in Runs, cleared = 0, Entries("recovery", r) # {}
      PROVE  lock # "free"
  <2>1. \E d \in Dirs : at[d].kind = "recovery"
    BY <1>1 DEF Entries, Name
  <2>2. CASE lock = "stale"
    BY <2>2
  <2>3. ASSUME NEW q \in Procs, pc[q] = "surrender"
        PROVE  lock # "free"
    BY <1>1, <2>3 DEF ImportInv, Engaged, Inside, Rollback, LockNamesApart
  <2> QED
    BY <1>1, <2>1, <2>2, <2>3 DEF ImportInv, ForeignLocked
<1>2. ImportInv => ForeignKeepsLocks
  BY <1>1 DEF ForeignKeepsLocks, LockFree
<1> QED
  BY <1>2, ImportInvariant, PTL

-----------------------------------------------------------------------------
(* The quarantined backups.                                                *)

PrunedDirs(t) == {t.pruned[i].dir : i \in 1..Len(t.pruned)}

\* The directories a committed import has yet to retire.
Retiring == {d \in Dirs : \E q \in Procs : pc[q] = "cleanup" /\ d \in PrunedDirs(tx[q])}

\* What an import works on is apart from those and from what it quarantines.
OwnApart(t, retiring) ==
  /\ \A d \in t.found.backups \cup {t.prior, t.stage} : d \notin retiring
  /\ \A d \in {t.prior, t.stage} : d \notin t.found.backups \cup PrunedDirs(t)

\* A quarantined directory is where the list says, and the backups that were found are
\* there or where they were.
QuarantineFits(a, l, t, retiring) ==
  /\ l \in {"check", "collect", "stage", "release"} => t.pruned = <<>>
  /\ \A i, j \in 1..Len(t.pruned) : t.pruned[i].dir = t.pruned[j].dir => i = j
  /\ \A i \in 1..Len(t.pruned) :
       /\ a[t.pruned[i].dir] \in {Name("prune", t.run), Tombstone}
       /\ t.pruned[i].dir \in retiring => t.pruned[i].from.kind = "prune"
       /\ t.pruned[i].dir \in t.found.backups =>
            t.pruned[i].from = B(t.run) /\ a[t.pruned[i].dir] = Name("prune", t.run)
  /\ \A d \in t.found.backups \ PrunedDirs(t) : a[d] = B(t.run)

\* Where the predecessor and the stage stand, until they were put back or retired.
InPlace(a, l, t) ==
  /\ l \in {"collect", "stage", "quarantine", "backup"} /\ t.prior # None => a[t.prior] = C(t.run)
  /\ l \in {"quarantine", "backup", "publish"} => a[t.stage] = Name("stage", t.run)
  /\ l = "close" => a[t.stage] = C(t.run)
  /\ l \in {"reconcile", "undo"} /\ t.stage # None => a[t.stage] \in {Name("stage", t.run), C(t.run)}
  /\ l \in {"undo", "surrender", "putback"} /\ t.backup # None => a[t.backup] = B(t.run)

BackupsInv ==
  /\ \A d \in Retiring : at[d].kind \in {"prune", "tombstone"}
  /\ \A p \in Procs : Inside(p) =>
       /\ OwnApart(tx[p], Retiring) /\ QuarantineFits(at, pc[p], tx[p], Retiring)
       /\ InPlace(at, pc[p], tx[p])

\* Not retired, nor about to be.
Kept(d) == d \in Dirs \ Retiring /\ at[d] # Tombstone

\* The candidate committed last: until locks were removed it has its name whenever no import
\* of its run is under way, and the first import that dies leaves it there or as the backup.
LatestKept(r) ==
  LET d == latest[r] IN
  /\ Kept(d)
  /\ lock = "free" => at[d] \in {C(r), B(r)} /\ (cleared = 0 => at[d] = C(r))
  /\ lock = "stale" /\ cleared = 0 => at[d] \in {C(r), B(r)}
  /\ \A p \in Procs : Inside(p) =>
       IF tx[p].run = r
       THEN /\ d \in tx[p].found.backups \cup {tx[p].found.candidate}
            /\ cleared = 0 => d = tx[p].found.candidate
       ELSE at[d] \in {C(r), B(r)} /\ (cleared = 0 => at[d] = C(r))

\* What it replaced is the run's backup, which an import has found if it is under way.
PredecessorKept(r) ==
  LET d == predecessor[r] IN
  /\ Kept(d)
  /\ lock = "free" => at[d] = B(r)
  /\ \A p \in Procs : Inside(p) =>
       IF tx[p].run = r THEN d \in tx[p].found.backups ELSE at[d] = B(r)

KeptInv ==
  /\ latest \in [Runs -> Some(Dirs)] /\ predecessor \in [Runs -> Some(Dirs)]
  /\ \A r \in Runs :
       /\ cleared <= 1 /\ latest[r] # None => LatestKept(r)
       /\ cleared = 0 /\ predecessor[r] # None => PredecessorKept(r)

\* What an import that has begun and its bystanders do: nobody else is inside, what the
\* clean-ups retire and the late saves make is none of its directories.
QuarantineHypotheses == Hypotheses /\ OverlapsAssumption /\ "quarantine" \notin LateFailures

Facts == QuarantineHypotheses /\ ImportInv /\ BackupsInv

\* A step of p touches no other run's candidate and backup, and retires nothing it found.
Spares(p) ==
  \A d \in Dirs :
    \/ at'[d] = at[d]
    \/ /\ \A r \in Runs \ {tx[p].run} : at[d] # C(r) /\ at[d] # B(r)
       /\ at'[d] # Tombstone \/ d \notin tx[p].found.backups \cup {tx[p].found.candidate}

StepFits(p) == BackupsInv' /\ (Overlaps = {} => Spares(p))

LEMMA NamesDiffer ==
  \A k, l, r, s : Name(k, r) = Name(l, s) => k = l /\ r = s
BY DEF Name

LEMMA Kinded ==
  /\ \A k, r : Name(k, r).kind = k /\ Name(k, r).run = r
  /\ Tombstone.kind = "tombstone" /\ Unmade.kind = "unmade"
BY DEF Name, Tombstone, Unmade

LEMMA NamesApart ==
  ASSUME NEW r, NEW s
  PROVE  /\ C(r) # B(s) /\ C(r) # Tombstone /\ C(r) # Unmade /\ B(r) # Tombstone /\ B(r) # Unmade
         /\ Name("prune", r) \notin {C(s), B(s), Tombstone, Unmade}
         /\ Name("stage", r) \notin {C(s), B(s), Tombstone, Unmade, Name("prune", s)}
         /\ Name("recovery", r) \notin {C(s), B(s), Tombstone, Unmade}
         /\ Tombstone # Unmade
         /\ r # s => C(r) # C(s) /\ B(r) # B(s)
BY NamesDiffer DEF C, B, Tombstone, Unmade

LEMMA WorkingIs ==
  ASSUME NEW t \in Working
  PROVE  /\ t.found.backups \subseteq Dirs /\ PrunedDirs(t) \subseteq Dirs
         /\ t.pruned \in Seq([dir: Dirs, from: Names]) /\ Len(t.pruned) \in Nat
         /\ \A i \in 1..Len(t.pruned) : t.pruned[i].dir \in Dirs /\ t.pruned[i].from \in Names
<1>1. t.pruned \in Seq([dir: Dirs, from: Names]) /\ t.found \in [candidate: Some(Dirs), backups: SUBSET Dirs]
  BY DEF Working, Txs
<1>2. t.found.backups \subseteq Dirs
  BY <1>1
<1>3. Len(t.pruned) \in Nat /\ \A i \in 1..Len(t.pruned) : t.pruned[i] \in [dir: Dirs, from: Names]
  BY <1>1, SeqElements
<1>4. \A i \in 1..Len(t.pruned) : t.pruned[i].dir \in Dirs /\ t.pruned[i].from \in Names
  BY <1>3
<1> QED
  BY <1>1, <1>2, <1>3, <1>4 DEF PrunedDirs

LEMMA RetiringSame ==
  ASSUME NEW p \in Procs, pc[p] # "cleanup", pc'[p] # "cleanup",
         \A q \in Procs \ {p} : pc'[q] = pc[q] /\ tx'[q] = tx[q]
  PROVE  Retiring' = Retiring
<1>1. \A q \in Procs, d \in Dirs :
        (pc'[q] = "cleanup" /\ d \in PrunedDirs(tx[q])') <=> (pc[q] = "cleanup" /\ d \in PrunedDirs(tx[q]))
  BY DEF PrunedDirs
<1> QED
  BY <1>1 DEF Retiring

\* What is known of the import inside the transaction.
LEMMA InsideFits ==
  ASSUME Facts, NEW p \in Procs, Inside(p)
  PROVE  LET t == tx[p] IN
         /\ OwnApart(t, Retiring) /\ QuarantineFits(at, pc[p], t, Retiring) /\ InPlace(at, pc[p], t)
         /\ \A d \in Retiring : d \in Dirs /\ at[d].kind \in {"prune", "tombstone"}
         /\ t \in Working /\ t.run \in Runs /\ lock = p /\ Known(p) /\ FoundStands(p)
         /\ t.prior \in Some(Dirs) /\ t.stage \in Some(Dirs) /\ t.backup \in Some(Dirs)
         /\ t.found.candidate \in Some(Dirs)
         /\ t.found.backups \subseteq Dirs /\ PrunedDirs(t) \subseteq Dirs
         /\ at \in [Dirs -> Names] /\ None \notin Dirs /\ pc[p] # "cleanup"
         /\ \A q \in Procs \ {p} : ~Inside(q)
<1>1. Hypotheses /\ ImportInv
  BY DEF Facts, QuarantineHypotheses
<1>2. /\ tx[p] \in Working /\ tx[p].run \in Runs /\ lock = p /\ Known(p) /\ FoundStands(p)
      /\ tx[p].prior \in Some(Dirs) /\ tx[p].stage \in Some(Dirs) /\ tx[p].backup \in Some(Dirs)
      /\ tx[p].found.candidate \in Some(Dirs)
      /\ \A q \in Procs \ {p} : ~Inside(q)
  BY <1>1, Opened
<1>3. tx[p].found.backups \subseteq Dirs /\ PrunedDirs(tx[p]) \subseteq Dirs
  BY <1>2, WorkingIs
<1>4. at \in [Dirs -> Names] /\ None \notin Dirs /\ pc[p] # "cleanup"
  BY <1>1 DEF ImportInv, Placed, Hypotheses, DistinctNone, Inside, Before, Rollback
<1> QED
  BY <1>2, <1>3, <1>4 DEF Facts, BackupsInv, Retiring

\* The import goes on, and so does what is said of it.
LEMMA FitsOn ==
  ASSUME Facts, NEW p \in Procs, Inside(p), NEW label \in Before \cup Rollback, NEW u,
         pc' = [pc EXCEPT ![p] = label], tx' = [tx EXCEPT ![p] = u], NEW a, at' = a,
         \A d \in Retiring : a[d] = at[d] \/ a[d].kind \in {"prune", "tombstone"},
         OwnApart(u, Retiring), QuarantineFits(a, label, u, Retiring), InPlace(a, label, u)
  PROVE  BackupsInv'
<1>1. /\ pc'[p] = label /\ tx'[p] = u
      /\ \A q \in Procs \ {p} : pc'[q] = pc[q] /\ tx'[q] = tx[q]
  BY DEF Facts, ImportInv, Engaged
<1>2. pc[p] # "cleanup" /\ label # "cleanup"
  BY DEF Inside, Before, Rollback
<1>3. Retiring' = Retiring
  BY <1>1, <1>2, RetiringSame
<1>4. \A d \in Retiring' : at'[d].kind \in {"prune", "tombstone"}
  BY <1>3, InsideFits
<1>5. ASSUME NEW q \in Procs, Inside(q)'
      PROVE  OwnApart(tx[q], Retiring)' /\ QuarantineFits(at, pc[q], tx[q], Retiring)'
             /\ InPlace(at, pc[q], tx[q])'
  <2>1. q = p
    BY <1>1, <1>5, InsideFits DEF Inside
  <2>2. OwnApart(tx'[q], Retiring') /\ QuarantineFits(at', pc'[q], tx'[q], Retiring')
             /\ InPlace(at', pc'[q], tx'[q])
    BY <1>1, <1>3, <2>1
  <2> QED
    BY <2>2
<1> QED
  BY <1>4, <1>5 DEF BackupsInv

\* A step that moves nothing but the import.
LEMMA FitsJump ==
  ASSUME Facts, NEW p \in Procs, Inside(p), NEW label \in Before \cup Rollback, NEW u,
         pc' = [pc EXCEPT ![p] = label], tx' = [tx EXCEPT ![p] = u], at' = at,
         u.run = tx[p].run, u.found = tx[p].found, u.pruned = tx[p].pruned,
         u.prior = tx[p].prior, u.stage = tx[p].stage,
         label \in {"check", "collect", "stage", "release"} => tx[p].pruned = <<>>,
         InPlace(at, label, u)
  PROVE  StepFits(p)
<1>1. OwnApart(u, Retiring)
  BY InsideFits DEF OwnApart, PrunedDirs
<1>2. QuarantineFits(at, label, u, Retiring)
  BY InsideFits DEF QuarantineFits, PrunedDirs
<1>3. BackupsInv'
  BY <1>1, <1>2, FitsOn
<1> QED
  BY <1>3 DEF StepFits, Spares

LEMMA Stays ==
  ASSUME Facts, NEW p \in Procs
  PROVE  tx = [tx EXCEPT ![p] = tx[p]] /\ pc = [pc EXCEPT ![p] = pc[p]]
BY DEF Facts, ImportInv, Engaged

-----------------------------------------------------------------------------
(* The steps of an import and of its rollback.                             *)

LEMMA ReadPriorFits == ASSUME Facts, NEW p \in Procs, ReadPrior(p) PROVE StepFits(p)
<1> DEFINE t == tx[p]  prior == Occupant(t.run)
<1>1. PICK u : u = [t EXCEPT !.prior = prior]
  OBVIOUS
<1>2. /\ pc[p] = "check" /\ Inside(p) /\ pc' = [pc EXCEPT ![p] = "collect"] /\ tx' = [tx EXCEPT ![p] = u]
      /\ at' = at
  BY <1>1 DEF ReadPrior, Goto, Note, Inside, Before
<1>3. /\ t \in Working /\ t.run \in Runs /\ t.found.backups \subseteq Dirs /\ None \notin Dirs
      /\ OwnApart(t, Retiring) /\ QuarantineFits(at, "check", t, Retiring)
      /\ \A d \in Retiring : at[d].kind \in {"prune", "tombstone"}
      /\ Known(p)
  BY <1>2, InsideFits
<1>4. /\ prior # None => prior \in Dirs /\ at[prior] = C(t.run)
      /\ prior = None \/ prior \in Dirs
  BY <1>3, OccupantIs DEF Facts, QuarantineHypotheses, Hypotheses, ImportInv
<1>5. /\ u.run = t.run /\ u.found = t.found /\ u.pruned = t.pruned /\ u.prior = prior /\ u.stage = t.stage
  BY <1>1, <1>3, <1>4, UpdatePrior DEF Some
<1> HIDE DEF prior
<1>6. t.pruned = <<>> /\ t.stage = None
  BY <1>2, <1>3 DEF QuarantineFits, Known
<1>7. PrunedDirs(t) = {} /\ PrunedDirs(u) = {}
  BY <1>5, <1>6 DEF PrunedDirs
<1>8. prior \notin Retiring /\ prior \notin t.found.backups
  <2>1. CASE prior = None
    BY <1>3, <2>1 DEF Retiring
  <2>2. CASE prior # None
    <3>1. at[prior].kind = "candidate" /\ at[prior] # B(t.run)
      BY <1>4, <2>2, Kinded, NamesApart DEF C
    <3> QED
      BY <1>3, <1>7, <3>1 DEF QuarantineFits
  <2> QED
    BY <2>1, <2>2
<1>9. OwnApart(u, Retiring)
  BY <1>3, <1>5, <1>6, <1>7, <1>8 DEF OwnApart
<1>10. QuarantineFits(at, "collect", u, Retiring)
  BY <1>3, <1>5, <1>6, <1>7 DEF QuarantineFits
<1>11. InPlace(at, "collect", u)
  BY <1>4, <1>5 DEF InPlace
<1>12. BackupsInv'
  BY <1>2, <1>9, <1>10, <1>11, FitsOn DEF Before
<1> QED
  BY <1>2, <1>12 DEF StepFits, Spares

LEMMA StepFailsFits == ASSUME Facts, NEW p \in Procs, StepFails(p) PROVE StepFits(p)
<1>1. /\ pc[p] \in Before /\ Inside(p) /\ pc' = [pc EXCEPT ![p] = "reconcile"]
      /\ tx' = [tx EXCEPT ![p] = tx[p]] /\ at' = at
  BY Stays DEF StepFails, Goto, Inside
<1>2. Known(p) /\ InPlace(at, pc[p], tx[p])
  BY <1>1, InsideFits
<1>3. InPlace(at, "reconcile", tx[p])
  BY <1>1, <1>2 DEF InPlace, Known, Before
<1> QED
  BY <1>1, <1>3, FitsJump DEF Rollback

LEMMA ReconcileFits == ASSUME Facts, NEW p \in Procs, Reconcile(p) PROVE StepFits(p)
<1> DEFINE t == tx[p]
           backup == IF t.prior # None /\ at[t.prior] = B(t.run) THEN t.prior ELSE None
<1>1. PICK u : u = [t EXCEPT !.backup = backup]
  OBVIOUS
<1>2. /\ pc[p] = "reconcile" /\ Inside(p) /\ at' = at
      /\ pc' = [pc EXCEPT ![p] = "undo"] /\ tx' = [tx EXCEPT ![p] = u]
  BY <1>1 DEF Reconcile, Goto, Note, Inside, Rollback, B
<1>3. t \in Working /\ t.prior \in Some(Dirs) /\ InPlace(at, "reconcile", t)
  BY <1>2, InsideFits
<1>4. /\ u.run = t.run /\ u.found = t.found /\ u.pruned = t.pruned /\ u.prior = t.prior
      /\ u.stage = t.stage /\ u.backup = backup
  BY <1>1, <1>3, UpdateBackup DEF Some
<1>5. InPlace(at, "undo", u)
  BY <1>3, <1>4 DEF InPlace
<1> QED
  BY <1>2, <1>4, <1>5, FitsJump DEF Rollback

LEMMA CollectFits == ASSUME Facts, NEW p \in Procs, CollectLeftovers(p) PROVE StepFits(p)
<1> DEFINE t == tx[p]
<1>1. pc[p] = "collect" /\ Inside(p) /\ tx' = [tx EXCEPT ![p] = t]
  BY Stays DEF CollectLeftovers, Inside, Before
<1>2. /\ t.run \in Runs /\ OwnApart(t, Retiring) /\ QuarantineFits(at, "collect", t, Retiring)
      /\ InPlace(at, "collect", t) /\ FoundStands(p) /\ t.prior \in Some(Dirs)
      /\ t.found.candidate \in Some(Dirs) /\ at \in [Dirs -> Names]
      /\ t.found.backups \subseteq Dirs /\ None \notin Dirs
  BY <1>1, InsideFits
<1>3. t.pruned = <<>> /\ PrunedDirs(t) = {}
  BY <1>2 DEF QuarantineFits, PrunedDirs
<1>4. ASSUME NEW d \in Entries("prune", t.run), Move(d, Tombstone), UNCHANGED pc
      PROVE  StepFits(p)
  <2>1. PICK a : a = [at EXCEPT ![d] = Tombstone]
    OBVIOUS
  <2>2. d \in Dirs /\ at[d] = Name("prune", t.run) /\ at' = a /\ pc' = [pc EXCEPT ![p] = "collect"]
    BY <1>1, <1>4, <2>1, Stays DEF Entries, Move
  <2>3. a[d] = Tombstone /\ \A e \in Dirs \ {d} : a[e] = at[e]
    BY <1>2, <2>1, <2>2
  <2>4. d \notin t.found.backups /\ d # t.prior /\ d # t.found.candidate
    <3>1. at[d] # B(t.run) /\ at[d] # C(t.run)
      BY <2>2, NamesApart
    <3> QED
      BY <1>1, <1>2, <1>3, <2>2, <3>1 DEF QuarantineFits, InPlace, FoundStands
  <2>5. QuarantineFits(a, "collect", t, Retiring)
    BY <1>2, <1>3, <2>3, <2>4 DEF QuarantineFits
  <2>6. InPlace(a, "collect", t)
    BY <1>2, <2>3, <2>4 DEF InPlace, Some
  <2>7. \A e \in Retiring : a[e] = at[e] \/ a[e].kind \in {"prune", "tombstone"}
    BY <2>3, Kinded DEF Retiring
  <2>8. BackupsInv'
    BY <1>1, <1>2, <2>2, <2>5, <2>6, <2>7, FitsOn DEF Before
  <2>9. Spares(p)
    BY <2>2, <2>3, <2>4, NamesApart DEF Spares
  <2> QED
    BY <2>8, <2>9 DEF StepFits
<1>5. CASE Goto(p, "stage") /\ UNCHANGED at
  BY <1>1, <1>2, <1>3, <1>5, FitsJump DEF Goto, InPlace, Before
<1> QED
  BY <1>4, <1>5 DEF CollectLeftovers

\* A directory that is made is no import's yet.
LEMMA FreshFits ==
  ASSUME Facts, NEW p \in Procs, Inside(p), pc[p] = "stage", NEW d \in Fresh
  PROVE  /\ d \in Dirs /\ at[d] = Unmade /\ d \notin Retiring /\ d \notin tx[p].found.backups
         /\ d # tx[p].prior /\ d # tx[p].found.candidate
         /\ tx[p].pruned = <<>> /\ PrunedDirs(tx[p]) = {}
<1> DEFINE t == tx[p]
<1>1. d \in Dirs /\ at[d] = Unmade
  BY FreshIs
<1>2. /\ QuarantineFits(at, "stage", t, Retiring) /\ InPlace(at, "stage", t) /\ FoundStands(p)
      /\ \A e \in Retiring : at[e].kind \in {"prune", "tombstone"}
      /\ t.prior \in Some(Dirs) /\ t.found.candidate \in Some(Dirs) /\ None \notin Dirs
  BY InsideFits
<1>3. t.pruned = <<>> /\ PrunedDirs(t) = {}
  BY <1>2 DEF QuarantineFits, PrunedDirs
<1>4. at[d].kind = "unmade" /\ at[d] # B(t.run) /\ at[d] # C(t.run)
  BY <1>1, Kinded, NamesApart
<1> QED
  BY <1>1, <1>2, <1>3, <1>4 DEF QuarantineFits, InPlace, FoundStands

LEMMA StageFits == ASSUME Facts, NEW p \in Procs, StageCandidate(p) PROVE StepFits(p)
<1> DEFINE t == tx[p]
           label == IF t.prior = None THEN "publish" ELSE "quarantine"
<1>1. PICK d \in Fresh :
        Move(d, Name("stage", t.run)) /\ tx' = [tx EXCEPT ![p] = [t EXCEPT !.stage = d]]
  BY DEF StageCandidate, Note
<1>2. PICK u, a : u = [t EXCEPT !.stage = d] /\ a = [at EXCEPT ![d] = Name("stage", t.run)]
  OBVIOUS
<1>3. /\ pc[p] = "stage" /\ Inside(p) /\ pc' = [pc EXCEPT ![p] = label]
      /\ tx' = [tx EXCEPT ![p] = u] /\ at' = a
  BY <1>1, <1>2 DEF StageCandidate, Goto, Inside, Before, Move
<1>4. /\ t \in Working /\ OwnApart(t, Retiring) /\ QuarantineFits(at, "stage", t, Retiring)
      /\ InPlace(at, "stage", t) /\ t.prior \in Some(Dirs) /\ at \in [Dirs -> Names]
      /\ t.found.backups \subseteq Dirs
  BY <1>3, InsideFits
<1>5. /\ d \in Dirs /\ at[d] = Unmade /\ d \notin Retiring /\ d \notin t.found.backups
      /\ d # t.prior /\ d # t.found.candidate /\ t.pruned = <<>> /\ PrunedDirs(t) = {}
  BY <1>3, FreshFits
<1>6. /\ u.stage = d /\ u.run = t.run /\ u.prior = t.prior /\ u.pruned = t.pruned /\ u.found = t.found
  BY <1>2, <1>4, <1>5, UpdateStage DEF Some
<1>7. a[d] = Name("stage", t.run) /\ \A e \in Dirs \ {d} : a[e] = at[e]
  BY <1>2, <1>4, <1>5
<1>8. PrunedDirs(u) = {}
  BY <1>5, <1>6 DEF PrunedDirs
<1>9. OwnApart(u, Retiring)
  BY <1>4, <1>5, <1>6, <1>8 DEF OwnApart
<1>10. QuarantineFits(a, label, u, Retiring)
  BY <1>4, <1>5, <1>6, <1>7, <1>8 DEF QuarantineFits
<1>11. InPlace(a, label, u)
  BY <1>4, <1>5, <1>6, <1>7 DEF InPlace, Some
<1>12. \A e \in Retiring : a[e] = at[e]
  BY <1>5, <1>7 DEF Retiring
<1>13. label \in Before
  BY DEF Before
<1> HIDE DEF label
<1>14. BackupsInv'
  BY <1>3, <1>9, <1>10, <1>11, <1>12, <1>13, FitsOn
<1>15. Spares(p)
  BY <1>3, <1>5, <1>7, NamesApart DEF Spares
<1> QED
  BY <1>14, <1>15 DEF StepFits

LEMMA StagingFailsFits == ASSUME Facts, NEW p \in Procs, StagingFails(p) PROVE StepFits(p)
<1> DEFINE t == tx[p]
<1>1. PICK d \in Fresh, left \in {Tombstone, Name("stage", t.run)} : Move(d, left)
  BY DEF StagingFails
<1>2. PICK a : a = [at EXCEPT ![d] = left]
  OBVIOUS
<1>3. /\ pc[p] = "stage" /\ Inside(p) /\ pc' = [pc EXCEPT ![p] = "reconcile"]
      /\ tx' = [tx EXCEPT ![p] = t] /\ at' = a
  BY <1>1, <1>2, Stays DEF StagingFails, Goto, Inside, Before, Move
<1>4. /\ OwnApart(t, Retiring) /\ QuarantineFits(at, "stage", t, Retiring) /\ Known(p)
      /\ at \in [Dirs -> Names] /\ t.found.backups \subseteq Dirs
  BY <1>3, InsideFits
<1>5. /\ d \in Dirs /\ at[d] = Unmade /\ d \notin Retiring /\ d \notin t.found.backups
      /\ d # t.prior /\ d # t.found.candidate /\ t.pruned = <<>> /\ PrunedDirs(t) = {}
  BY <1>3, FreshFits
<1>6. \A e \in Dirs \ {d} : a[e] = at[e]
  BY <1>2, <1>4, <1>5
<1>7. QuarantineFits(a, "reconcile", t, Retiring)
  BY <1>4, <1>5, <1>6 DEF QuarantineFits
<1>8. InPlace(a, "reconcile", t)
  BY <1>3, <1>4 DEF InPlace, Known
<1>9. \A e \in Retiring : a[e] = at[e]
  BY <1>5, <1>6 DEF Retiring
<1>10. BackupsInv'
  BY <1>3, <1>4, <1>7, <1>8, <1>9, FitsOn, ZenonT(60) DEF Rollback
<1>11. Spares(p)
  BY <1>3, <1>5, <1>6, NamesApart DEF Spares
<1> QED
  BY <1>10, <1>11 DEF StepFits

\* A quarantined directory joins the list, which did not have it.
LEMMA QuarantineBackupFits == ASSUME Facts, NEW p \in Procs, QuarantineBackup(p) PROVE StepFits(p)
<1> DEFINE t == tx[p]
<1>1. pc[p] = "quarantine" /\ Inside(p)
  BY DEF QuarantineBackup, Inside, Before
<1>2. /\ t \in Working /\ t.run \in Runs /\ OwnApart(t, Retiring)
      /\ QuarantineFits(at, "quarantine", t, Retiring)
      /\ InPlace(at, "quarantine", t) /\ Known(p) /\ FoundStands(p)
      /\ t.prior \in Some(Dirs) /\ t.stage \in Some(Dirs) /\ t.found.candidate \in Some(Dirs)
      /\ at \in [Dirs -> Names] /\ None \notin Dirs
      /\ t.found.backups \subseteq Dirs /\ PrunedDirs(t) \subseteq Dirs
      /\ \A d \in Retiring : d \in Dirs /\ at[d].kind \in {"prune", "tombstone"}
  BY <1>1, InsideFits
<1>3. t.prior \in Dirs /\ t.stage \in Dirs
  BY <1>1, <1>2 DEF Known, Some
<1>4. at[t.prior] = C(t.run) /\ at[t.stage] = Name("stage", t.run)
  BY <1>2, <1>3 DEF InPlace
<1>8. /\ \A i, j \in 1..Len(t.pruned) : t.pruned[i].dir = t.pruned[j].dir => i = j
      /\ \A i \in 1..Len(t.pruned) :
           /\ at[t.pruned[i].dir] \in {Name("prune", t.run), Tombstone}
           /\ t.pruned[i].dir \in Retiring => t.pruned[i].from.kind = "prune"
           /\ t.pruned[i].dir \in t.found.backups =>
                t.pruned[i].from = B(t.run) /\ at[t.pruned[i].dir] = Name("prune", t.run)
  BY <1>2 DEF QuarantineFits
<1>5. Overlaps \subseteq Runs \X Runs /\ <<t.run, t.run>> \notin Overlaps
  BY <1>2 DEF Facts, QuarantineHypotheses, OverlapsAssumption
<1>6. ASSUME NEW d \in StaleBackups(t.run), Move(d, Name("prune", t.run)), UNCHANGED pc,
             Note(p, [t EXCEPT !.pruned = Append(@, [dir |-> d, from |-> at[d]])])
      PROVE  StepFits(p)
  <2> DEFINE n == Len(t.pruned)
  <2>1. PICK a, s : /\ a = [at EXCEPT ![d] = Name("prune", t.run)]
                    /\ s = Append(t.pruned, [dir |-> d, from |-> at[d]])
    OBVIOUS
  <2>2. PICK u : u = [t EXCEPT !.pruned = s]
    OBVIOUS
  <2>3. d \in Dirs /\ at[d] \in Names /\ at' = a /\ pc' = [pc EXCEPT ![p] = "quarantine"]
        /\ tx' = [tx EXCEPT ![p] = u]
    BY <1>1, <1>2, <1>6, <2>1, <2>2, Stays DEF StaleBackups, Move, Note
  <2>4. a[d] = Name("prune", t.run) /\ \A e \in Dirs \ {d} : a[e] = at[e]
    BY <1>2, <2>1, <2>3
  <2>5. t.pruned \in Seq([dir: Dirs, from: Names]) /\ [dir |-> d, from |-> at[d]] \in [dir: Dirs, from: Names]
        /\ \A i \in 1..n : t.pruned[i].dir \in Dirs
    BY <1>2, <2>3, WorkingIs
  <2>6. /\ s \in Seq([dir: Dirs, from: Names]) /\ n \in Nat /\ Len(s) = n + 1
        /\ \A i \in 1..n : s[i] = t.pruned[i]
        /\ s[n + 1].dir = d /\ s[n + 1].from = at[d]
    BY <2>1, <2>5
  <2>7. /\ u.pruned = s /\ u.run = t.run /\ u.prior = t.prior /\ u.stage = t.stage /\ u.found = t.found
        /\ u.backup = t.backup
    BY <1>2, <2>2, <2>6, UpdatePruned
  <2>8. \A i \in 1..Len(s) : i = n + 1 \/ i \in 1..n
    BY <2>6
  <2>9. /\ at[d].kind \in {"stage", "backup", "prune", "recovery"}
        /\ at[d] # Name("prune", t.run) /\ at[d] # Name("stage", t.run)
    <3>1. CASE at[d] = Name("backup", t.run)
      BY <3>1, Kinded
    <3>2. CASE <<t.run, at[d].run>> \in Overlaps /\ at[d].kind \in Kinds \ {"candidate"}
      BY <1>5, <3>2, Kinded DEF Kinds
    <3> QED
      BY <3>1, <3>2 DEF StaleBackups
  <2>10. d # t.prior /\ d # t.stage /\ d # t.found.candidate
    <3>1. C(t.run).kind = "candidate"
      BY Kinded DEF C
    <3> QED
      BY <1>1, <1>2, <1>4, <2>3, <2>9, <3>1 DEF FoundStands
  <2>11. \A i \in 1..n : t.pruned[i].dir # d
    BY <1>2, <2>9, Kinded DEF QuarantineFits
  <2>12. d \notin PrunedDirs(t) /\ PrunedDirs(u) = PrunedDirs(t) \cup {d}
    <3>1. (\A i \in 1..n : i \in 1..Len(s)) /\ n + 1 \in 1..Len(s)
      BY <2>6
    <3>2. d \notin PrunedDirs(t)
      BY <2>11 DEF PrunedDirs
    <3>3. PrunedDirs(u) = {s[i].dir : i \in 1..Len(s)}
      BY <2>7 DEF PrunedDirs
    <3>4. \A i \in 1..n : s[i].dir = t.pruned[i].dir
      BY <2>6
    <3>5. ASSUME NEW e \in PrunedDirs(u) PROVE e \in PrunedDirs(t) \cup {d}
      <4>1. PICK i \in 1..Len(s) : e = s[i].dir
        BY <3>3
      <4> QED
        BY <2>6, <2>8, <3>4, <4>1 DEF PrunedDirs
    <3>6. ASSUME NEW e \in PrunedDirs(t) \cup {d} PROVE e \in PrunedDirs(u)
      <4>1. CASE e = d
        BY <2>6, <3>1, <3>3, <4>1
      <4>2. CASE e # d
        <5>1. PICK i \in 1..n : e = t.pruned[i].dir
          BY <4>2 DEF PrunedDirs
        <5> QED
          BY <3>1, <3>3, <3>4, <5>1
      <4> QED
        BY <4>1, <4>2
    <3> QED
      BY <3>2, <3>5, <3>6
  <2>13. OwnApart(u, Retiring)
    BY <1>2, <2>7, <2>10, <2>12 DEF OwnApart
  <2>14. d \in t.found.backups => at[d] = B(t.run)
    BY <1>2, <2>12 DEF QuarantineFits
  <2>15. QuarantineFits(a, "quarantine", u, Retiring)
    <3>1. ASSUME NEW i \in 1..Len(s)
          PROVE  /\ a[s[i].dir] \in {Name("prune", t.run), Tombstone}
                 /\ s[i].dir \in Retiring => s[i].from.kind = "prune"
                 /\ s[i].dir \in t.found.backups => s[i].from = B(t.run) /\ a[s[i].dir] = Name("prune", t.run)
      <4>1. CASE i = n + 1
        BY <1>2, <2>4, <2>6, <2>9, <2>14, <4>1
      <4>2. CASE i \in 1..n
        <5>1. s[i] = t.pruned[i] /\ a[t.pruned[i].dir] = at[t.pruned[i].dir]
          BY <2>4, <2>5, <2>6, <2>11, <4>2
        <5> QED
          BY <1>8, <4>2, <5>1
      <4> QED
        BY <2>8, <4>1, <4>2
    <3>2. \A i, j \in 1..Len(s) : s[i].dir = s[j].dir => i = j
      <4>1. ASSUME NEW i \in 1..Len(s), NEW j \in 1..Len(s), s[i].dir = s[j].dir PROVE i = j
        <5>1. CASE i = n + 1
          BY <2>6, <2>8, <2>11, <4>1, <5>1
        <5>2. CASE j = n + 1
          BY <2>6, <2>8, <2>11, <4>1, <5>2
        <5>3. CASE i \in 1..n /\ j \in 1..n
          BY <1>8, <2>6, <4>1, <5>3
        <5> QED
          BY <2>8, <5>1, <5>2, <5>3
      <4> QED
        BY <4>1
    <3>3. \A e \in t.found.backups \ PrunedDirs(u) : a[e] = B(t.run)
      BY <1>2, <2>4, <2>12 DEF QuarantineFits
    <3> QED
      BY <2>7, <3>1, <3>2, <3>3 DEF QuarantineFits
  <2>16. InPlace(a, "quarantine", u)
    BY <1>3, <1>4, <2>4, <2>7, <2>10 DEF InPlace
  <2>17. \A e \in Retiring : a[e] = at[e] \/ a[e].kind \in {"prune", "tombstone"}
    BY <1>2, <2>4, Kinded
  <2>18. BackupsInv'
    BY <1>1, <2>3, <2>13, <2>15, <2>16, <2>17, FitsOn DEF Before
  <2>19. ASSUME Overlaps = {} PROVE Spares(p)
    <3>1. at[d] = B(t.run)
      BY <2>19 DEF StaleBackups, B
    <3> QED
      BY <2>3, <2>4, <3>1, NamesApart DEF Spares
  <2> QED
    BY <2>18, <2>19 DEF StepFits
<1>7. CASE Goto(p, "backup") /\ UNCHANGED <<at, tx>>
  <2>1. InPlace(at, "backup", t)
    BY <1>3, <1>4 DEF InPlace
  <2> QED
    BY <1>1, <1>7, <2>1, Stays, FitsJump DEF Goto, Before
<1> QED
  BY <1>6, <1>7 DEF QuarantineBackup, Facts, QuarantineHypotheses

\* A move of a directory that the list does not have, nor the backups that were found.
LEMMA FitsMove ==
  ASSUME Facts, NEW p \in Procs, Inside(p), NEW label \in Before \cup Rollback, NEW u,
         pc' = [pc EXCEPT ![p] = label], tx' = [tx EXCEPT ![p] = u],
         NEW d \in Dirs, NEW name, Move(d, name), name # Tombstone \/ d # tx[p].found.candidate,
         \A r \in Runs \ {tx[p].run} : at[d] # C(r) /\ at[d] # B(r),
         u.run = tx[p].run, u.found = tx[p].found, u.pruned = tx[p].pruned,
         u.prior = tx[p].prior, u.stage = tx[p].stage,
         d \notin Retiring, d \notin tx[p].found.backups, d \notin PrunedDirs(tx[p]),
         label \notin {"check", "collect", "stage", "release"},
         \A a : a[d] = name /\ (\A e \in Dirs \ {d} : a[e] = at[e]) => InPlace(a, label, u)
  PROVE  StepFits(p)
<1> DEFINE t == tx[p]
<1>1. PICK a : a = [at EXCEPT ![d] = name]
  OBVIOUS
<1>2. /\ t \in Working /\ OwnApart(t, Retiring) /\ QuarantineFits(at, pc[p], t, Retiring)
      /\ at \in [Dirs -> Names] /\ t.found.backups \subseteq Dirs
      /\ \A e \in Retiring : e \in Dirs
  BY InsideFits
<1>3. at' = a /\ a[d] = name /\ \A e \in Dirs \ {d} : a[e] = at[e]
  BY <1>1, <1>2 DEF Move
<1>4. PrunedDirs(u) = PrunedDirs(t)
  BY DEF PrunedDirs
<1>5. OwnApart(u, Retiring)
  BY <1>2, <1>4 DEF OwnApart
<1>6. \A i \in 1..Len(t.pruned) : t.pruned[i].dir \in Dirs \ {d}
  BY <1>2, WorkingIs DEF PrunedDirs
<1>7. QuarantineFits(a, label, u, Retiring)
  <2>1. \A i \in 1..Len(t.pruned) : a[t.pruned[i].dir] = at[t.pruned[i].dir]
    BY <1>3, <1>6
  <2>2. \A e \in t.found.backups \ PrunedDirs(t) : a[e] = at[e]
    BY <1>2, <1>3
  <2>3. u.pruned = t.pruned /\ u.found = t.found /\ u.run = t.run
    OBVIOUS
  <2>4. \A e \in t.found.backups \ PrunedDirs(u) : a[e] = B(u.run)
    BY <1>2, <1>4, <2>2, <2>3 DEF QuarantineFits
  <2>5. \A i, j \in 1..Len(u.pruned) : u.pruned[i].dir = u.pruned[j].dir => i = j
    BY <1>2, <2>3 DEF QuarantineFits
  <2>6. \A i \in 1..Len(t.pruned) :
          /\ a[t.pruned[i].dir] \in {Name("prune", t.run), Tombstone}
          /\ t.pruned[i].dir \in Retiring => t.pruned[i].from.kind = "prune"
          /\ t.pruned[i].dir \in t.found.backups =>
               t.pruned[i].from = B(t.run) /\ a[t.pruned[i].dir] = Name("prune", t.run)
    BY <1>2, <2>1 DEF QuarantineFits
  <2> QED
    BY <2>3, <2>4, <2>5, <2>6 DEF QuarantineFits
<1>8. \A e \in Retiring : a[e] = at[e]
  BY <1>2, <1>3
<1>9. InPlace(a, label, u)
  BY <1>3
<1>10. BackupsInv'
  BY <1>3, <1>5, <1>7, <1>8, <1>9, FitsOn, ZenonT(60)
<1>11. Spares(p)
  BY <1>3 DEF Spares
<1> QED
  BY <1>10, <1>11 DEF StepFits

LEMMA MoveAsideFits == ASSUME Facts, NEW p \in Procs, MoveAside(p) PROVE StepFits(p)
<1> DEFINE t == tx[p]
<1>1. pc[p] = "backup" /\ Inside(p) /\ Move(t.prior, B(t.run))
  BY DEF MoveAside, Inside, Before, B
<1>2. /\ t \in Working /\ OwnApart(t, Retiring) /\ InPlace(at, "backup", t) /\ Known(p)
      /\ t.prior \in Some(Dirs) /\ t.stage \in Some(Dirs) /\ None \notin Dirs
  BY <1>1, InsideFits
<1>3. t.prior \in Dirs /\ t.stage \in Dirs /\ t.stage # t.prior
  BY <1>1, <1>2 DEF Known, Some
<1>4. at[t.prior] = C(t.run) /\ at[t.stage] = Name("stage", t.run)
  BY <1>2, <1>3 DEF InPlace
<1>5. PICK u, label : /\ tx' = [tx EXCEPT ![p] = u] /\ pc' = [pc EXCEPT ![p] = label]
                      /\ label \in {"publish", "reconcile"}
                      /\ u = [t EXCEPT !.backup = t.prior] \/ u = t
  BY Stays DEF MoveAside, Note, Goto
<1>6. u.run = t.run /\ u.found = t.found /\ u.pruned = t.pruned /\ u.prior = t.prior /\ u.stage = t.stage
  <2>1. CASE u = [t EXCEPT !.backup = t.prior]
    <3>1. t.prior \in Some(Dirs)
      BY <1>3 DEF Some
    <3> QED
      BY <1>2, <2>1, <3>1, UpdateBackup
  <2>2. CASE u = t
    BY <2>2
  <2> QED
    BY <1>5, <2>1, <2>2
<1>7. \A a : a[t.prior] = B(t.run) /\ (\A e \in Dirs \ {t.prior} : a[e] = at[e]) => InPlace(a, label, u)
  BY <1>3, <1>4, <1>5, <1>6 DEF InPlace
<1>8. \A r \in Runs \ {t.run} : at[t.prior] # C(r) /\ at[t.prior] # B(r)
  BY <1>4, NamesApart
<1>9. t.prior \notin Retiring /\ t.prior \notin t.found.backups /\ t.prior \notin PrunedDirs(t)
  BY <1>2 DEF OwnApart
<1> QED
  BY <1>1, <1>3, <1>5, <1>6, <1>7, <1>8, <1>9, NamesApart, FitsMove DEF Before, Rollback

LEMMA PublishFits == ASSUME Facts, NEW p \in Procs, PublishStage(p) PROVE StepFits(p)
<1> DEFINE t == tx[p]
<1>1. pc[p] = "publish" /\ Inside(p) /\ Move(t.stage, C(t.run)) /\ tx' = [tx EXCEPT ![p] = t]
  BY Stays DEF PublishStage, Inside, Before, C
<1>2. /\ t \in Working /\ OwnApart(t, Retiring) /\ InPlace(at, "publish", t) /\ Known(p)
      /\ t.stage \in Some(Dirs)
  BY <1>1, InsideFits
<1>3. t.stage \in Dirs /\ at[t.stage] = Name("stage", t.run)
  BY <1>1, <1>2 DEF Known, Some, InPlace
<1>4. PICK label \in {"close", "reconcile"} : pc' = [pc EXCEPT ![p] = label]
  BY DEF PublishStage, Goto
<1>5. \A a : a[t.stage] = C(t.run) => InPlace(a, label, t)
  BY <1>4 DEF InPlace
<1>6. \A r \in Runs \ {t.run} : at[t.stage] # C(r) /\ at[t.stage] # B(r)
  BY <1>3, NamesApart
<1>7. t.stage \notin Retiring /\ t.stage \notin t.found.backups /\ t.stage \notin PrunedDirs(t)
  BY <1>2 DEF OwnApart
<1> QED
  BY <1>1, <1>3, <1>4, <1>5, <1>6, <1>7, NamesApart, FitsMove, ZenonT(60) DEF Before, Rollback

LEMMA UndoFits == ASSUME Facts, NEW p \in Procs, UndoPublication(p) PROVE StepFits(p)
<1> DEFINE t == tx[p]
<1>1. pc[p] = "undo" /\ Inside(p) /\ tx' = [tx EXCEPT ![p] = t]
  BY Stays DEF UndoPublication, Inside, Rollback
<1>2. /\ t.run \in Runs /\ OwnApart(t, Retiring) /\ InPlace(at, "undo", t) /\ Known(p)
      /\ QuarantineFits(at, "undo", t, Retiring)
      /\ t.stage \in Some(Dirs) /\ t.backup \in Some(Dirs) /\ t.prior \in Some(Dirs)
      /\ \A d \in Retiring : at[d].kind \in {"prune", "tombstone"}
      /\ None \notin Dirs
  BY <1>1, InsideFits
<1>3. CASE t.stage = None /\ Goto(p, "putback") /\ UNCHANGED at
  <2>1. InPlace(at, "putback", t)
    BY <1>2 DEF InPlace
  <2> QED
    BY <1>1, <1>3, <2>1, FitsJump DEF Goto, Rollback
<1>4. CASE t.stage # None /\ Move(t.stage, Tombstone) /\ Goto(p, "putback")
  <2>1. t.stage \in Dirs /\ at[t.stage] \in {Name("stage", t.run), C(t.run)}
    BY <1>2, <1>4 DEF InPlace, Some
  <2>2. t.stage # t.prior /\ t.stage # t.found.candidate /\ t.backup \in {None, t.prior}
    BY <1>2, <1>4 DEF Known
  <2>3. \A a : a[t.stage] = Tombstone /\ (\A e \in Dirs \ {t.stage} : a[e] = at[e]) => InPlace(a, "putback", t)
    BY <1>2, <2>2 DEF InPlace, Some
  <2>4. \A r \in Runs \ {t.run} : at[t.stage] # C(r) /\ at[t.stage] # B(r)
    BY <2>1, NamesApart
  <2>5. t.stage \notin Retiring /\ t.stage \notin t.found.backups /\ t.stage \notin PrunedDirs(t)
    BY <1>2 DEF OwnApart
  <2> QED
    <3>1. PICK label \in Before \cup Rollback : label = "putback"
      BY DEF Rollback
    <3>2. /\ pc' = [pc EXCEPT ![p] = label] /\ label \notin {"check", "collect", "stage", "release"}
          /\ \A a : a[t.stage] = Tombstone /\ (\A e \in Dirs \ {t.stage} : a[e] = at[e]) => InPlace(a, label, t)
      BY <1>4, <2>3, <3>1 DEF Goto
    <3> QED
      BY <1>1, <1>4, <2>1, <2>2, <2>4, <2>5, <3>2, FitsMove
<1>5. CASE /\ t.stage # None /\ Occupant(t.run) \notin {None, t.prior, t.stage}
           /\ Move(Occupant(t.run), Name("recovery", t.run)) /\ Goto(p, "surrender")
  <2>1. PICK d \in Dirs : d = Occupant(t.run) /\ at[d] = C(t.run) /\ d # t.prior
    BY <1>2, <1>5, OccupantIs DEF Facts, QuarantineHypotheses, Hypotheses, ImportInv
  <2>2. t.backup \in {None, t.prior}
    BY <1>2 DEF Known
  <2>3. \A a : a[d] = Name("recovery", t.run) /\ (\A e \in Dirs \ {d} : a[e] = at[e]) => InPlace(a, "surrender", t)
    BY <1>2, <2>1, <2>2 DEF InPlace, Some
  <2>4. \A r \in Runs \ {t.run} : at[d] # C(r) /\ at[d] # B(r)
    BY <2>1, NamesApart
  <2>5. at[d].kind = "candidate" /\ at[d] # B(t.run) /\ at[d] # Tombstone /\ at[d] # Name("prune", t.run)
    BY <2>1, Kinded, NamesApart DEF C
  <2>6. d \notin Retiring
    BY <1>2, <2>5
  <2>7. d \notin PrunedDirs(t)
    BY <1>2, <2>5 DEF PrunedDirs, QuarantineFits
  <2>8. d \notin t.found.backups
    BY <1>2, <2>5, <2>7 DEF QuarantineFits
  <2>9. Name("recovery", t.run) # Tombstone
    BY NamesApart
  <2> QED
    <3>1. PICK label \in Before \cup Rollback : label = "surrender"
      BY DEF Rollback
    <3>2. /\ pc' = [pc EXCEPT ![p] = label] /\ label \notin {"check", "collect", "stage", "release"}
          /\ \A a : a[d] = Name("recovery", t.run) /\ (\A e \in Dirs \ {d} : a[e] = at[e])
                    => InPlace(a, label, t)
      BY <1>5, <2>3, <3>1 DEF Goto
    <3> QED
      BY <1>1, <1>5, <2>1, <2>4, <2>6, <2>7, <2>8, <2>9, <3>2, FitsMove, ZenonT(60)
<1> QED
  BY <1>3, <1>4, <1>5 DEF UndoPublication

LEMMA PutBackFits == ASSUME Facts, NEW p \in Procs, PutBack(p) PROVE StepFits(p)
<1> DEFINE t == tx[p]
<1>1. /\ pc[p] = "putback" /\ Inside(p) /\ tx' = [tx EXCEPT ![p] = t]
      /\ pc' = [pc EXCEPT ![p] = "restore"]
  BY Stays DEF PutBack, Goto, Inside, Rollback
<1>2. /\ OwnApart(t, Retiring) /\ InPlace(at, "putback", t) /\ Known(p) /\ t.backup \in Some(Dirs)
  BY <1>1, InsideFits
<1>3. \A a : InPlace(a, "restore", t)
  BY DEF InPlace
<1>4. CASE t.backup = None /\ UNCHANGED at
  BY <1>1, <1>3, <1>4, FitsJump DEF Rollback
<1>5. CASE t.backup # None /\ Move(t.backup, C(t.run))
  <2>1. t.backup \in Dirs /\ t.backup = t.prior /\ at[t.backup] = B(t.run)
    BY <1>2, <1>5 DEF InPlace, Known, Some
  <2>2. \A r \in Runs \ {t.run} : at[t.backup] # C(r) /\ at[t.backup] # B(r)
    BY <2>1, NamesApart
  <2>3. t.backup \notin Retiring /\ t.backup \notin t.found.backups /\ t.backup \notin PrunedDirs(t)
    BY <1>2, <2>1 DEF OwnApart
  <2>4. C(t.run) # Tombstone
    BY NamesApart
  <2> QED
    <3>1. PICK label \in Before \cup Rollback : label = "restore"
      BY DEF Rollback
    <3>2. /\ pc' = [pc EXCEPT ![p] = label] /\ \A a : InPlace(a, label, t)
          /\ label \notin {"check", "collect", "stage", "release"}
      BY <1>1, <1>3, <3>1
    <3> QED
      BY <1>1, <1>5, <2>1, <2>2, <2>3, <2>4, <3>2, FitsMove
<1> QED
  BY <1>4, <1>5 DEF PutBack, C

\* The last of the list goes back to where it came from.
LEMMA RestoreFits == ASSUME Facts, NEW p \in Procs, RestoreBackup(p) PROVE StepFits(p)
<1> DEFINE t == tx[p]  n == Len(t.pruned)  d == t.pruned[n].dir  from == t.pruned[n].from
<1>1. pc[p] = "restore" /\ Inside(p)
  BY DEF RestoreBackup, Inside, Rollback
<1>2. /\ t \in Working /\ OwnApart(t, Retiring) /\ QuarantineFits(at, "restore", t, Retiring) /\ Known(p)
      /\ at \in [Dirs -> Names] /\ t.found.backups \subseteq Dirs
      /\ \A e \in Retiring : e \in Dirs /\ at[e].kind \in {"prune", "tombstone"}
  BY <1>1, InsideFits
<1>3. /\ t.pruned \in Seq([dir: Dirs, from: Names]) /\ n \in Nat
      /\ \A i \in 1..n : t.pruned[i].dir \in Dirs /\ t.pruned[i].from \in Names
  BY <1>2, WorkingIs
<1>4. /\ \A i, j \in 1..n : t.pruned[i].dir = t.pruned[j].dir => i = j
      /\ \A i \in 1..n :
           /\ at[t.pruned[i].dir] \in {Name("prune", t.run), Tombstone}
           /\ t.pruned[i].dir \in Retiring => t.pruned[i].from.kind = "prune"
           /\ t.pruned[i].dir \in t.found.backups =>
                t.pruned[i].from = B(t.run) /\ at[t.pruned[i].dir] = Name("prune", t.run)
  BY <1>2 DEF QuarantineFits
<1>5. \A a, l : l \in {"restore", "release"} => InPlace(a, l, t)
  BY DEF InPlace
<1>6. ASSUME n > 0, Move(d, from), UNCHANGED pc, Note(p, [t EXCEPT !.pruned = SubSeq(@, 1, n - 1)])
      PROVE  StepFits(p)
  <2>1. PICK a, s : a = [at EXCEPT ![d] = from] /\ s = SubSeq(t.pruned, 1, n - 1)
    OBVIOUS
  <2>2. PICK u : u = [t EXCEPT !.pruned = s]
    OBVIOUS
  <2>3. n \in 1..n /\ d \in Dirs /\ from \in Names
    BY <1>3, <1>6
  <2>4. at' = a /\ pc' = [pc EXCEPT ![p] = "restore"] /\ tx' = [tx EXCEPT ![p] = u]
    BY <1>1, <1>6, <2>1, <2>2, Stays DEF Move, Note
  <2>5. a[d] = from /\ \A e \in Dirs \ {d} : a[e] = at[e]
    BY <1>2, <2>1, <2>3
  <2>6. s \in Seq([dir: Dirs, from: Names]) /\ Len(s) = n - 1 /\ \A i \in 1..(n - 1) : s[i] = t.pruned[i]
    BY <1>3, <1>6, <2>1, SeqPrefix
  <2>7. /\ u.pruned = s /\ u.run = t.run /\ u.prior = t.prior /\ u.stage = t.stage /\ u.found = t.found
    BY <1>2, <2>2, <2>6, UpdatePruned
  <2>8. \A i \in 1..(n - 1) : i \in 1..n /\ i # n
    BY <1>3
  <2>9. \A i \in 1..n : i = n \/ i \in 1..(n - 1)
    BY <1>3
  <2> HIDE DEF d, from
  <2>10. PrunedDirs(u) = PrunedDirs(t) \ {d}
    <3>1. PrunedDirs(u) = {s[i].dir : i \in 1..(n - 1)}
      BY <2>6, <2>7 DEF PrunedDirs
    <3>2. \A i \in 1..(n - 1) : s[i].dir = t.pruned[i].dir /\ t.pruned[i].dir # d
      BY <1>4, <2>3, <2>6, <2>8 DEF d
    <3>3. ASSUME NEW e \in PrunedDirs(u) PROVE e \in PrunedDirs(t) \ {d}
      <4>1. PICK i \in 1..(n - 1) : e = s[i].dir
        BY <3>1, <3>3
      <4> QED
        BY <2>8, <3>2, <4>1 DEF PrunedDirs
    <3>4. ASSUME NEW e \in PrunedDirs(t) \ {d} PROVE e \in PrunedDirs(u)
      <4>1. PICK i \in 1..n : e = t.pruned[i].dir
        BY <3>4 DEF PrunedDirs
      <4>2. i \in 1..(n - 1)
        BY <2>9, <3>4, <4>1 DEF d
      <4> QED
        BY <3>1, <3>2, <4>1, <4>2
    <3> QED
      BY <3>3, <3>4
  <2>11. OwnApart(u, Retiring)
    BY <1>2, <2>7, <2>10 DEF OwnApart
  <2>12. /\ at[d] \in {Name("prune", t.run), Tombstone}
         /\ d \in Retiring => from.kind = "prune"
         /\ d \in t.found.backups => from = B(t.run)
         /\ d # t.found.candidate
    BY <1>2, <1>4, <2>3 DEF d, from, Known
  <2>13. QuarantineFits(a, "restore", u, Retiring)
    <3>1. ASSUME NEW i \in 1..Len(s)
          PROVE  /\ a[s[i].dir] \in {Name("prune", t.run), Tombstone}
                 /\ s[i].dir \in Retiring => s[i].from.kind = "prune"
                 /\ s[i].dir \in t.found.backups => s[i].from = B(t.run) /\ a[s[i].dir] = Name("prune", t.run)
      <4>1. i \in 1..(n - 1) /\ i \in 1..n /\ i # n /\ s[i] = t.pruned[i]
        BY <2>6, <2>8
      <4>2. t.pruned[i].dir # d /\ t.pruned[i].dir \in Dirs
        BY <1>3, <1>4, <2>3, <4>1 DEF d
      <4>3. a[t.pruned[i].dir] = at[t.pruned[i].dir]
        BY <2>5, <4>2
      <4> QED
        BY <1>4, <4>1, <4>3
    <3>2. \A i, j \in 1..Len(s) : s[i].dir = s[j].dir => i = j
      BY <1>4, <2>6, <2>8
    <3>3. ASSUME NEW e \in t.found.backups \ PrunedDirs(u) PROVE a[e] = B(t.run)
      <4>1. CASE e = d
        BY <2>5, <2>12, <3>3, <4>1
      <4>2. CASE e # d
        BY <1>2, <2>5, <2>10, <3>3, <4>2 DEF QuarantineFits
      <4> QED
        BY <4>1, <4>2
    <3> QED
      BY <2>7, <3>1, <3>2, <3>3 DEF QuarantineFits
  <2>14. InPlace(a, "restore", u)
    BY DEF InPlace
  <2>15. \A e \in Retiring : a[e] = at[e] \/ a[e].kind \in {"prune", "tombstone"}
    BY <1>2, <2>5, <2>12
  <2>16. BackupsInv'
    BY <1>1, <2>4, <2>11, <2>13, <2>14, <2>15, FitsOn DEF Rollback
  <2>17. Spares(p)
    BY <2>4, <2>5, <2>12, NamesApart DEF Spares
  <2> QED
    BY <2>16, <2>17 DEF StepFits
<1>7. CASE n = 0 /\ Goto(p, "release") /\ UNCHANGED <<at, tx>>
  <2>1. t.pruned = <<>>
    BY <1>3, <1>7
  <2> QED
    BY <1>1, <1>5, <1>7, <2>1, Stays, FitsJump DEF Goto, Rollback
<1> QED
  BY <1>6, <1>7 DEF RestoreBackup

-----------------------------------------------------------------------------
(* The beginning and the end of an import, and what goes on beside it.      *)

LEMMA BeginFits == ASSUME Facts, NEW p \in Procs, ImportBegin(p) PROVE BackupsInv'
<1>0. PICK r \in Runs, overwrite \in BOOLEAN :
        tx' = [tx EXCEPT ![p] = [Idle EXCEPT !.run = r, !.overwrite = overwrite, !.found = Found(r)]]
  BY DEF ImportBegin, Note
<1>1. PICK u :
        /\ u = [Idle EXCEPT !.run = r, !.overwrite = overwrite, !.found = Found(r)]
        /\ tx' = [tx EXCEPT ![p] = u]
  BY <1>0
<1>2. /\ pc' = [pc EXCEPT ![p] = "check"] /\ lock = "free" /\ at' = at /\ pc[p] = "idle"
  BY DEF ImportBegin, LockFree, Goto
<1>3. \A q \in Procs : ~Inside(q)
  BY <1>2 DEF Facts, QuarantineHypotheses, ImportInv, Engaged, Hypotheses, LockNamesApart
<1>4. /\ pc'[p] = "check" /\ tx'[p] = u
      /\ \A q \in Procs \ {p} : pc'[q] = pc[q] /\ tx'[q] = tx[q]
  BY <1>1, <1>2 DEF Facts, ImportInv, Engaged
<1>5. Retiring' = Retiring
  BY <1>2, <1>4, RetiringSame
<1>6. /\ u.run = r /\ u.prior = None /\ u.stage = None /\ u.pruned = <<>>
      /\ u.found.backups = Entries("backup", r)
  BY <1>1 DEF Idle, Found
<1>7. PrunedDirs(u) = {}
  BY <1>6 DEF PrunedDirs
<1>8. None \notin Dirs /\ \A d \in Retiring : d \in Dirs /\ at[d].kind \in {"prune", "tombstone"}
  BY DEF Facts, QuarantineHypotheses, Hypotheses, DistinctNone, BackupsInv, Retiring
<1>9. \A d \in u.found.backups : d \in Dirs /\ at[d] = B(r) /\ at[d].kind = "backup"
  BY <1>6, Kinded DEF Entries, B
<1>10. OwnApart(u, Retiring)
  BY <1>6, <1>7, <1>8, <1>9 DEF OwnApart
<1>11. QuarantineFits(at, "check", u, Retiring)
  BY <1>6, <1>9 DEF QuarantineFits
<1>12. InPlace(at, "check", u)
  BY DEF InPlace
<1>13. ASSUME NEW q \in Procs, Inside(q)'
       PROVE  OwnApart(tx'[q], Retiring') /\ QuarantineFits(at', pc'[q], tx'[q], Retiring')
              /\ InPlace(at', pc'[q], tx'[q])
  <2>1. q = p
    BY <1>3, <1>4, <1>13 DEF Inside
  <2> QED
    BY <1>2, <1>4, <1>5, <1>10, <1>11, <1>12, <2>1
<1> QED
  BY <1>2, <1>5, <1>8, <1>13 DEF BackupsInv

\* Nobody is inside any more.
LEMMA FitsOut ==
  ASSUME Facts, NEW p \in Procs, Inside(p), \A q \in Procs : ~Inside(q)',
         \A d \in Retiring' : d \in Dirs /\ at'[d].kind \in {"prune", "tombstone"}
  PROVE  BackupsInv'
BY DEF BackupsInv

\* The import inside the transaction is the only one that leaves it.
LEMMA Leaves ==
  ASSUME Facts, NEW p \in Procs, Inside(p), NEW label, label \notin Before \cup Rollback, NEW u,
         pc' = [pc EXCEPT ![p] = label], tx' = [tx EXCEPT ![p] = u]
  PROVE  /\ pc'[p] = label /\ tx'[p] = u /\ \A q \in Procs : ~Inside(q)'
         /\ \A q \in Procs \ {p} : pc'[q] = pc[q] /\ tx'[q] = tx[q]
<1>1. /\ pc'[p] = label /\ tx'[p] = u
      /\ \A q \in Procs \ {p} : pc'[q] = pc[q] /\ tx'[q] = tx[q]
  BY DEF Facts, ImportInv, Engaged
<1>2. \A q \in Procs \ {p} : ~Inside(q)
  BY InsideFits
<1> QED
  BY <1>1, <1>2 DEF Inside

\* What the commit leaves to retire is where the list says.
LEMMA CloseFits ==
  ASSUME Facts, NEW p \in Procs, Close(p)
  PROVE  /\ BackupsInv' /\ Retiring' = Retiring \cup PrunedDirs(tx[p])
         /\ \A d \in PrunedDirs(tx[p]) : at[d] \in {Name("prune", tx[p].run), Tombstone}
<1>1. /\ pc[p] = "close" /\ Inside(p) /\ pc' = [pc EXCEPT ![p] = "cleanup"]
      /\ tx' = [tx EXCEPT ![p] = tx[p]] /\ at' = at
  BY Stays DEF Close, Goto, Inside, Before
<1>2. /\ pc'[p] = "cleanup" /\ tx'[p] = tx[p] /\ \A q \in Procs : ~Inside(q)'
      /\ \A q \in Procs \ {p} : pc'[q] = pc[q] /\ tx'[q] = tx[q]
  <2>1. "cleanup" \notin Before \cup Rollback
    BY DEF Before, Rollback
  <2> QED
    BY <1>1, <2>1, Leaves
<1>3. /\ PrunedDirs(tx[p]) \subseteq Dirs /\ QuarantineFits(at, "close", tx[p], Retiring)
      /\ \A d \in Retiring : d \in Dirs /\ at[d].kind \in {"prune", "tombstone"}
  BY <1>1, InsideFits
<1>4. \A q \in Procs, d \in Dirs :
        /\ pc'[q] = "cleanup" <=> q = p \/ pc[q] = "cleanup"
        /\ d \in PrunedDirs(tx[q])' <=> d \in PrunedDirs(tx[q])
  BY <1>1, <1>2 DEF PrunedDirs
<1>5. Retiring' = Retiring \cup PrunedDirs(tx[p])
  BY <1>1, <1>3, <1>4 DEF Retiring
<1>6. \A d \in PrunedDirs(tx[p]) : at[d] \in {Name("prune", tx[p].run), Tombstone}
  BY <1>3 DEF QuarantineFits, PrunedDirs
<1>7. \A d \in Retiring' : d \in Dirs /\ at'[d].kind \in {"prune", "tombstone"}
  BY <1>1, <1>3, <1>5, <1>6, Kinded
<1> QED
  BY <1>1, <1>2, <1>5, <1>6, <1>7, FitsOut

\* An import that surrenders, gives its locks back or dies inside the transaction.
LEMMA LeavingFits ==
  ASSUME Facts, NEW p \in Procs, Inside(p), Surrender(p) \/ Release(p) \/ Abandon(p)
  PROVE  BackupsInv' /\ Retiring' = Retiring /\ (\A q \in Procs : ~Inside(q)') /\ lock' \in {"free", "stale"}
<1> DEFINE t == tx[p]
<1>1. pc' = [pc EXCEPT ![p] = "idle"] /\ tx' = [tx EXCEPT ![p] = Idle]
  BY DEF Surrender, Release, Abandon, Stop, Goto, Note
<1>2. "idle" \notin Before \cup Rollback /\ "idle" # "cleanup"
  BY DEF Before, Rollback
<1>3. /\ pc'[p] = "idle" /\ \A q \in Procs : ~Inside(q)'
      /\ \A q \in Procs \ {p} : pc'[q] = pc[q] /\ tx'[q] = tx[q]
  BY <1>1, <1>2, Leaves
<1>4. /\ pc[p] # "cleanup" /\ OwnApart(t, Retiring) /\ Known(p) /\ lock = p
      /\ at \in [Dirs -> Names] /\ None \notin Dirs
      /\ \A d \in Retiring : d \in Dirs /\ at[d].kind \in {"prune", "tombstone"}
  BY InsideFits
<1>5. Retiring' = Retiring
  BY <1>3, <1>4, RetiringSame
<1>6. \A d \in Retiring : at'[d] = at[d]
  <2>1. t.backup \notin Retiring
    BY <1>4 DEF OwnApart, Known, Retiring
  <2>2. at' = at \/ Move(t.backup, Name("candidate", t.run))
    BY DEF Surrender, Release, Abandon
  <2> QED
    BY <1>4, <2>1, <2>2 DEF Move
<1>7. lock' \in {"free", "stale"}
  BY <1>4 DEF Surrender, Release, Abandon
<1> QED
  BY <1>3, <1>4, <1>5, <1>6, <1>7, FitsOut

\* Beside an import: a clean-up that retires what it has left to retire, or a late save that
\* makes a directory.
Aside ==
  /\ \A p \in Procs : Inside(p)' => Inside(p) /\ pc'[p] = pc[p] /\ tx'[p] = tx[p]
  /\ Retiring' \subseteq Retiring
  /\ \A d \in Dirs : \/ at'[d] = at[d]
                     \/ d \in Retiring /\ at'[d] = Tombstone
                     \/ at[d] = Unmade /\ at'[d].kind = "candidate"

LEMMA AsideFits == ASSUME Facts, Aside PROVE BackupsInv'
<1>1. \A d \in Retiring' : at'[d].kind \in {"prune", "tombstone"}
  BY Kinded DEF Aside, Facts, BackupsInv, Retiring
<1>2. ASSUME NEW p \in Procs, Inside(p)'
      PROVE  OwnApart(tx'[p], Retiring') /\ QuarantineFits(at', pc'[p], tx'[p], Retiring')
             /\ InPlace(at', pc'[p], tx'[p])
  <2> DEFINE t == tx[p]
  <2>1. Inside(p) /\ pc'[p] = pc[p] /\ tx'[p] = t
    BY <1>2 DEF Aside
  <2>2. /\ OwnApart(t, Retiring) /\ QuarantineFits(at, pc[p], t, Retiring) /\ InPlace(at, pc[p], t)
        /\ t \in Working /\ t.found.backups \subseteq Dirs /\ PrunedDirs(t) \subseteq Dirs
        /\ t.prior \in Some(Dirs) /\ t.stage \in Some(Dirs) /\ t.backup \in Some(Dirs) /\ Known(p)
    BY <2>1, InsideFits
  <2>3. \A d \in Dirs \ Retiring : at[d] # Unmade => at'[d] = at[d]
    BY DEF Aside
  <2>4. \A d \in Dirs : at[d] # Unmade => at'[d] \in {at[d], Tombstone}
    BY DEF Aside
  <2>5. OwnApart(t, Retiring')
    BY <2>2 DEF OwnApart, Aside
  <2>6. QuarantineFits(at', pc[p], t, Retiring')
    <3>1. \A i \in 1..Len(t.pruned) : t.pruned[i].dir \in Dirs
      BY <2>2, WorkingIs
    <3>2. ASSUME NEW i \in 1..Len(t.pruned)
          PROVE  /\ at'[t.pruned[i].dir] \in {Name("prune", t.run), Tombstone}
                 /\ t.pruned[i].dir \in Retiring' => t.pruned[i].from.kind = "prune"
                 /\ t.pruned[i].dir \in t.found.backups =>
                      t.pruned[i].from = B(t.run) /\ at'[t.pruned[i].dir] = Name("prune", t.run)
      <4> DEFINE d == t.pruned[i].dir
      <4>1. /\ d \in Dirs /\ at[d] \in {Name("prune", t.run), Tombstone}
            /\ d \in Retiring => t.pruned[i].from.kind = "prune"
            /\ d \in t.found.backups => t.pruned[i].from = B(t.run) /\ at[d] = Name("prune", t.run)
        BY <2>2, <3>1 DEF QuarantineFits
      <4>2. at[d] # Unmade
        BY <4>1, NamesApart
      <4>3. d \in t.found.backups => d \notin Retiring
        BY <2>2 DEF OwnApart
      <4> HIDE DEF d
      <4>4. /\ at'[d] \in {Name("prune", t.run), Tombstone}
            /\ d \in t.found.backups => at'[d] = Name("prune", t.run)
            /\ d \in Retiring' => d \in Retiring
        BY <2>3, <2>4, <4>1, <4>2, <4>3 DEF Aside
      <4> QED
        BY <4>1, <4>4 DEF d
    <3>3. ASSUME NEW d \in t.found.backups \ PrunedDirs(t) PROVE at'[d] = B(t.run)
      <4>1. at[d] = B(t.run) /\ d \in Dirs \ Retiring
        BY <2>2, <3>3 DEF QuarantineFits, OwnApart
      <4> QED
        BY <2>3, <4>1, NamesApart
    <3> QED
      BY <2>2, <3>2, <3>3 DEF QuarantineFits
  <2>7. \A d \in {t.prior, t.stage} : d # None => d \in Dirs \ Retiring
    BY <2>2 DEF OwnApart, Some
  <2>8. t.backup # None => t.backup \in Dirs \ Retiring
    BY <2>2, <2>7 DEF Known
  <2>9. pc[p] \in {"quarantine", "backup", "publish", "close"} => t.stage # None
    BY <2>2 DEF Known
  <2>10. InPlace(at', pc[p], t)
    BY <2>2, <2>3, <2>7, <2>8, <2>9, NamesApart DEF InPlace
  <2> QED
    BY <2>1, <2>5, <2>6, <2>10
<1> QED
  BY <1>1, <1>2 DEF BackupsInv

LEMMA RetireIsAside ==
  ASSUME Facts, NEW p \in Procs, RetireQuarantine(p)
  PROVE  Aside /\ UNCHANGED <<lock, cleared, latest, predecessor>>
<1> DEFINE t == tx[p]
<1>1. /\ pc[p] = "cleanup" /\ UNCHANGED <<lock, cleared, latest, predecessor>>
  BY DEF RetireQuarantine, outside, history
<1>2. /\ Engaged /\ t \in Working /\ t.pruned \in Seq([dir: Dirs, from: Names])
      /\ "cleanup" \notin Before \cup Rollback /\ "idle" \notin Before \cup Rollback
  BY <1>1, WorkingIs DEF Facts, ImportInv, Engaged, Before, Rollback
<1>3. ASSUME t.pruned # <<>>, tx' = [tx EXCEPT ![p] = [t EXCEPT !.pruned = Tail(t.pruned)]],
             pc' = pc, at' = at \/ Move(Head(t.pruned).dir, Tombstone)
      PROVE  Aside
  <2> DEFINE s == t.pruned
             u == [t EXCEPT !.pruned = Tail(s)]
  <2>1. /\ s[1] = Head(s) /\ Len(s) \in Nat /\ Len(s) >= 1 /\ Tail(s) \in Seq([dir: Dirs, from: Names])
        /\ Len(Tail(s)) = Len(s) - 1 /\ \A i \in 1..(Len(s) - 1) : Tail(s)[i] = s[i + 1]
    BY <1>2, <1>3
  <2>2. u.pruned = Tail(s)
    BY <1>2, <2>1, UpdatePruned
  <2>3. tx'[p] = u /\ \A q \in Procs \ {p} : tx'[q] = tx[q]
    BY <1>2, <1>3 DEF Engaged
  <2> HIDE DEF u, s
  <2>4. PrunedDirs(u) \subseteq PrunedDirs(t)
    <3>1. ASSUME NEW i \in 1..Len(u.pruned) PROVE u.pruned[i].dir \in PrunedDirs(t)
      <4>1. i + 1 \in 1..Len(s) /\ u.pruned[i] = s[i + 1]
        BY <2>1, <2>2, <3>1
      <4> QED
        BY <4>1 DEF PrunedDirs, s
    <3> QED
      BY <3>1 DEF PrunedDirs
  <2>5. Head(s).dir \in Retiring
    <3>1. Head(s).dir \in PrunedDirs(t)
      BY <2>1 DEF PrunedDirs, s
    <3> QED
      BY <1>1, <1>2, <3>1, WorkingIs DEF Retiring
  <2>6. \A q \in Procs : PrunedDirs(tx'[q]) \subseteq PrunedDirs(tx[q])
    BY <2>3, <2>4
  <2>7. Retiring' \subseteq Retiring
    <3>1. Retiring' = {d \in Dirs : \E q \in Procs : pc'[q] = "cleanup" /\ d \in PrunedDirs(tx'[q])}
      BY DEF Retiring, PrunedDirs
    <3> QED
      BY <1>3, <2>6, <3>1 DEF Retiring
  <2>8. \A d \in Dirs : at'[d] = at[d] \/ (d \in Retiring /\ at'[d] = Tombstone)
    BY <1>3, <2>5 DEF Move, Facts, ImportInv, Placed, s
  <2>9. \A q \in Procs : Inside(q)' => Inside(q) /\ pc'[q] = pc[q] /\ tx'[q] = tx[q]
    BY <1>1, <1>2, <1>3, <2>3 DEF Inside
  <2> QED
    BY <2>7, <2>8, <2>9 DEF Aside
<1>4. ASSUME Stop(p), at' = at PROVE Aside
  <2>1. /\ pc'[p] = "idle" /\ tx'[p] = Idle /\ \A q \in Procs \ {p} : pc'[q] = pc[q] /\ tx'[q] = tx[q]
    BY <1>2, <1>4 DEF Stop, Goto, Note, Engaged
  <2>2. Retiring' = {d \in Dirs : \E q \in Procs : pc'[q] = "cleanup" /\ d \in PrunedDirs(tx'[q])}
    BY DEF Retiring, PrunedDirs
  <2>3. Retiring' \subseteq Retiring
    BY <2>1, <2>2 DEF Retiring
  <2>4. \A q \in Procs : Inside(q)' => Inside(q) /\ pc'[q] = pc[q] /\ tx'[q] = tx[q]
    BY <1>2, <2>1 DEF Inside
  <2> QED
    BY <1>4, <2>3, <2>4 DEF Aside
<1> QED
  BY <1>1, <1>3, <1>4 DEF RetireQuarantine, Note

LEMMA AbandonIsAside ==
  ASSUME Facts, NEW p \in Procs, ~Inside(p), Abandon(p)
  PROVE  Aside /\ UNCHANGED <<lock, cleared, latest, predecessor>>
<1>1. Engaged /\ "idle" \notin Before \cup Rollback
  BY DEF Facts, ImportInv, Before, Rollback
<1>2. /\ UNCHANGED <<lock, at, cleared, latest, predecessor>> /\ Stop(p)
  BY <1>1 DEF Abandon, outside, history, Engaged
<1>3. /\ pc'[p] = "idle" /\ \A q \in Procs \ {p} : pc'[q] = pc[q] /\ tx'[q] = tx[q]
  BY <1>1, <1>2 DEF Stop, Goto, Note, Engaged
<1>4. Retiring' = {d \in Dirs : \E q \in Procs : pc'[q] = "cleanup" /\ d \in PrunedDirs(tx'[q])}
  BY DEF Retiring, PrunedDirs
<1>5. Retiring' \subseteq Retiring
  BY <1>3, <1>4 DEF Retiring
<1>6. \A q \in Procs : Inside(q)' => Inside(q) /\ pc'[q] = pc[q] /\ tx'[q] = tx[q]
  BY <1>1, <1>3 DEF Inside
<1> QED
  BY <1>2, <1>5, <1>6 DEF Aside

LEMMA StillIsAside ==
  ASSUME Facts, UNCHANGED <<pc, tx>>,
         \A d \in Dirs : at'[d] = at[d] \/ (at[d] = Unmade /\ at'[d].kind = "candidate")
  PROVE  Aside
<1>1. Retiring' = Retiring
  BY DEF Retiring, PrunedDirs
<1>2. \A q \in Procs : Inside(q)' => Inside(q) /\ pc'[q] = pc[q] /\ tx'[q] = tx[q]
  BY DEF Inside
<1> QED
  BY <1>1, <1>2 DEF Aside

LEMMA SaveIsAside ==
  ASSUME Facts, NEW r \in Runs, SaveBegin(r) \/ SaveDecision(r)
  PROVE  Aside /\ UNCHANGED <<lock, cleared, latest, predecessor>>
<1>1. /\ UNCHANGED <<lock, pc, tx, cleared, latest, predecessor>>
      /\ at' = at \/ \E d \in Fresh : Move(d, Name("candidate", r))
  BY DEF SaveBegin, SaveDecision, history
<1>2. \A d \in Dirs : at'[d] = at[d] \/ (at[d] = Unmade /\ at'[d].kind = "candidate")
  <2>1. ASSUME NEW d \in Fresh, Move(d, Name("candidate", r))
        PROVE  \A e \in Dirs : at'[e] = at[e] \/ (at[e] = Unmade /\ at'[e].kind = "candidate")
    BY <2>1, FreshIs, Kinded DEF Move, Facts, ImportInv, Placed
  <2> QED
    BY <1>1, <2>1
<1> QED
  BY <1>1, <1>2, StillIsAside

LEMMA ClearIsAside ==
  ASSUME Facts, ClearLocks
  PROVE  Aside /\ lock = "stale" /\ lock' = "free" /\ cleared' = cleared + 1 /\ UNCHANGED <<at, latest, predecessor>>
BY StillIsAside DEF ClearLocks, history

-----------------------------------------------------------------------------
(* Every step keeps the quarantined backups.                               *)

GoesOnInside(p) ==
  \/ ReadPrior(p) \/ CollectLeftovers(p) \/ StageCandidate(p) \/ StagingFails(p)
  \/ QuarantineBackup(p) \/ MoveAside(p) \/ PublishStage(p) \/ StepFails(p)
  \/ Reconcile(p) \/ UndoPublication(p) \/ PutBack(p) \/ RestoreBackup(p)

LeavesInside(p) == Inside(p) /\ (Surrender(p) \/ Release(p) \/ Abandon(p))

IsBeside ==
  /\ \/ UNCHANGED vars
     \/ \E p \in Procs : RetireQuarantine(p) \/ (~Inside(p) /\ Abandon(p))
     \/ \E r \in Runs : SaveBegin(r) \/ SaveDecision(r)

LEMMA StepCases ==
  ASSUME [Next]_vars
  PROVE  \/ \E p \in Procs : ImportBegin(p) \/ GoesOnInside(p) \/ Close(p) \/ LeavesInside(p)
         \/ IsBeside
         \/ ClearLocks
<1>1. ASSUME NEW p \in Procs, Surrender(p) \/ Release(p) PROVE Inside(p)
  BY <1>1 DEF Surrender, Release, Inside, Rollback
<1> QED
  BY <1>1 DEF Next, GoesOnInside, LeavesInside, IsBeside

LEMMA InsideGoesOn == ASSUME Facts, NEW p \in Procs, GoesOnInside(p) PROVE StepFits(p)
BY ReadPriorFits, CollectFits, StageFits, StagingFailsFits, QuarantineBackupFits, MoveAsideFits,
   PublishFits, StepFailsFits, ReconcileFits, UndoFits, PutBackFits, RestoreFits DEF GoesOnInside

LEMMA BesideIsAside ==
  ASSUME Facts, IsBeside PROVE Aside /\ UNCHANGED <<lock, cleared, latest, predecessor>>
<1>1. CASE UNCHANGED vars
  BY <1>1, StillIsAside DEF vars
<1> QED
  BY <1>1, RetireIsAside, AbandonIsAside, SaveIsAside DEF IsBeside

LEMMA BackupsInitially == ASSUME Init PROVE BackupsInv
<1>1. \A p \in Procs : pc[p] = "idle" /\ ~Inside(p)
  BY DEF Init, Inside, Before, Rollback
<1> QED
  BY <1>1 DEF BackupsInv, Retiring

LEMMA BackupsInductive == ASSUME Facts, [Next]_vars PROVE BackupsInv'
<1>1. ASSUME NEW p \in Procs, ImportBegin(p) \/ GoesOnInside(p) \/ Close(p) \/ LeavesInside(p)
      PROVE  BackupsInv'
  BY <1>1, BeginFits, InsideGoesOn, CloseFits, LeavingFits DEF LeavesInside, StepFits
<1> QED
  BY <1>1, StepCases, BesideIsAside, ClearIsAside, AsideFits

\* The quarantines and what they hold fit the directories in every run of the imports.
THEOREM BackupsInvariant ==
  ASSUME DistinctNone, LockNamesApart, OverlapsAssumption, "quarantine" \notin LateFailures
  PROVE  Spec => [](ImportInv /\ BackupsInv)
<1>1. QuarantineHypotheses
  BY DEF QuarantineHypotheses, Hypotheses
<1>2. Init => ImportInv /\ BackupsInv
  BY <1>1, ImportInitially, BackupsInitially DEF QuarantineHypotheses
<1>3. ImportInv /\ BackupsInv /\ [Next]_vars => ImportInv' /\ BackupsInv'
  BY <1>1, ImportInductive, BackupsInductive DEF Facts, QuarantineHypotheses
<1> QED
  BY <1>2, <1>3, PTL DEF Spec

\* A failed import that gives its locks back has put back every backup it found, where a
\* move that was reported as failed has not happened (tests/foundry/test_importer.py:187).
THEOREM BackupsAreRestored ==
  ASSUME DistinctNone, LockNamesApart, OverlapsAssumption, "quarantine" \notin LateFailures
  PROVE  Spec => []FailureRestoresBackups
<1>1. ASSUME ImportInv, BackupsInv, NEW p \in Procs, pc[p] = "release"
      PROVE  tx[p].found.backups \subseteq Entries("backup", tx[p].run)
  <2>1. Facts /\ Inside(p)
    BY <1>1 DEF Facts, QuarantineHypotheses, Hypotheses, Inside, Rollback
  <2>2. QuarantineFits(at, "release", tx[p], Retiring) /\ tx[p].found.backups \subseteq Dirs
    BY <1>1, <2>1, InsideFits
  <2>3. PrunedDirs(tx[p]) = {}
    BY <2>2 DEF QuarantineFits, PrunedDirs
  <2> QED
    BY <2>2, <2>3 DEF QuarantineFits, Entries, B
<1>2. ImportInv /\ BackupsInv => FailureRestoresBackups
  BY <1>1 DEF FailureRestoresBackups
<1> QED
  BY <1>2, BackupsInvariant, PTL

-----------------------------------------------------------------------------
(* What was committed is kept, where no run's names begin with another's.  *)

KeptFacts == Facts /\ Overlaps = {} /\ KeptInv

\* The history of the commits is only written by a commit.
LEMMA GoesOnIs ==
  ASSUME Facts, NEW p \in Procs, GoesOnInside(p)
  PROVE  /\ Inside(p) /\ Inside(p)' /\ \A q \in Procs \ {p} : ~Inside(q)'
         /\ tx'[p].run = tx[p].run /\ tx'[p].found = tx[p].found
         /\ Retiring' = Retiring
         /\ UNCHANGED <<lock, cleared, latest, predecessor>>
<1> DEFINE t == tx[p]
<1>1. Inside(p) /\ UNCHANGED <<lock, cleared, latest, predecessor>>
  BY DEF GoesOnInside, Inside, Before, Rollback, outside, history, ReadPrior, CollectLeftovers,
         StageCandidate, StagingFails, QuarantineBackup, MoveAside, PublishStage, StepFails,
         Reconcile, UndoPublication, PutBack, RestoreBackup
<1>2. t \in Working /\ Engaged /\ pc[p] \in Before \cup Rollback /\ \A q \in Procs \ {p} : ~Inside(q)
  BY <1>1, InsideFits DEF Facts, ImportInv, Inside
<1>3. pc' = pc \/ \E label \in Before \cup Rollback : pc' = [pc EXCEPT ![p] = label]
  <2>1. {"collect", "stage", "publish", "quarantine", "reconcile", "backup", "close", "undo", "putback",
         "surrender", "restore", "release"} \subseteq Before \cup Rollback
    BY DEF Before, Rollback
  <2>2. CASE ReadPrior(p) \/ CollectLeftovers(p) \/ StagingFails(p) \/ QuarantineBackup(p)
    BY <2>1, <2>2 DEF ReadPrior, CollectLeftovers, StagingFails, QuarantineBackup, Goto
  <2>3. CASE StageCandidate(p) \/ MoveAside(p) \/ PublishStage(p) \/ StepFails(p)
    BY <2>1, <2>3 DEF StageCandidate, MoveAside, PublishStage, StepFails, Goto
  <2>4. CASE Reconcile(p) \/ UndoPublication(p) \/ PutBack(p) \/ RestoreBackup(p)
    BY <2>1, <2>4 DEF Reconcile, UndoPublication, PutBack, RestoreBackup, Goto
  <2> QED
    BY <2>2, <2>3, <2>4 DEF GoesOnInside
<1>4. \/ tx' = tx
      \/ \E v : \/ tx' = [tx EXCEPT ![p] = [t EXCEPT !.prior = v]]
                \/ tx' = [tx EXCEPT ![p] = [t EXCEPT !.stage = v]]
                \/ tx' = [tx EXCEPT ![p] = [t EXCEPT !.backup = v]]
                \/ tx' = [tx EXCEPT ![p] = [t EXCEPT !.pruned = v]]
  <2>1. CASE CollectLeftovers(p) \/ StagingFails(p) \/ PublishStage(p) \/ StepFails(p)
             \/ UndoPublication(p) \/ PutBack(p)
    BY <2>1 DEF CollectLeftovers, StagingFails, PublishStage, StepFails, UndoPublication, PutBack
  <2>2. CASE ReadPrior(p)
    BY <2>2 DEF ReadPrior, Note
  <2>3. CASE StageCandidate(p)
    BY <2>3 DEF StageCandidate, Note
  <2>4. CASE MoveAside(p)
    BY <2>4 DEF MoveAside, Note
  <2>5. CASE Reconcile(p)
    BY <2>5 DEF Reconcile, Note
  <2>6. CASE QuarantineBackup(p)
    BY <2>6 DEF QuarantineBackup, Note
  <2>7. CASE RestoreBackup(p)
    BY <2>7 DEF RestoreBackup, Note
  <2> QED
    BY <2>1, <2>2, <2>3, <2>4, <2>5, <2>6, <2>7 DEF GoesOnInside
<1>5. /\ tx'[p].run = t.run /\ tx'[p].found = t.found
      /\ \A q \in Procs \ {p} : tx'[q] = tx[q]
  <2>1. ASSUME NEW v
        PROVE  /\ [t EXCEPT !.prior = v].run = t.run /\ [t EXCEPT !.prior = v].found = t.found
               /\ [t EXCEPT !.stage = v].run = t.run /\ [t EXCEPT !.stage = v].found = t.found
               /\ [t EXCEPT !.backup = v].run = t.run /\ [t EXCEPT !.backup = v].found = t.found
               /\ [t EXCEPT !.pruned = v].run = t.run /\ [t EXCEPT !.pruned = v].found = t.found
    BY <1>2 DEF Working, Txs
  <2>2. CASE tx' = tx
    BY <2>2
  <2>3. ASSUME NEW u, tx' = [tx EXCEPT ![p] = u], u.run = t.run, u.found = t.found
        PROVE  /\ tx'[p].run = t.run /\ tx'[p].found = t.found
               /\ \A q \in Procs \ {p} : tx'[q] = tx[q]
    BY <1>2, <2>3 DEF Engaged
  <2>4. \E u : tx' = [tx EXCEPT ![p] = u] /\ u.run = t.run /\ u.found = t.found
    <3>1. CASE tx' = tx
      BY <3>1, <1>2 DEF Engaged
    <3> QED
      BY <1>4, <2>1, <3>1, ZenonT(60)
  <2> QED
    BY <2>3, <2>4
<1>6. pc'[p] \in Before \cup Rollback /\ \A q \in Procs \ {p} : pc'[q] = pc[q]
  BY <1>2, <1>3 DEF Engaged
<1>7. pc[p] # "cleanup" /\ pc'[p] # "cleanup"
  BY <1>2, <1>6 DEF Before, Rollback
<1>8. Retiring' = Retiring
  BY <1>5, <1>6, <1>7, RetiringSame
<1> QED
  BY <1>1, <1>2, <1>5, <1>6, <1>8 DEF Inside

LEMMA GoesOnKeeps == ASSUME KeptFacts, NEW p \in Procs, GoesOnInside(p) PROVE KeptInv'
<1> DEFINE t == tx[p]
<1>1. /\ Facts /\ Spares(p) /\ KeptInv
  BY InsideGoesOn DEF KeptFacts, StepFits
<1>2. /\ Inside(p) /\ Inside(p)' /\ \A q \in Procs \ {p} : ~Inside(q)'
      /\ tx'[p].run = t.run /\ tx'[p].found = t.found
      /\ Retiring' = Retiring
      /\ UNCHANGED <<lock, cleared, latest, predecessor>>
  BY <1>1, GoesOnIs
<1>3. t.run \in Runs /\ lock = p /\ lock # "free" /\ lock # "stale"
  BY <1>1, <1>2, InsideFits DEF Facts, QuarantineHypotheses, Hypotheses, LockNamesApart
<1>4. ASSUME NEW r \in Runs, NEW d \in Dirs, at[d] \in {C(r), B(r)}, r # t.run
      PROVE  at'[d] = at[d]
  BY <1>1, <1>4 DEF Spares
<1>5. ASSUME NEW d \in Dirs, d \in t.found.backups \cup {t.found.candidate}, at[d] # Tombstone
      PROVE  at'[d] # Tombstone
  BY <1>1, <1>5 DEF Spares
<1>6. ASSUME NEW r \in Runs, LatestKept(r), latest[r] # None PROVE LatestKept(r)'
  <2> DEFINE d == latest[r]
  <2>1. /\ d \in Dirs \ Retiring /\ at[d] # Tombstone
        /\ IF t.run = r
           THEN /\ d \in t.found.backups \cup {t.found.candidate}
                /\ cleared = 0 => d = t.found.candidate
           ELSE at[d] \in {C(r), B(r)} /\ (cleared = 0 => at[d] = C(r))
    BY <1>2, <1>6 DEF LatestKept, Kept
  <2>2. at'[d] # Tombstone /\ (t.run # r => at'[d] = at[d])
    BY <1>4, <1>5, <2>1
  <2>3. ASSUME NEW q \in Procs, Inside(q)'
        PROVE  IF tx'[q].run = r
               THEN /\ d \in tx'[q].found.backups \cup {tx'[q].found.candidate}
                    /\ cleared' = 0 => d = tx'[q].found.candidate
               ELSE at'[d] \in {C(r), B(r)} /\ (cleared' = 0 => at'[d] = C(r))
    <3>1. q = p
      BY <1>2, <2>3
    <3> QED
      BY <1>2, <2>1, <2>2, <3>1
  <2>4. latest'[r] = d /\ d \in Dirs \ Retiring' /\ lock' # "free" /\ lock' # "stale"
    BY <1>2, <1>3, <2>1 DEF d
  <2> HIDE DEF d
  <2> QED
    BY <2>2, <2>3, <2>4 DEF LatestKept, Kept, C, B
<1>7. ASSUME NEW r \in Runs, PredecessorKept(r), predecessor[r] # None PROVE PredecessorKept(r)'
  <2> DEFINE d == predecessor[r]
  <2>1. /\ d \in Dirs \ Retiring /\ at[d] # Tombstone
        /\ IF t.run = r THEN d \in t.found.backups ELSE at[d] = B(r)
    BY <1>2, <1>7 DEF PredecessorKept, Kept
  <2>2. at'[d] # Tombstone /\ (t.run # r => at'[d] = at[d])
    BY <1>4, <1>5, <2>1
  <2>3. ASSUME NEW q \in Procs, Inside(q)'
        PROVE  IF tx'[q].run = r THEN d \in tx'[q].found.backups ELSE at'[d] = B(r)
    <3>1. q = p
      BY <1>2, <2>3
    <3> QED
      BY <1>2, <2>1, <2>2, <3>1
  <2>4. predecessor'[r] = d /\ d \in Dirs \ Retiring' /\ lock' # "free"
    BY <1>2, <1>3, <2>1 DEF d
  <2> HIDE DEF d
  <2> QED
    BY <2>2, <2>3, <2>4 DEF PredecessorKept, Kept, C, B
<1>8. latest' = latest /\ predecessor' = predecessor /\ cleared' = cleared
  BY <1>2
<1> QED
  BY <1>1, <1>6, <1>7, <1>8 DEF KeptInv

LEMMA BeginKeepsAll == ASSUME KeptFacts, NEW p \in Procs, ImportBegin(p) PROVE KeptInv'
<1>0. PICK s \in Runs, overwrite \in BOOLEAN :
        tx' = [tx EXCEPT ![p] = [Idle EXCEPT !.run = s, !.overwrite = overwrite, !.found = Found(s)]]
  BY DEF ImportBegin, Note
<1>1. PICK u :
        /\ u = [Idle EXCEPT !.run = s, !.overwrite = overwrite, !.found = Found(s)]
        /\ tx' = [tx EXCEPT ![p] = u]
  BY <1>0
<1>2. /\ pc' = [pc EXCEPT ![p] = "check"] /\ lock = "free" /\ at' = at /\ pc[p] = "idle" /\ lock' = p
      /\ UNCHANGED <<cleared, latest, predecessor>>
  BY DEF ImportBegin, LockFree, Goto, outside, history
<1>3. Facts /\ KeptInv /\ DistinctNone /\ Placed /\ LockNamesApart
  BY DEF KeptFacts, Facts, QuarantineHypotheses, Hypotheses, ImportInv
<1>4. \A q \in Procs : ~Inside(q)
  BY <1>2, <1>3 DEF Facts, ImportInv, Engaged, LockNamesApart
<1>5. /\ pc'[p] = "check" /\ tx'[p] = u
      /\ \A q \in Procs \ {p} : pc'[q] = pc[q] /\ tx'[q] = tx[q]
  BY <1>1, <1>2, <1>3 DEF Facts, ImportInv, Engaged
<1>6. Retiring' = Retiring
  BY <1>2, <1>5, RetiringSame
<1>7. \A q \in Procs \ {p} : ~Inside(q)'
  BY <1>4, <1>5 DEF Inside
<1>8. u.run = s /\ u.found.backups = Entries("backup", s) /\ u.found.candidate = Occupant(s)
  BY <1>1 DEF Idle, Found
<1>9. /\ \A d \in Dirs : at[d] = C(s) => d = u.found.candidate
      /\ \A d \in Dirs : at[d] = B(s) => d \in u.found.backups
  BY <1>3, <1>8, OccupantIs DEF Entries, B
<1>10. lock' # "free" /\ lock' # "stale"
  BY <1>2, <1>3 DEF LockNamesApart
<1>11. ASSUME NEW r \in Runs, LatestKept(r) PROVE LatestKept(r)'
  <2> DEFINE d == latest[r]
  <2>1. d \in Dirs \ Retiring /\ at[d] # Tombstone /\ at[d] \in {C(r), B(r)} /\ (cleared = 0 => at[d] = C(r))
    BY <1>2, <1>11 DEF LatestKept, Kept
  <2>2. ASSUME NEW q \in Procs, Inside(q)'
        PROVE  IF tx'[q].run = r
               THEN /\ d \in tx'[q].found.backups \cup {tx'[q].found.candidate}
                    /\ cleared' = 0 => d = tx'[q].found.candidate
               ELSE at'[d] \in {C(r), B(r)} /\ (cleared' = 0 => at'[d] = C(r))
    <3>1. q = p
      BY <1>7, <2>2
    <3> QED
      BY <1>2, <1>5, <1>8, <1>9, <2>1, <3>1
  <2>3. latest'[r] = d /\ at'[d] = at[d] /\ d \in Dirs \ Retiring'
    BY <1>2, <1>6, <2>1
  <2> HIDE DEF d
  <2> QED
    BY <1>10, <2>1, <2>2, <2>3 DEF LatestKept, Kept, C, B
<1>12. ASSUME NEW r \in Runs, PredecessorKept(r) PROVE PredecessorKept(r)'
  <2> DEFINE d == predecessor[r]
  <2>1. d \in Dirs \ Retiring /\ at[d] # Tombstone /\ at[d] = B(r)
    BY <1>2, <1>12 DEF PredecessorKept, Kept
  <2>2. ASSUME NEW q \in Procs, Inside(q)'
        PROVE  IF tx'[q].run = r THEN d \in tx'[q].found.backups ELSE at'[d] = B(r)
    <3>1. q = p
      BY <1>7, <2>2
    <3> QED
      BY <1>2, <1>5, <1>8, <1>9, <2>1, <3>1
  <2>3. predecessor'[r] = d /\ at'[d] = at[d] /\ d \in Dirs \ Retiring'
    BY <1>2, <1>6, <2>1
  <2> HIDE DEF d
  <2> QED
    BY <1>10, <2>1, <2>2, <2>3 DEF PredecessorKept, Kept, C, B
<1> QED
  BY <1>2, <1>3, <1>11, <1>12 DEF KeptInv

LEMMA CloseKeepsAll == ASSUME KeptFacts, NEW p \in Procs, Close(p) PROVE KeptInv'
<1> DEFINE t == tx[p]
<1>1. Facts /\ KeptInv
  BY DEF KeptFacts
<1>2. /\ pc[p] = "close" /\ Inside(p) /\ at' = at /\ cleared' = cleared /\ lock' = "free"
      /\ latest' = [latest EXCEPT ![t.run] = t.stage]
      /\ predecessor' = [predecessor EXCEPT ![t.run] = t.prior]
  BY DEF Close, Inside, Before
<1>3. /\ Retiring' = Retiring \cup PrunedDirs(t)
      /\ \A d \in PrunedDirs(t) : at[d] \in {Name("prune", t.run), Tombstone}
  BY <1>1, CloseFits
<1>4. \A q \in Procs : ~Inside(q)'
  <2>1. "cleanup" \notin Before \cup Rollback
    BY DEF Before, Rollback
  <2> QED
    BY <1>1, <1>2, <2>1, Leaves, Stays DEF Close, Goto
<1>5. /\ t.run \in Runs /\ OwnApart(t, Retiring) /\ Known(p) /\ BackupsCollected(p)
      /\ t.prior \in Some(Dirs) /\ t.stage \in Some(Dirs) /\ at[t.stage] = C(t.run)
      /\ None \notin Dirs
  <2>1. Hypotheses /\ ImportInv
    BY <1>1 DEF Facts, QuarantineHypotheses
  <2> QED
    BY <1>1, <1>2, <2>1, InsideFits, Opened DEF InPlace
<1>6. /\ t.stage \in Dirs \ Retiring' /\ at[t.stage] = C(t.run)
      /\ t.prior # None => t.prior \in Dirs \ Retiring' /\ at[t.prior] = B(t.run)
  BY <1>2, <1>3, <1>5 DEF OwnApart, Known, BackupsCollected, Some
<1>7. ASSUME NEW r \in Runs, NEW d \in Dirs \ Retiring, at[d] \in {C(r), B(r)} PROVE d \notin Retiring'
  BY <1>3, <1>7, NamesApart
<1>8. /\ latest' \in [Runs -> Some(Dirs)] /\ predecessor' \in [Runs -> Some(Dirs)]
      /\ latest'[t.run] = t.stage /\ predecessor'[t.run] = t.prior
      /\ \A r \in Runs \ {t.run} : latest'[r] = latest[r] /\ predecessor'[r] = predecessor[r]
  BY <1>1, <1>2, <1>5 DEF KeptInv
<1>9. ASSUME NEW r \in Runs, cleared <= 1, latest'[r] # None PROVE LatestKept(r)'
  <2> DEFINE d == latest'[r]
  <2>1. CASE r = t.run
    <3>1. d \in Dirs \ Retiring' /\ at'[d] = C(r)
      BY <1>2, <1>6, <1>8, <2>1
    <3> QED
      BY <1>2, <1>4, <3>1, NamesApart DEF LatestKept, Kept, C, B
  <2>2. CASE r # t.run
    <3>1. d = latest[r] /\ LatestKept(r)
      BY <1>1, <1>8, <1>9, <2>2 DEF KeptInv
    <3>2. d \in Dirs \ Retiring /\ at[d] \in {C(r), B(r)} /\ (cleared = 0 => at[d] = C(r))
      BY <1>2, <2>2, <3>1 DEF LatestKept, Kept
    <3>3. d \in Dirs \ Retiring' /\ at'[d] = at[d]
      BY <1>2, <1>7, <3>2
    <3> QED
      BY <1>2, <1>4, <3>2, <3>3, NamesApart DEF LatestKept, Kept, C, B
  <2> QED
    BY <2>1, <2>2
<1>10. ASSUME NEW r \in Runs, cleared = 0, predecessor'[r] # None PROVE PredecessorKept(r)'
  <2> DEFINE d == predecessor'[r]
  <2>1. CASE r = t.run
    <3>1. d \in Dirs \ Retiring' /\ at'[d] = B(r)
      BY <1>2, <1>6, <1>8, <1>10, <2>1
    <3> QED
      BY <1>2, <1>4, <3>1, NamesApart DEF PredecessorKept, Kept, C, B
  <2>2. CASE r # t.run
    <3>1. d = predecessor[r] /\ PredecessorKept(r)
      BY <1>1, <1>8, <1>10, <2>2 DEF KeptInv
    <3>2. d \in Dirs \ Retiring /\ at[d] = B(r)
      BY <1>2, <2>2, <3>1 DEF PredecessorKept, Kept
    <3>3. d \in Dirs \ Retiring' /\ at'[d] = at[d]
      BY <1>2, <1>7, <3>2
    <3> QED
      BY <1>2, <1>4, <3>2, <3>3, NamesApart DEF PredecessorKept, Kept, C, B
  <2> QED
    BY <2>1, <2>2
<1> QED
  BY <1>2, <1>8, <1>9, <1>10 DEF KeptInv

LEMMA LeavingKeepsAll == ASSUME KeptFacts, NEW p \in Procs, LeavesInside(p) PROVE KeptInv'
<1> DEFINE t == tx[p]
<1>1. Facts /\ KeptInv /\ Inside(p)
  BY DEF KeptFacts, LeavesInside
<1>2. /\ Retiring' = Retiring /\ (\A q \in Procs : ~Inside(q)') /\ lock' \in {"free", "stale"}
  BY <1>1, LeavingFits DEF LeavesInside
<1>3. UNCHANGED <<cleared, latest, predecessor>>
  BY DEF LeavesInside, Surrender, Release, Abandon, outside, history
<1>4. /\ t.run \in Runs /\ QuarantineFits(at, pc[p], t, Retiring) /\ InPlace(at, pc[p], t)
      /\ FoundStands(p) /\ None \notin Dirs /\ t.backup \in Some(Dirs) /\ at \in [Dirs -> Names]
      /\ t.found.backups \subseteq Dirs /\ pc[p] \in Before \cup Rollback
  BY <1>1, InsideFits DEF Inside
\* Only the predecessor moves, back to its name.
<1>5. \A d \in Dirs : at'[d] = at[d] \/ (at[d] = B(t.run) /\ at'[d] = C(t.run))
  <2>1. CASE at' = at
    BY <2>1
  <2>2. CASE pc[p] = "surrender" /\ t.backup # None /\ Move(t.backup, Name("candidate", t.run))
    BY <1>4, <2>2 DEF Move, InPlace, Some, C
  <2> QED
    BY <2>1, <2>2 DEF LeavesInside, Surrender, Release, Abandon
<1>6. lock' = "free" => pc[p] = "release" /\ at' = at
  BY <1>1, InsideFits DEF LeavesInside, Surrender, Release, Abandon
<1>7. pc[p] = "release" => \A d \in t.found.backups : at[d] = B(t.run)
  BY <1>4 DEF QuarantineFits, PrunedDirs
<1>8. t.found.candidate \in Dirs =>
        /\ at[t.found.candidate] \in {C(t.run), B(t.run)}
        /\ pc[p] = "release" => at[t.found.candidate] = C(t.run)
  BY <1>4 DEF FoundStands, Before, Rollback
<1>9. ASSUME NEW r \in Runs, LatestKept(r) PROVE LatestKept(r)'
  <2> DEFINE d == latest[r]
  <2>1. /\ d \in Dirs \ Retiring /\ at[d] # Tombstone
        /\ IF t.run = r
           THEN /\ d \in t.found.backups \cup {t.found.candidate}
                /\ cleared = 0 => d = t.found.candidate
           ELSE at[d] \in {C(r), B(r)} /\ (cleared = 0 => at[d] = C(r))
    BY <1>1, <1>9 DEF LatestKept, Kept
  <2>2. at'[d] # Tombstone
    BY <1>5, <2>1, NamesApart
  <2>3. CASE t.run = r
    <3>1. lock' = "free" => at'[d] \in {C(r), B(r)} /\ (cleared = 0 => at'[d] = C(r))
      BY <1>6, <1>7, <1>8, <2>1, <2>3
    <3>2. cleared = 0 => at'[d] \in {C(r), B(r)}
      BY <1>5, <1>8, <2>1, <2>3
    <3> QED
      BY <1>2, <1>3, <2>1, <2>2, <3>1, <3>2 DEF LatestKept, Kept, C, B
  <2>4. CASE t.run # r
    <3>1. at'[d] = at[d]
      BY <1>4, <1>5, <2>1, <2>4, NamesApart
    <3> QED
      BY <1>2, <1>3, <2>1, <2>2, <2>4, <3>1 DEF LatestKept, Kept, C, B
  <2> QED
    BY <2>3, <2>4
<1>10. ASSUME NEW r \in Runs, PredecessorKept(r) PROVE PredecessorKept(r)'
  <2> DEFINE d == predecessor[r]
  <2>1. /\ d \in Dirs \ Retiring /\ at[d] # Tombstone
        /\ IF t.run = r THEN d \in t.found.backups ELSE at[d] = B(r)
    BY <1>1, <1>10 DEF PredecessorKept, Kept
  <2>2. at'[d] # Tombstone
    BY <1>5, <2>1, NamesApart
  <2>3. lock' = "free" => at'[d] = B(r)
    BY <1>6, <1>7, <2>1
  <2> QED
    BY <1>2, <1>3, <2>1, <2>2, <2>3 DEF PredecessorKept, Kept, C, B
<1> QED
  BY <1>1, <1>3, <1>9, <1>10 DEF KeptInv

LEMMA AsideKeepsAll ==
  ASSUME KeptFacts, Aside,
         \/ UNCHANGED <<lock, cleared, latest, predecessor>>
         \/ ClearLocks
  PROVE  KeptInv'
<1>1. /\ Facts /\ KeptInv /\ LockNamesApart /\ cleared \in Nat /\ DistinctNone
      /\ Retiring' \subseteq Retiring
      /\ \A q \in Procs : Inside(q)' => Inside(q) /\ pc'[q] = pc[q] /\ tx'[q] = tx[q]
      /\ \A q \in Procs : Inside(q) => lock = q
  BY DEF KeptFacts, Facts, QuarantineHypotheses, Hypotheses, ImportInv, Placed, Engaged, Aside
<1>2. /\ latest' = latest /\ predecessor' = predecessor
      /\ \/ lock' = lock /\ cleared' = cleared
         \/ lock = "stale" /\ lock' = "free" /\ cleared' = cleared + 1
  BY <1>1, ClearIsAside
<1>3. \A r \in Runs, d \in Dirs \ Retiring :
        /\ at[d] \in {C(r), B(r)} => at'[d] = at[d]
        /\ at[d] # Tombstone => at'[d] # Tombstone
  BY NamesApart, Kinded DEF Aside
<1>4. ASSUME NEW r \in Runs, cleared' <= 1, latest[r] # None PROVE LatestKept(r)'
  <2> DEFINE d == latest[r]
  <2>1. LatestKept(r)
    BY <1>1, <1>2, <1>4 DEF KeptInv
  <2>2. d \in Dirs \ Retiring /\ at[d] # Tombstone
    BY <2>1 DEF LatestKept, Kept
  <2>3. d \in Dirs \ Retiring' /\ at'[d] # Tombstone
    BY <1>1, <1>3, <2>2
  <2>4. CASE lock' = lock /\ cleared' = cleared
    <3>1. /\ lock' = "free" => at'[d] \in {C(r), B(r)} /\ (cleared' = 0 => at'[d] = C(r))
          /\ lock' = "stale" /\ cleared' = 0 => at'[d] \in {C(r), B(r)}
      BY <1>3, <2>1, <2>2, <2>4 DEF LatestKept
    <3>2. ASSUME NEW q \in Procs, Inside(q)'
          PROVE  IF tx'[q].run = r
                 THEN /\ d \in tx'[q].found.backups \cup {tx'[q].found.candidate}
                      /\ cleared' = 0 => d = tx'[q].found.candidate
                 ELSE at'[d] \in {C(r), B(r)} /\ (cleared' = 0 => at'[d] = C(r))
      BY <1>1, <1>3, <2>1, <2>2, <2>4, <3>2 DEF LatestKept
    <3> QED
      BY <1>2, <2>3, <3>1, <3>2 DEF LatestKept, Kept, C, B
  <2>5. CASE lock = "stale" /\ lock' = "free" /\ cleared' = cleared + 1
    <3>1. cleared = 0 /\ cleared' # 0 /\ \A q \in Procs : ~Inside(q)'
      BY <1>1, <1>4, <2>5 DEF LockNamesApart
    <3>2. at'[d] \in {C(r), B(r)}
      BY <1>3, <2>1, <2>2, <2>5, <3>1 DEF LatestKept
    <3> QED
      BY <1>2, <2>3, <2>5, <3>1, <3>2 DEF LatestKept, Kept, C, B
  <2> QED
    BY <1>2, <2>4, <2>5
<1>5. ASSUME NEW r \in Runs, cleared' = 0, predecessor[r] # None PROVE PredecessorKept(r)'
  <2> DEFINE d == predecessor[r]
  <2>1. lock' = lock /\ cleared' = cleared
    BY <1>1, <1>2, <1>5
  <2>2. PredecessorKept(r)
    BY <1>1, <1>5, <2>1 DEF KeptInv
  <2>3. d \in Dirs \ Retiring /\ at[d] # Tombstone
    BY <2>2 DEF PredecessorKept, Kept
  <2>4. d \in Dirs \ Retiring' /\ at'[d] # Tombstone
    BY <1>1, <1>3, <2>3
  <2>5. lock' = "free" => at'[d] = B(r)
    BY <1>3, <2>1, <2>2, <2>3 DEF PredecessorKept
  <2>6. ASSUME NEW q \in Procs, Inside(q)'
        PROVE  IF tx'[q].run = r THEN d \in tx'[q].found.backups ELSE at'[d] = B(r)
    BY <1>1, <1>3, <2>2, <2>3, <2>6 DEF PredecessorKept
  <2> QED
    BY <1>2, <2>4, <2>5, <2>6 DEF PredecessorKept, Kept, C, B
<1> QED
  BY <1>1, <1>2, <1>4, <1>5 DEF KeptInv

LEMMA KeptInitially == ASSUME Init PROVE KeptInv
BY DEF Init, KeptInv, Some

LEMMA KeptInductive == ASSUME KeptFacts, [Next]_vars PROVE KeptInv'
<1>1. Facts
  BY DEF KeptFacts
<1>2. ASSUME NEW p \in Procs, ImportBegin(p) \/ GoesOnInside(p) \/ Close(p) \/ LeavesInside(p)
      PROVE  KeptInv'
  BY <1>2, BeginKeepsAll, GoesOnKeeps, CloseKeepsAll, LeavingKeepsAll
<1> QED
  BY <1>1, <1>2, StepCases, BesideIsAside, ClearIsAside, AsideKeepsAll

\* A committed candidate is never retired, nor what it replaced while the locks are as the
\* program left them, where no run's names begin with another's and a quarantine that was
\* reported as failed has not happened (importer.py:145-172, :338-360).
THEOREM CommittedIsNeverRetired ==
  ASSUME DistinctNone, LockNamesApart, OverlapsAssumption, Overlaps = {}, "quarantine" \notin LateFailures
  PROVE  Spec => []CommittedIsKept
<1>1. QuarantineHypotheses
  BY DEF QuarantineHypotheses, Hypotheses
<1>2. Init => ImportInv /\ BackupsInv /\ KeptInv
  BY <1>1, ImportInitially, BackupsInitially, KeptInitially DEF QuarantineHypotheses
<1>3. ImportInv /\ BackupsInv /\ KeptInv /\ [Next]_vars => ImportInv' /\ BackupsInv' /\ KeptInv'
  BY <1>1, ImportInductive, BackupsInductive, KeptInductive DEF KeptFacts, Facts, QuarantineHypotheses
<1>4. KeptInv => CommittedIsKept
  BY DEF KeptInv, LatestKept, PredecessorKept, Kept, CommittedIsKept
<1> QED
  BY <1>2, <1>3, <1>4, PTL DEF Spec
=============================================================================
