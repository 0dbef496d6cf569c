------------------------ MODULE RunPublicationProofs ------------------------
(***************************************************************************)
(* What publication without replacement gives, for any number of commands, *)
(* directories and outside moves: what a command returned stands under its *)
(* name, and the run's name never holds a run that is not whole.           *)
(***************************************************************************)
EXTENDS RunPublication, TLAPS

-----------------------------------------------------------------------------
(* The inductive invariant.  A claim is a name that a command has taken    *)
(* and not confirmed.                                                      *)

Ops == {"run", "address"}
Holds(d, op) == at[d] = Final(op)
Claims(p, op) == pc[p] \in {"confirm", "quarantine"} /\ tx[p].op = op
Clean(op) == op \in Ops /\ op \notin touched

Labels == {"idle", "reuse", "stage", "source", "rename", "confirm", "quarantine"}

Shape(t) == DOMAIN t = {"op", "mode", "dir", "seen"}

Shapes ==
  /\ at = [d \in Dirs |-> at[d]] /\ tree = [d \in Dirs |-> tree[d]]
  /\ asked = [d \in Dirs |-> asked[d]]
  /\ pc \in [Procs -> Labels] /\ tx = [p \in Procs |-> tx[p]]
  /\ \A p \in Procs : Shape(tx[p]) /\ (pc[p] # "idle" => tx[p].op \in Ops)
  /\ \A p \in Procs : pc[p] = "reuse" => tx[p].op = "address"

\* A directory nobody filled is empty, also one that was put in place of a stage.
UnmadeEmpty == \A d \in Dirs : at[d] = Unmade => tree[d] = NoFiles
ForeignEmpty == \A d, e \in Dirs : at[d] = Stage(e) /\ d # e => tree[d] = NoFiles

FinalsUnique == \A op \in Ops : \A d, e \in Dirs : Holds(d, op) /\ Holds(e, op) => d = e

StagesFilled ==
  \A p \in Procs : pc[p] \in {"source", "rename", "confirm", "quarantine"} =>
    /\ tx[p].dir \in Dirs /\ at[tx[p].dir] # Unmade /\ tree[tx[p].dir] # NoFiles
    /\ tx[p].op = "run" => "run" \in DOMAIN tree[tx[p].dir]

\* One command claims a clean name; it holds the stage or an empty directory, and
\* after the distrust only the latter.
ClaimsOccupied == \A p \in Procs, op \in Ops : Clean(op) /\ Claims(p, op) => \E d \in Dirs : Holds(d, op)
ClaimsUnique == \A p, q \in Procs, op \in Ops : Clean(op) /\ Claims(p, op) /\ Claims(q, op) => p = q
ClaimsHoldStage ==
  \A p \in Procs, op \in Ops, d \in Dirs :
    Clean(op) /\ Claims(p, op) /\ Holds(d, op) =>
      tree[d] = NoFiles \/ (d = tx[p].dir /\ pc[p] = "confirm")

ReturnedHolds ==
  \A r \in returned :
    /\ r.op \in Ops /\ r.dir \in Dirs /\ at[r.dir] # Unmade /\ tree[r.dir] # NoFiles
    /\ Clean(r.op) => Holds(r.dir, r.op)

PartialIsClaimed ==
  \A d \in Dirs :
    Clean("run") /\ Holds(d, "run") /\ "run" \notin DOMAIN tree[d] => \E p \in Procs : Claims(p, "run")

PublicationInv ==
  /\ Shapes /\ UnmadeEmpty /\ ForeignEmpty /\ FinalsUnique /\ StagesFilled
  /\ ClaimsOccupied /\ ClaimsUnique /\ ClaimsHoldStage /\ ReturnedHolds /\ PartialIsClaimed

-----------------------------------------------------------------------------
(* Names and trees.                                                        *)

LEMMA NamesDiffer ==
  /\ \A d, e : Stage(d) = Stage(e) => d = e
  /\ \A d : Stage(d).kind = "stage" /\ Elsewhere(d).kind = "elsewhere" /\ Rejected(d).kind = "rejected"
  /\ \A op : Final(op).kind = op
  /\ Unmade.kind = "unmade"
BY DEF Stage, Elsewhere, Rejected, Final, Unmade, Name

LEMMA WrittenHas ==
  ASSUME NEW files, NEW n, NEW says
  PROVE  LET w == Written(files, <<File(n, says)>>)
         IN  /\ DOMAIN w = DOMAIN files \cup {n}
             /\ w # NoFiles
<1>1. Range(<<File(n, says)>>) = {File(n, says)}
  BY DEF Range
<1>2. Names(<<File(n, says)>>) = {n}
  BY <1>1 DEF Names, File
<1> QED
  BY <1>2 DEF Written, NoFiles

LEMMA AssembledHasRun ==
  ASSUME NEW mode, NEW files \in AssembledTrees(mode)
  PROVE  "run" \in DOMAIN files /\ files # NoFiles
BY WrittenHas DEF AssembledTrees

LEMMA SinkTreeWhole == SinkTree # NoFiles
<1>1. Intact(<<"projections">>) = <<File("projections", "whole")>>
  BY DEF Intact
<1> QED
  BY <1>1, WrittenHas DEF SinkTree

-----------------------------------------------------------------------------
(* Steps that move no directory and take no name.                          *)

Stands(r) ==
  /\ r.op \in Ops /\ r.dir \in Dirs /\ at[r.dir] # Unmade /\ tree[r.dir] # NoFiles
  /\ Clean(r.op) => Holds(r.dir, r.op)

\* A command goes on, or ends, without a name: it only gives one up that holds a whole
\* run, or that something irregular happened to, and returns only what stands.
Quiet(p) ==
  /\ UNCHANGED <<at, tree, asked>> /\ touched \subseteq touched'
  /\ \E l \in {"idle", "reuse", "stage", "rename"} : \E t :
       /\ pc' = [pc EXCEPT ![p] = l] /\ tx' = [tx EXCEPT ![p] = t] /\ Shape(t)
       /\ l # "idle" => t.op \in Ops
       /\ l = "reuse" => t.op = "address"
       /\ l = "rename" => pc[p] = "source" /\ t = tx[p]
  /\ Claims(p, "run") /\ "run" \notin touched' =>
       \A d \in Dirs : Holds(d, "run") => "run" \in DOMAIN tree[d]
  /\ \A r \in returned' : r \in returned \/ Stands(r)

LEMMA QuietKeeps ==
  ASSUME PublicationInv, NEW p \in Procs, Quiet(p)
  PROVE  PublicationInv'
<1> USE DEF PublicationInv, Ops
<1> PICK l \in {"idle", "reuse", "stage", "rename"} : \E t :
      /\ pc' = [pc EXCEPT ![p] = l] /\ tx' = [tx EXCEPT ![p] = t] /\ Shape(t)
      /\ l # "idle" => t.op \in Ops
      /\ l = "reuse" => t.op = "address"
      /\ l = "rename" => pc[p] = "source" /\ t = tx[p]
  BY DEF Quiet
<1> PICK t :
      /\ pc' = [pc EXCEPT ![p] = l] /\ tx' = [tx EXCEPT ![p] = t] /\ Shape(t)
      /\ l # "idle" => t.op \in Ops
      /\ l = "reuse" => t.op = "address"
      /\ l = "rename" => pc[p] = "source" /\ t = tx[p]
  OBVIOUS
<1>1. at' = at /\ tree' = tree /\ asked' = asked /\ touched \subseteq touched'
  BY DEF Quiet
<1>2. /\ pc'[p] = l /\ tx'[p] = t
      /\ \A q \in Procs \ {p} : pc'[q] = pc[q] /\ tx'[q] = tx[q]
  BY DEF Shapes
<1>3. Shapes'
  BY <1>1, <1>2 DEF Shapes, Labels, Shape
<1>4. UnmadeEmpty' /\ ForeignEmpty' /\ FinalsUnique'
  BY <1>1 DEF UnmadeEmpty, ForeignEmpty, FinalsUnique, Holds
<1>5. StagesFilled'
  BY <1>1, <1>2 DEF StagesFilled
<1>6. /\ \A q \in Procs, op \in Ops : Claims(q, op)' => q # p /\ Claims(q, op)
      /\ \A op : Clean(op)' => Clean(op)
  BY <1>1, <1>2 DEF Claims, Clean
<1>7. ClaimsOccupied' /\ ClaimsUnique'
  BY <1>1, <1>6 DEF ClaimsOccupied, ClaimsUnique, Holds
<1>8. ClaimsHoldStage'
  BY <1>1, <1>2, <1>6 DEF ClaimsHoldStage, Holds
<1>9. ReturnedHolds'
  BY <1>1, <1>6 DEF Quiet, Stands, ReturnedHolds, Holds
<1>10. PartialIsClaimed'
  <2> SUFFICES ASSUME NEW d \in Dirs, Clean("run")', Holds(d, "run")', "run" \notin DOMAIN tree'[d]
               PROVE  (\E q \in Procs : Claims(q, "run"))'
    BY DEF PartialIsClaimed
  <2>1. PICK q \in Procs : Claims(q, "run")
    BY <1>1, <1>6 DEF PartialIsClaimed, Holds
  <2>2. q # p
    BY <1>1, <2>1 DEF Quiet, Holds, Clean
  <2> QED
    BY <1>2, <2>1, <2>2 DEF Claims
<1> QED
  BY <1>3, <1>4, <1>5, <1>7, <1>8, <1>9, <1>10

LEMMA BeginKeeps == ASSUME PublicationInv, NEW p \in Procs, Begin(p) PROVE PublicationInv'
<1>1. ~Claims(p, "run") /\ UNCHANGED <<at, tree, touched, asked, returned>>
  BY DEF Begin, Claims
<1>2. PICK op \in {"run", "address"}, mode \in Modes \cup {None} :
        IF Occupied(Final(op))
        THEN op = "address" /\ Note(p, [Idle EXCEPT !.op = op]) /\ Goto(p, "reuse")
        ELSE Note(p, [Idle EXCEPT !.op = op, !.mode = mode]) /\ Goto(p, "stage")
  BY DEF Begin
<1> DEFINE t == IF Occupied(Final(op)) THEN [Idle EXCEPT !.op = op] ELSE [Idle EXCEPT !.op = op, !.mode = mode]
           l == IF Occupied(Final(op)) THEN "reuse" ELSE "stage"
<1>3. Shape(t) /\ t.op = op
  BY DEF Shape, Idle
<1>4. /\ pc' = [pc EXCEPT ![p] = l] /\ tx' = [tx EXCEPT ![p] = t]
      /\ l \in {"reuse", "stage"} /\ (l = "reuse" => op = "address")
  BY <1>2 DEF Goto, Note
<1> HIDE DEF t, l
<1>5. Quiet(p)
  BY <1>1, <1>3, <1>4 DEF Quiet, Ops
<1> QED
  BY <1>5, QuietKeeps

LEMMA VerifySourceKeeps == ASSUME PublicationInv, NEW p \in Procs, VerifySource(p) PROVE PublicationInv'
<1>1. ~Claims(p, "run") /\ Shape(Idle) /\ tx = [tx EXCEPT ![p] = tx[p]]
  BY DEF VerifySource, Claims, Shape, Idle, PublicationInv, Shapes
<1>2. Quiet(p)
  BY <1>1 DEF VerifySource, Quiet, Goto, Note, Stop, PublicationInv, Shapes
<1> QED
  BY <1>2, QuietKeeps

LEMMA StopKeeps ==
  ASSUME PublicationInv, NEW p \in Procs, Stop(p), UNCHANGED <<at, tree, asked>>, touched \subseteq touched',
         Claims(p, "run") /\ "run" \notin touched' =>
           \A d \in Dirs : Holds(d, "run") => "run" \in DOMAIN tree[d],
         \A r \in returned' : r \in returned \/ Stands(r)
  PROVE  PublicationInv'
<1>1. Shape(Idle)
  BY DEF Shape, Idle
<1>2. Quiet(p)
  BY <1>1 DEF Quiet, Goto, Note, Stop
<1> QED
  BY <1>2, QuietKeeps

LEMMA CollideKeeps == ASSUME PublicationInv, NEW p \in Procs, Collide(p) PROVE PublicationInv'
<1>1. ~Claims(p, "run") /\ Shape(Idle) /\ UNCHANGED <<at, tree, touched, asked, returned>>
      /\ Shape(tx[p]) /\ tx[p].op \in Ops /\ tx = [tx EXCEPT ![p] = tx[p]]
  BY DEF Collide, Claims, Shape, Idle, PublicationInv, Shapes
<1>2. Quiet(p)
  BY <1>1 DEF Collide, Quiet, Goto, Note, Stop, Ops
<1> QED
  BY <1>2, QuietKeeps

LEMMA RenameFailsKeeps == ASSUME PublicationInv, NEW p \in Procs, RenameFails(p) PROVE PublicationInv'
BY StopKeeps DEF RenameFails, Claims

\* What holds the name of a confirmed command is its stage.
LEMMA PublishedHolds ==
  ASSUME PublicationInv, NEW p \in Procs, pc[p] = "confirm", PublishedStage(p)
  PROVE  /\ Stands([op |-> tx[p].op, dir |-> tx[p].dir])
         /\ tx[p].op = "run" => \A d \in Dirs : Holds(d, "run") => "run" \in DOMAIN tree[d]
BY DEF PublicationInv, Shapes, StagesFilled, FinalsUnique, PublishedStage, Stands, Holds, Clean, Ops

LEMMA ConfirmKeeps == ASSUME PublicationInv, NEW p \in Procs, Confirm(p) PROVE PublicationInv'
<1>1. /\ pc[p] = "confirm" /\ UNCHANGED <<at, tree, touched, asked>> /\ Stop(p)
      /\ tx[p].op = "run" => PublishedStage(p)
      /\ returned' = returned \/ (/\ PublishedStage(p)
                                  /\ returned' = returned \cup {[op |-> tx[p].op, dir |-> tx[p].dir]})
  BY DEF Confirm, Return
<1>2. \A r \in returned' : r \in returned \/ Stands(r)
  BY <1>1, PublishedHolds
<1>3. Claims(p, "run") => \A d \in Dirs : Holds(d, "run") => "run" \in DOMAIN tree[d]
  BY <1>1, PublishedHolds DEF Claims
<1> QED
  BY <1>1, <1>2, <1>3, StopKeeps

LEMMA QuarantineFailsKeeps == ASSUME PublicationInv, NEW p \in Procs, QuarantineFails(p) PROVE PublicationInv'
BY StopKeeps DEF QuarantineFails, Claims

LEMMA CrashKeeps == ASSUME PublicationInv, NEW p \in Procs, Crash(p) PROVE PublicationInv'
BY StopKeeps DEF Crash, Claims

LEMMA ReuseKeeps == ASSUME PublicationInv, NEW p \in Procs, Reuse(p) PROVE PublicationInv'
<1>1. /\ pc[p] = "reuse" /\ UNCHANGED <<at, tree, touched, asked>> /\ Stop(p)
      /\ \/ returned' = returned
         \/ \E d \in Dirs : /\ at[d] = Final("address") /\ tree[d] = SinkTree
                            /\ returned' = returned \cup {[op |-> tx[p].op, dir |-> d]}
  BY DEF Reuse, Return, Occupied, Occupant, SameContent
<1>2. tx[p].op = "address"
  BY <1>1 DEF PublicationInv, Shapes
<1>3. \A r \in returned' : r \in returned \/ Stands(r)
  BY <1>1, <1>2, NamesDiffer, SinkTreeWhole DEF Stands, Holds, Clean, Ops
<1> QED
  BY <1>1, <1>3, StopKeeps DEF Claims

-----------------------------------------------------------------------------
(* Steps that fill, take, distrust or give up a name.                      *)

\* A directory is made under a stage's name; at most its own command notes it.
LEMMA MakeKeeps ==
  ASSUME PublicationInv, NEW p \in Procs, NEW d \in Dirs, at[d] = Unmade, pc[p] = "stage",
         at' = [at EXCEPT ![d] = Stage(d)],
         NEW files, tree' = [tree EXCEPT ![d] = files],
         NEW mode, asked' = [asked EXCEPT ![d] = mode] \/ asked' = asked,
         UNCHANGED <<touched, returned>>,
         \/ Stop(p)
         \/ /\ Goto(p, "source") /\ Note(p, [tx[p] EXCEPT !.dir = d])
            /\ files # NoFiles /\ (tx[p].op = "run" => "run" \in DOMAIN files)
  PROVE  PublicationInv'
<1> USE DEF PublicationInv
<1>1. /\ at'[d] = Stage(d) /\ tree'[d] = files
      /\ \A e \in Dirs \ {d} : at'[e] = at[e] /\ tree'[e] = tree[e]
      /\ touched' = touched /\ returned' = returned
  BY DEF Shapes
<1>2. /\ \A q \in Procs \ {p} : pc'[q] = pc[q] /\ tx'[q] = tx[q]
      /\ \/ pc'[p] = "idle" /\ tx'[p] = Idle
         \/ /\ pc'[p] = "source" /\ tx'[p] = [tx[p] EXCEPT !.dir = d]
            /\ files # NoFiles /\ (tx[p].op = "run" => "run" \in DOMAIN files)
  BY DEF Shapes, Stop, Goto, Note
<1>3. /\ pc' \in [Procs -> Labels] /\ tx' = [q \in Procs |-> tx'[q]]
      /\ at' = [e \in Dirs |-> at'[e]] /\ tree' = [e \in Dirs |-> tree'[e]] /\ asked' = [e \in Dirs |-> asked'[e]]
  BY DEF Shapes, Stop, Goto, Note, Labels
<1>4. Shape(tx[p]) /\ Shape(Idle) /\ tx[p].op \in Ops
  BY DEF Shapes, Shape, Idle
<1>5. Shape(tx'[p]) /\ (pc'[p] = "source" => tx'[p].op = tx[p].op /\ tx'[p].dir = d)
  BY <1>2, <1>4 DEF Shape
<1>6. Shapes'
  BY <1>2, <1>3, <1>4, <1>5 DEF Shapes
<1>7. UnmadeEmpty' /\ ForeignEmpty'
  BY <1>1, NamesDiffer DEF UnmadeEmpty, ForeignEmpty
<1>8. \A e \in Dirs, op \in Ops : Holds(e, op)' <=> Holds(e, op)
  BY <1>1, NamesDiffer DEF Holds, Ops
<1>9. \A e \in Dirs, op \in Ops : Holds(e, op) => e # d
  BY NamesDiffer DEF Holds, Ops
<1>10. FinalsUnique'
  BY <1>8 DEF FinalsUnique
<1>11. StagesFilled'
  BY <1>1, <1>2, <1>5, NamesDiffer DEF StagesFilled
<1>12. /\ \A q \in Procs, op \in Ops : Claims(q, op)' <=> (q # p /\ Claims(q, op))
       /\ \A q \in Procs, op \in Ops : Claims(q, op) => q # p
       /\ \A op : Clean(op)' <=> Clean(op)
  BY <1>1, <1>2 DEF Claims, Clean
<1>13. ClaimsOccupied' /\ ClaimsUnique'
  BY <1>8, <1>12 DEF ClaimsOccupied, ClaimsUnique
<1>14. ClaimsHoldStage'
  BY <1>1, <1>2, <1>8, <1>9, <1>12 DEF ClaimsHoldStage
<1>15. ReturnedHolds'
  BY <1>1, <1>8, <1>12 DEF ReturnedHolds
<1>16. PartialIsClaimed'
  BY <1>1, <1>8, <1>9, <1>12 DEF PartialIsClaimed, Ops
<1> QED
  BY <1>6, <1>7, <1>10, <1>11, <1>13, <1>14, <1>15, <1>16

LEMMA FillStageKeeps == ASSUME PublicationInv, NEW p \in Procs, FillStage(p) PROVE PublicationInv'
<1>1. PICK d \in Fresh, files \in IF tx[p].op = "run" THEN AssembledTrees(tx[p].mode) ELSE {SinkTree} :
        /\ pc[p] = "stage" /\ at' = [at EXCEPT ![d] = Stage(d)] /\ tree' = [tree EXCEPT ![d] = files]
        /\ asked' = [asked EXCEPT ![d] = tx[p].mode]
        /\ Goto(p, "source") /\ Note(p, [tx[p] EXCEPT !.dir = d])
        /\ UNCHANGED <<touched, returned>>
  BY DEF FillStage
<1>2. files # NoFiles /\ (tx[p].op = "run" => "run" \in DOMAIN files)
  BY AssembledHasRun, SinkTreeWhole
<1> QED
  BY <1>1, <1>2, MakeKeeps DEF Fresh

LEMMA StageFailsKeeps == ASSUME PublicationInv, NEW p \in Procs, StageFails(p) PROVE PublicationInv'
BY MakeKeeps DEF StageFails, Fresh

LEMMA DistrustKeeps == ASSUME PublicationInv, NEW p \in Procs, Distrust(p) PROVE PublicationInv'
<1> USE DEF PublicationInv
<1>1. /\ pc[p] = "confirm" /\ UNCHANGED <<at, tree, asked, returned>>
      /\ touched' = IF PublishedStage(p) THEN touched \cup {tx[p].op} ELSE touched
  BY DEF Distrust
<1>2. CASE ~Occupied(Final(tx[p].op))
  <2>1. Stop(p)
    BY <1>2 DEF Distrust
  <2>2. Claims(p, "run") => \A d \in Dirs : ~Holds(d, "run")
    BY <1>2 DEF Occupied, Holds, Claims
  <2> QED
    BY <1>1, <2>1, <2>2, StopKeeps
<1>3. CASE Occupied(Final(tx[p].op))
  <2> DEFINE t == [tx[p] EXCEPT !.seen = Occupant(Final(tx[p].op))]
  <2>1. pc' = [pc EXCEPT ![p] = "quarantine"] /\ tx' = [tx EXCEPT ![p] = t]
    BY <1>3 DEF Distrust, Goto, Note
  <2>2. Shape(t) /\ t.op = tx[p].op /\ t.dir = tx[p].dir /\ tx[p].op \in Ops
    BY <1>1 DEF Shapes, Shape
  <2> HIDE DEF t
  <2>3. /\ pc'[p] = "quarantine" /\ tx'[p] = t
        /\ \A q \in Procs \ {p} : pc'[q] = pc[q] /\ tx'[q] = tx[q]
    BY <2>1 DEF Shapes
  <2>4. Shapes'
    BY <1>1, <2>1, <2>2, <2>3 DEF Shapes, Labels
  <2>5. UnmadeEmpty' /\ ForeignEmpty' /\ FinalsUnique' /\ (\A d, op : Holds(d, op)' <=> Holds(d, op))
    BY <1>1 DEF UnmadeEmpty, ForeignEmpty, FinalsUnique, Holds
  <2>6. StagesFilled'
    BY <1>1, <2>2, <2>3 DEF StagesFilled
  <2>7. /\ \A q \in Procs : \A op : Claims(q, op)' <=> Claims(q, op)
        /\ \A op : Clean(op)' => Clean(op)
    BY <1>1, <2>2, <2>3 DEF Claims, Clean
  <2>8. ClaimsOccupied' /\ ClaimsUnique' /\ PartialIsClaimed'
    BY <1>1, <2>5, <2>7 DEF ClaimsOccupied, ClaimsUnique, PartialIsClaimed
  <2>9. ASSUME NEW op \in Ops, Clean(op)', Claims(p, op)
        PROVE  ~Holds(tx[p].dir, op)
    BY <1>1, <2>9 DEF Claims, Clean, Holds, PublishedStage
  <2>10. ClaimsHoldStage'
    BY <1>1, <2>2, <2>3, <2>5, <2>7, <2>9 DEF ClaimsHoldStage
  <2>11. ReturnedHolds'
    BY <1>1, <2>5, <2>7 DEF ReturnedHolds
  <2> QED
    BY <2>4, <2>5, <2>6, <2>8, <2>10, <2>11
<1> QED
  BY <1>2, <1>3

LEMMA RenameKeeps == ASSUME PublicationInv, NEW p \in Procs, Rename(p) PROVE PublicationInv'
<1> USE DEF PublicationInv
<1> DEFINE op == tx[p].op
           x == Occupant(Stage(tx[p].dir))
<1>1. /\ pc[p] = "rename" /\ UNCHANGED <<tree, tx, touched, asked, returned>>
      /\ at' = [at EXCEPT ![x] = Final(op)] /\ pc' = [pc EXCEPT ![p] = "confirm"]
      /\ \A d \in Dirs : at[d] # Final(op)
  BY DEF Rename, MoveNoReplace, Occupied, Goto
<1>2. x \in Dirs /\ at[x] = Stage(tx[p].dir) /\ op \in Ops /\ tx[p].dir \in Dirs
  BY <1>1 DEF Rename, Occupied, Occupant, Shapes, StagesFilled
<1>3. tree[x] = NoFiles \/ x = tx[p].dir
  BY <1>2 DEF ForeignEmpty
<1> HIDE DEF x, op
<1>4. /\ at'[x] = Final(op) /\ pc'[p] = "confirm"
      /\ \A d \in Dirs \ {x} : at'[d] = at[d]
      /\ \A q \in Procs \ {p} : pc'[q] = pc[q]
  BY <1>1, <1>2 DEF Shapes
<1>5. Shapes'
  BY <1>1, <1>2, <1>4 DEF Shapes, Labels, op
<1>6. UnmadeEmpty' /\ ForeignEmpty'
  BY <1>1, <1>2, <1>4, NamesDiffer DEF UnmadeEmpty, ForeignEmpty, Ops
<1>7. /\ \A d \in Dirs, o \in Ops : Holds(d, o)' <=> IF d = x THEN o = op ELSE Holds(d, o)
      /\ \A d \in Dirs : ~Holds(d, op)
      /\ \A o \in Ops : ~Holds(x, o)
  BY <1>1, <1>2, <1>4, NamesDiffer DEF Holds, Ops
<1>8. FinalsUnique'
  BY <1>7 DEF FinalsUnique
<1>9. StagesFilled'
  BY <1>1, <1>2, <1>4, NamesDiffer DEF StagesFilled, Ops
<1>10. /\ \A q \in Procs, o \in Ops : Claims(q, o)' <=> IF q = p THEN o = op ELSE Claims(q, o)
       /\ \A o \in Ops : Clean(o)' <=> Clean(o)
       /\ \A o \in Ops : ~Claims(p, o)
  BY <1>1, <1>4 DEF Claims, Clean, op
<1>11. \A q \in Procs : Clean(op) => ~Claims(q, op)
  BY <1>2, <1>7 DEF ClaimsOccupied
<1>12. ClaimsUnique'
  BY <1>10, <1>11 DEF ClaimsUnique
<1>13. ClaimsOccupied'
  <2>1. ASSUME NEW q \in Procs, NEW o \in Ops, Clean(o)', Claims(q, o)'
        PROVE  \E d \in Dirs : Holds(d, o)'
    <3>1. CASE o = op
      BY <1>2, <1>7, <3>1
    <3>2. CASE o # op
      <4>1. PICK d \in Dirs : Holds(d, o)
        BY <1>10, <2>1, <3>2 DEF ClaimsOccupied
      <4> QED
        BY <1>7, <4>1
    <3> QED
      BY <3>1, <3>2
  <2> QED
    BY <2>1 DEF ClaimsOccupied
<1>14. ClaimsHoldStage'
  <2>1. ASSUME NEW q \in Procs, NEW o \in Ops, NEW d \in Dirs, Clean(o)', Claims(q, o)', Holds(d, o)'
        PROVE  tree'[d] = NoFiles \/ (d = tx'[q].dir /\ pc'[q] = "confirm")
    <3>1. CASE o = op
      <4>1. q = p /\ d = x
        BY <1>7, <1>10, <1>11, <2>1, <3>1
      <4> QED
        BY <1>1, <1>3, <1>4, <4>1
    <3>2. CASE o # op
      <4>1. q # p /\ d # x /\ Claims(q, o) /\ Holds(d, o) /\ Clean(o)
        BY <1>7, <1>10, <2>1, <3>2
      <4> QED
        BY <1>1, <1>4, <4>1 DEF ClaimsHoldStage
    <3> QED
      BY <3>1, <3>2
  <2> QED
    BY <2>1 DEF ClaimsHoldStage
<1>15. ReturnedHolds'
  BY <1>1, <1>2, <1>4, <1>7, <1>10, NamesDiffer DEF ReturnedHolds, Ops, Clean
<1>16. PartialIsClaimed'
  BY <1>1, <1>2, <1>7, <1>10 DEF PartialIsClaimed, Ops
<1> QED
  BY <1>5, <1>6, <1>8, <1>9, <1>12, <1>13, <1>14, <1>15, <1>16

\* What is moved away is whatever stands under the name.
LEMMA QuarantineMoves ==
  ASSUME PublicationInv, NEW p \in Procs, Quarantine(p)
  PROVE  at' = [d \in Dirs |-> IF at[d] = Final(tx[p].op) THEN Rejected(d) ELSE at[d]]
<1> DEFINE op == tx[p].op
<1>1. op \in Ops /\ at = [d \in Dirs |-> at[d]]
  BY DEF Quarantine, PublicationInv, Shapes
<1>2. CASE Occupied(Final(op))
  <2> DEFINE e == Occupant(Final(op))
  <2>1. e \in Dirs /\ at[e] = Final(op)
    BY <1>2 DEF Occupied, Occupant
  <2>2. \A d \in Dirs : at[d] = Final(op) => d = e
    BY <1>1, <2>1 DEF PublicationInv, FinalsUnique, Holds
  <2>3. at' = [at EXCEPT ![e] = Rejected(e)]
    BY <1>2 DEF Quarantine
  <2> HIDE DEF e
  <2> QED
    BY <1>1, <2>1, <2>2, <2>3
<1>3. CASE ~Occupied(Final(op))
  BY <1>1, <1>3 DEF Quarantine, Occupied
<1> QED
  BY <1>2, <1>3

LEMMA QuarantineKeeps == ASSUME PublicationInv, NEW p \in Procs, Quarantine(p) PROVE PublicationInv'
<1> USE DEF PublicationInv
<1> DEFINE op == tx[p].op
<1>1. /\ pc[p] = "quarantine" /\ UNCHANGED <<tree, touched, asked, returned>>
      /\ at' = [d \in Dirs |-> IF at[d] = Final(op) THEN Rejected(d) ELSE at[d]]
      /\ pc' = [pc EXCEPT ![p] = "idle"] /\ tx' = [tx EXCEPT ![p] = Idle] /\ op \in Ops
  BY QuarantineMoves DEF Quarantine, Stop, Goto, Note, Shapes
<1> HIDE DEF op
<1>2. /\ pc'[p] = "idle" /\ \A q \in Procs \ {p} : pc'[q] = pc[q] /\ tx'[q] = tx[q]
      /\ \A d \in Dirs : at'[d] = IF Holds(d, op) THEN Rejected(d) ELSE at[d]
  BY <1>1 DEF Shapes, Holds
<1>3. Shapes'
  BY <1>1, <1>2 DEF Shapes, Labels, Shape, Idle
<1>4. UnmadeEmpty' /\ ForeignEmpty'
  BY <1>1, <1>2, NamesDiffer DEF UnmadeEmpty, ForeignEmpty
<1>5. \A d \in Dirs, o \in Ops : Holds(d, o)' <=> (o # op /\ Holds(d, o))
  BY <1>1, <1>2, NamesDiffer DEF Holds, Ops
<1>6. FinalsUnique'
  BY <1>5 DEF FinalsUnique
<1>7. StagesFilled'
  BY <1>1, <1>2, NamesDiffer DEF StagesFilled
<1>8. /\ \A q \in Procs, o \in Ops : Claims(q, o)' <=> (q # p /\ Claims(q, o))
      /\ \A o : Clean(o)' <=> Clean(o)
  BY <1>1, <1>2 DEF Claims, Clean
<1>9. Claims(p, op)
  BY <1>1 DEF Claims, op
<1>10. \A q \in Procs : Clean(op) /\ Claims(q, op) => q = p
  BY <1>1, <1>9 DEF ClaimsUnique
<1>11. ClaimsOccupied' /\ ClaimsUnique' /\ ClaimsHoldStage'
  BY <1>1, <1>2, <1>5, <1>8, <1>10 DEF ClaimsOccupied, ClaimsUnique, ClaimsHoldStage
<1>12. \A d \in Dirs : Clean(op) /\ Holds(d, op) => tree[d] = NoFiles
  BY <1>1, <1>9 DEF ClaimsHoldStage
<1>13. ReturnedHolds'
  BY <1>1, <1>2, <1>5, <1>8, <1>12, NamesDiffer DEF ReturnedHolds
<1>14. PartialIsClaimed'
  <2> SUFFICES ASSUME NEW d \in Dirs, Clean("run")', Holds(d, "run")', "run" \notin DOMAIN tree'[d]
               PROVE  \E q \in Procs : Claims(q, "run")'
    BY DEF PartialIsClaimed
  <2>1. op # "run" /\ Holds(d, "run") /\ Clean("run") /\ "run" \notin DOMAIN tree[d]
    BY <1>1, <1>5, <1>8 DEF Ops
  <2>2. PICK q \in Procs : Claims(q, "run")
    BY <2>1 DEF PartialIsClaimed
  <2>3. q # p
    BY <2>1, <2>2 DEF Claims, op
  <2> QED
    BY <1>8, <2>2, <2>3 DEF Ops
<1> QED
  BY <1>3, <1>4, <1>6, <1>7, <1>11, <1>13, <1>14

LEMMA MeddleKeeps == ASSUME NoneApart, PublicationInv, Meddle PROVE PublicationInv'
<1> USE DEF PublicationInv
<1>1. PICK d \in Dirs, foreign \in Fresh \cup {None} :
        /\ at[d].kind \in {"stage", "run", "address"}
        /\ at' = [e \in Dirs |-> IF e = d THEN Elsewhere(d) ELSE IF e = foreign THEN at[d] ELSE at[e]]
        /\ touched' = IF at[d].kind = "stage" THEN touched ELSE touched \cup {at[d].kind}
  BY DEF Meddle
<1>2. /\ UNCHANGED <<tree, pc, tx, asked, returned>> /\ touched \subseteq touched'
      /\ \A e \in Dirs : at'[e] = IF e = d THEN Elsewhere(d) ELSE IF e = foreign THEN at[d] ELSE at[e]
  BY <1>1 DEF Meddle
<1>3. \A e \in Dirs : e = foreign => at[e] = Unmade /\ tree[e] = NoFiles
  BY <1>1 DEF NoneApart, Fresh, UnmadeEmpty
<1>4. Shapes'
  BY <1>1, <1>2 DEF Shapes
<1>5. UnmadeEmpty' /\ ForeignEmpty'
  BY <1>1, <1>2, <1>3, NamesDiffer DEF UnmadeEmpty, ForeignEmpty
<1>6. FinalsUnique'
  BY <1>1, <1>2, <1>3, NamesDiffer DEF FinalsUnique, Holds, Ops
<1>7. StagesFilled'
  BY <1>1, <1>2, <1>3, NamesDiffer DEF StagesFilled
<1>8. \A op \in Ops : Clean(op)' => Clean(op) /\ at[d].kind # op
  BY <1>1, <1>2 DEF Clean, Ops
<1>9. \A op \in Ops, e \in Dirs : Clean(op)' => (Holds(e, op)' <=> Holds(e, op))
  BY <1>2, <1>3, <1>8, NamesDiffer DEF Holds, Ops
<1>10. \A q \in Procs : \A op : Claims(q, op)' <=> Claims(q, op)
  BY <1>2 DEF Claims
<1>11. ClaimsOccupied' /\ ClaimsUnique' /\ ClaimsHoldStage'
  BY <1>2, <1>8, <1>9, <1>10 DEF ClaimsOccupied, ClaimsUnique, ClaimsHoldStage
<1>12. ReturnedHolds'
  BY <1>2, <1>3, <1>8, <1>9, <1>1, NamesDiffer DEF ReturnedHolds
<1>13. PartialIsClaimed'
  BY <1>2, <1>8, <1>9, <1>10 DEF PartialIsClaimed, Ops
<1> QED
  BY <1>4, <1>5, <1>6, <1>7, <1>11, <1>12, <1>13

LEMMA PublicationInvInit == Init => PublicationInv
<1> SUFFICES ASSUME Init PROVE PublicationInv
  OBVIOUS
<1>1. /\ \A d \in Dirs : at[d] = Unmade /\ tree[d] = NoFiles
      /\ \A p \in Procs : pc[p] = "idle" /\ tx[p] = Idle
      /\ returned = {}
  BY DEF Init
<1>2. Shapes
  BY <1>1 DEF Init, Shapes, Labels, Shape, Idle
<1> QED
  BY <1>1, <1>2, NamesDiffer
  DEF PublicationInv, UnmadeEmpty, ForeignEmpty, FinalsUnique, StagesFilled, ClaimsOccupied, ClaimsUnique,
      ClaimsHoldStage, ReturnedHolds, PartialIsClaimed, Holds, Claims, Ops

LEMMA PublicationInvNext == ASSUME NoneApart, PublicationInv, [Next]_vars PROVE PublicationInv'
<1>1. ASSUME NEW p \in Procs, Publish(p) PROVE PublicationInv'
  BY <1>1, BeginKeeps, FillStageKeeps, StageFailsKeeps, VerifySourceKeeps, RenameKeeps, CollideKeeps,
     RenameFailsKeeps, ConfirmKeeps, DistrustKeeps, QuarantineKeeps, QuarantineFailsKeeps, ReuseKeeps,
     CrashKeeps DEF Publish
<1>2. CASE UNCHANGED vars
  BY <1>2 DEF vars, PublicationInv, Shapes, UnmadeEmpty, ForeignEmpty, FinalsUnique, StagesFilled,
     ClaimsOccupied, ClaimsUnique, ClaimsHoldStage, ReturnedHolds, PartialIsClaimed, Holds, Claims, Clean
<1> QED
  BY <1>1, <1>2, MeddleKeeps DEF Next

\* Whatever a command returned stands under the name it returned, whole, until an
\* outside program moves an entry of that name or a publication of it cannot be
\* verified: for any number of commands that race for the name.
THEOREM ReturnedStandsAlways == ASSUME NoneApart PROVE Spec => []ReturnedStands
<1>1. PublicationInv => ReturnedStands
  BY DEF PublicationInv, ReturnedHolds, ReturnedStands, Clean, Holds, Ops
<1> QED
  BY <1>1, PublicationInvInit, PublicationInvNext, PTL DEF Spec

\* Once no command has the run's name to confirm, it holds a run with its completion
\* marker, or nothing.
THEOREM NameHoldsWholeRunAlways == ASSUME NoneApart PROVE Spec => []NameHoldsWholeRun
<1>1. PublicationInv => NameHoldsWholeRun
  BY DEF PublicationInv, PartialIsClaimed, NameHoldsWholeRun, Clean, Holds, Claims, Ops
<1> QED
  BY <1>1, PublicationInvInit, PublicationInvNext, PTL DEF Spec

-----------------------------------------------------------------------------
(* A strict run says so, whatever of core/ could be written.               *)

CoreNames == {"execution", "evidence", "claims", "relationships", "contract", "decision", "release",
              "projections", "grounding", "error"}
CoreFiles == {File(n, s) : n \in CoreNames, s \in {"whole", "torn", "eligible", "ineligible", "blocked"}}
NoRun(files) == "run" \notin DOMAIN files

LEMMA WrittenNoRun ==
  ASSUME NEW files, NoRun(files), NEW payloads \in Seq(CoreFiles)
  PROVE  NoRun(Written(files, payloads))
<1>1. \A f \in Range(payloads) : f.name # "run"
  <2>1. \A f \in CoreFiles : f.name # "run"
    BY DEF CoreFiles, CoreNames, File
  <2>2. \A i \in DOMAIN payloads : payloads[i] \in CoreFiles
    OBVIOUS
  <2> QED
    BY <2>1, <2>2 DEF Range
<1> QED
  BY <1>1 DEF Written, Names, NoRun

LEMMA SomeNoRun ==
  ASSUME NEW files, NoRun(files), NEW payloads \in Seq(CoreFiles),
         NEW w \in WriteAll(files, payloads) \cup WriteSome(files, payloads)
  PROVE  NoRun(w)
<1>1. CASE w \in WriteAll(files, payloads)
  BY <1>1, WrittenNoRun DEF WriteAll
<1>2. CASE w \in WriteSome(files, payloads)
  <2>1. \A n \in 0..Len(payloads) : SubSeq(payloads, 1, n) \in Seq(CoreFiles)
    OBVIOUS
  <2>2. \A n \in 1..Len(payloads) :
          Append(SubSeq(payloads, 1, n - 1), File(payloads[n].name, "torn")) \in Seq(CoreFiles)
    <3> TAKE n \in 1..Len(payloads)
    <3>1. payloads[n] \in CoreFiles
      OBVIOUS
    <3>2. File(payloads[n].name, "torn") \in CoreFiles
      <4>1. PICK name \in CoreNames : \E says : payloads[n] = File(name, says)
        BY <3>1 DEF CoreFiles
      <4>2. payloads[n].name \in CoreNames
        BY <4>1 DEF File
      <4> QED
        BY <4>2 DEF CoreFiles
    <3>3. n - 1 \in 0..Len(payloads)
      OBVIOUS
    <3>4. SubSeq(payloads, 1, n - 1) \in Seq(CoreFiles)
      BY <2>1, <3>3
    <3> QED
      BY <3>2, <3>4
  <2>3. Writable(files, payloads) \subseteq 0..Len(payloads)
    BY DEF Writable
  <2>4. \/ \E n \in 0..Len(payloads) : w = Written(files, SubSeq(payloads, 1, n))
        \/ \E n \in 1..Len(payloads) :
             w = Written(files, Append(SubSeq(payloads, 1, n - 1), File(payloads[n].name, "torn")))
    <3>1. \A n \in 0..Len(payloads) : n # 0 => n \in 1..Len(payloads)
      OBVIOUS
    <3> QED
      BY <1>2, <2>3, <3>1 DEF WriteSome
  <2> QED
    BY <2>1, <2>2, <2>4, WrittenNoRun
<1> QED
  BY <1>1, <1>2

LEMMA WholeFiles ==
  ASSUME NEW names \in Seq(CoreNames)
  PROVE  Intact(names) \in Seq(CoreFiles)
<1>1. \A i \in 1..Len(names) : File(names[i], "whole") \in CoreFiles
  BY DEF CoreFiles
<1>2. Intact(names) = [i \in 1..Len(names) |-> File(names[i], "whole")]
  BY DEF Intact
<1> QED
  BY <1>1, <1>2

LEMMA PayloadsAreCore ==
  /\ StrictPayloads \in Seq(CoreFiles) /\ RejectionPayloads \in Seq(CoreFiles)
  /\ ErrorPayloads \in Seq(CoreFiles) /\ <<File("execution", "blocked")>> \in Seq(CoreFiles)
<1>1. \A name \in {"execution", "grounding", "error"}, says \in {"eligible", "whole", "ineligible", "blocked"} :
        File(name, says) \in CoreFiles
  BY DEF CoreFiles, CoreNames
<1>2. Candidate \o <<"projections">> \in Seq(CoreNames)
  <2>1. Candidate \in Seq(CoreNames) /\ <<"projections">> \in Seq(CoreNames)
    BY DEF Candidate, CoreNames
  <2> QED
    BY <2>1
<1>3. StrictPayloads \in Seq(CoreFiles)
  <2>1. Intact(Candidate \o <<"projections">>) \in Seq(CoreFiles)
    BY <1>2, WholeFiles
  <2>2. <<File("execution", "eligible")>> \in Seq(CoreFiles)
    BY <1>1
  <2> QED
    BY <2>1, <2>2 DEF StrictPayloads
<1>4. RejectionPayloads \in Seq(CoreFiles) /\ ErrorPayloads \in Seq(CoreFiles)
      /\ <<File("execution", "blocked")>> \in Seq(CoreFiles)
  BY <1>1 DEF RejectionPayloads, ErrorPayloads
<1> QED
  BY <1>3, <1>4

LEMMA StrictCoreNoRun ==
  ASSUME NEW files, NoRun(files), NEW status, NEW r \in CoreRuns(files, "strict", status)
  PROVE  NoRun(r[1])
<1>1. \A f : NoRun(f) => \A w \in RecordError(f) : NoRun(w)
  BY SomeNoRun, PayloadsAreCore DEF RecordError
<1>2. ASSUME r \in StrictRuns(files)
      PROVE  NoRun(r[1])
  <2> DEFINE torn == WriteSome(files, StrictPayloads) \cup WriteSome(files, RejectionPayloads)
  <2>1. \A w \in torn \cup {files} : NoRun(w)
    BY SomeNoRun, PayloadsAreCore
  <2>2. \/ r[1] \in WriteAll(files, StrictPayloads) \cup WriteAll(files, RejectionPayloads)
        \/ \E w \in torn \cup {files} : r[1] \in RecordError(w)
    BY <1>2 DEF StrictRuns
  <2> HIDE DEF torn
  <2> QED
    BY <1>1, <2>1, <2>2, SomeNoRun, PayloadsAreCore
<1>3. ASSUME r \in BlockedRuns(files)
      PROVE  NoRun(r[1])
  <2> DEFINE marker == <<File("execution", "blocked")>>
  <2>1. \/ r[1] \in WriteAll(files, marker)
        \/ \E w \in WriteSome(files, marker) : r[1] \in RecordError(w)
    BY <1>3 DEF BlockedRuns
  <2> QED
    BY <1>1, <2>1, SomeNoRun, PayloadsAreCore
<1> QED
  BY <1>2, <1>3 DEF CoreRuns

LEMMA StrictDeclared ==
  ASSUME NEW files \in AssembledTrees("strict")
  PROVE  DeclaredMode(files) = "strict"
<1> DEFINE artifacts == Written(NoFiles, <<File("artifacts", "whole")>>)
<1>1. NoRun(artifacts)
  <2>1. DOMAIN artifacts = DOMAIN NoFiles \cup {"artifacts"}
    BY WrittenHas
  <2> QED
    BY <2>1 DEF NoRun, NoFiles
<1>2. PICK r \in UNION {CoreRuns(artifacts, "strict", status) : status \in {"passed", "failed"}} :
        files = Written(r[1], <<File("run", RunDescriptor("strict", r[2]))>>)
  BY DEF AssembledTrees
<1> HIDE DEF artifacts
<1>3. NoRun(r[1])
  BY <1>1, <1>2, StrictCoreNoRun
<1> DEFINE run == File("run", RunDescriptor("strict", r[2]))
<1>4. Range(<<run>>) = {run} /\ run.name = "run" /\ run.says.mode = "strict"
  BY DEF Range, File, RunDescriptor
<1> HIDE DEF run
<1>5. Names(<<run>>) = {"run"}
  BY <1>4 DEF Names
<1>6. Written(r[1], <<run>>)["run"] = run.says
  BY <1>3, <1>4, <1>5 DEF Written, NoRun
<1>7. "run" \in DOMAIN Written(r[1], <<run>>)
  BY <1>5 DEF Written
<1> QED
  BY <1>2, <1>4, <1>6, <1>7 DEF DeclaredMode, run

\* What a strict assemble leaves in a directory, and what keeps a sink's out of it.
ModesMatch ==
  /\ at = [d \in Dirs |-> at[d]] /\ tree = [d \in Dirs |-> tree[d]] /\ asked = [d \in Dirs |-> asked[d]]
  /\ tx = [p \in Procs |-> tx[p]] /\ pc = [p \in Procs |-> pc[p]]
  /\ \A d \in Dirs : at[d] = Unmade => asked[d] = None
  /\ \A d \in Dirs : asked[d] = "strict" => tree[d] \in AssembledTrees("strict")
  /\ \A p \in Procs : pc[p] = "stage" /\ tx[p].op # "run" => tx[p].mode = None

LEMMA ModesMatchInit == NoneApart /\ Init => ModesMatch
BY DEF NoneApart, Init, ModesMatch

LEMMA ModesMatchNext == ASSUME NoneApart, PublicationInv, ModesMatch, [Next]_vars PROVE ModesMatch'
<1> USE DEF ModesMatch
<1>1. ASSUME NEW p \in Procs, Begin(p)
      PROVE  ModesMatch'
  <2>1. PICK op \in {"run", "address"}, mode \in Modes \cup {None} :
          /\ (op = "address") = (mode = None)
          /\ pc' = [pc EXCEPT ![p] = IF Occupied(Final(op)) THEN "reuse" ELSE "stage"]
          /\ tx' = [tx EXCEPT ![p] = IF Occupied(Final(op)) THEN [Idle EXCEPT !.op = op]
                                     ELSE [Idle EXCEPT !.op = op, !.mode = mode]]
    BY <1>1 DEF Begin, Goto, Note
  <2>2. /\ pc'[p] = "stage" /\ tx'[p].op # "run" => tx'[p].mode = None
        /\ \A q \in Procs \ {p} : pc'[q] = pc[q] /\ tx'[q] = tx[q]
    BY <2>1 DEF Idle
  <2>3. /\ tx' = [q \in Procs |-> tx'[q]] /\ pc' = [q \in Procs |-> pc'[q]]
        /\ UNCHANGED <<at, tree, asked>>
    BY <1>1, <2>1 DEF Begin
  <2> QED
    BY <2>2, <2>3
<1>2. ASSUME NEW p \in Procs, FillStage(p)
      PROVE  ModesMatch'
  <2>1. PICK d \in Fresh, files \in IF tx[p].op = "run" THEN AssembledTrees(tx[p].mode) ELSE {SinkTree} :
          /\ pc[p] = "stage" /\ at' = [at EXCEPT ![d] = Stage(d)] /\ tree' = [tree EXCEPT ![d] = files]
          /\ asked' = [asked EXCEPT ![d] = tx[p].mode]
          /\ pc' = [pc EXCEPT ![p] = "source"] /\ tx' = [tx EXCEPT ![p] = [tx[p] EXCEPT !.dir = d]]
    BY <1>2 DEF FillStage, Goto, Note
  <2>2. tx[p].mode = "strict" => files \in AssembledTrees("strict")
    BY <2>1 DEF NoneApart
  <2>3. \A e \in Dirs : at'[e] = Unmade => asked'[e] = None
    BY <2>1, NamesDiffer DEF Fresh
  <2>4. \A e \in Dirs : asked'[e] = "strict" => tree'[e] \in AssembledTrees("strict")
    BY <2>1, <2>2 DEF Fresh
  <2>5. \A q \in Procs : pc'[q] = "stage" /\ tx'[q].op # "run" => tx'[q].mode = None
    BY <2>1
  <2> QED
    BY <2>1, <2>3, <2>4, <2>5
<1>3. ASSUME NEW p \in Procs, StageFails(p)
      PROVE  ModesMatch'
  <2>1. PICK d \in Fresh : /\ at' = [at EXCEPT ![d] = Stage(d)] /\ tree' = [tree EXCEPT ![d] = NoFiles]
                           /\ asked' = asked /\ Stop(p)
    BY <1>3 DEF StageFails
  <2>2. asked[d] # "strict"
    BY <2>1 DEF Fresh, NoneApart
  <2>3. /\ \A e \in Dirs : at'[e] = Unmade => asked'[e] = None
        /\ \A e \in Dirs : asked'[e] = "strict" => tree'[e] \in AssembledTrees("strict")
    BY <2>1, <2>2, NamesDiffer DEF Fresh
  <2> QED
    BY <2>1, <2>3 DEF Stop, Goto, Note
\* The other steps of a command leave trees alone and begin no stage.
<1>4. ASSUME NEW p \in Procs, ~Begin(p), ~FillStage(p), ~StageFails(p), Publish(p)
      PROVE  ModesMatch'
  <2>1. tree' = tree /\ asked' = asked
    BY <1>4 DEF Publish, VerifySource, Rename, Collide, RenameFails, Confirm, Distrust, Quarantine,
                QuarantineFails, Reuse, Crash
  <2>2. /\ at' = [d \in Dirs |-> at'[d]]
        /\ \A d \in Dirs : at'[d] = Unmade => at[d] = Unmade
    <3>1. CASE Rename(p)
      <4>1. PICK d : at' = [at EXCEPT ![d] = Final(tx[p].op)]
        BY <3>1 DEF Rename, MoveNoReplace
      <4>2. Final(tx[p].op) # Unmade
        BY <3>1, NamesDiffer DEF Rename, PublicationInv, Shapes, Ops
      <4> QED
        BY <4>1, <4>2
    <3>2. CASE Quarantine(p)
      <4>1. at' = [d \in Dirs |-> IF at[d] = Final(tx[p].op) THEN Rejected(d) ELSE at[d]]
        BY <3>2, QuarantineMoves
      <4> QED
        BY <4>1, NamesDiffer
    <3>3. CASE at' = at
      BY <3>3
    <3> QED
      BY <1>4, <3>1, <3>2, <3>3
      DEF Publish, VerifySource, Collide, RenameFails, Confirm, Distrust, QuarantineFails, Reuse, Crash
  <2>3. \E l, t : pc' = [pc EXCEPT ![p] = l] /\ tx' = [tx EXCEPT ![p] = t] /\ l # "stage"
    <3>1. tx = [tx EXCEPT ![p] = tx[p]]
      OBVIOUS
    <3>2. CASE VerifySource(p)
      BY <3>1, <3>2 DEF VerifySource, Stop, Goto, Note
    <3>3. CASE Rename(p)
      BY <3>1, <3>3 DEF Rename, Goto
    <3>4. CASE Collide(p) \/ RenameFails(p) \/ QuarantineFails(p) \/ Crash(p) \/ Quarantine(p)
      BY <3>1, <3>4 DEF Collide, RenameFails, QuarantineFails, Crash, Quarantine, Stop, Goto, Note
    <3>5. CASE Confirm(p) \/ Reuse(p)
      BY <3>5 DEF Confirm, Reuse, Return, Stop, Goto, Note
    <3>6. CASE Distrust(p)
      BY <3>6 DEF Distrust, Stop, Goto, Note
    <3> QED
      BY <1>4, <3>2, <3>3, <3>4, <3>5, <3>6 DEF Publish
  <2>4. /\ pc' = [q \in Procs |-> pc'[q]] /\ tx' = [q \in Procs |-> tx'[q]]
        /\ \A q \in Procs : pc'[q] = "stage" => pc[q] = "stage" /\ tx'[q] = tx[q]
    BY <2>3
  <2> QED
    BY <2>1, <2>2, <2>4
<1>5. CASE Meddle
  <2>1. UNCHANGED <<tree, pc, tx, asked>> /\ at' = [d \in Dirs |-> at'[d]]
        /\ \A d \in Dirs : at'[d] = Unmade => at[d] = Unmade
    <3>1. PICK d \in Dirs, foreign \in Fresh \cup {None} :
            /\ at[d].kind \in {"stage", "run", "address"}
            /\ at' = [x \in Dirs |-> IF x = d THEN Elsewhere(d) ELSE IF x = foreign THEN at[d] ELSE at[x]]
      BY <1>5 DEF Meddle
    <3> QED
      BY <1>5, <3>1, NamesDiffer DEF Meddle
  <2> QED
    BY <2>1
<1>6. CASE UNCHANGED vars
  BY <1>6 DEF vars
<1> QED
  BY <1>1, <1>2, <1>3, <1>4, <1>5, <1>6 DEF Next

\* A run assembled in strict mode is never taken for a legacy run, whatever of its core
\* artifacts, and of the record of that failure, could be written, and wherever the
\* directory is moved to.
THEOREM StrictNeverLegacy == ASSUME NoneApart PROVE Spec => []StrictNeverPassesAsLegacy
<1>1. ModesMatch => StrictNeverPassesAsLegacy
  BY StrictDeclared DEF ModesMatch, StrictNeverPassesAsLegacy, Eligibility
<1> QED
  BY <1>1, ModesMatchInit, ModesMatchNext, PublicationInvInit, PublicationInvNext, PTL DEF Spec
=============================================================================
