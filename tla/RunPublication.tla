---------------------------- MODULE RunPublication ----------------------------
(***************************************************************************)
(* How finished work gets its name.  assemble (agentcli/assemble.py) fills *)
(* a hidden stage through its descriptor, run.json last, and renames it to *)
(* the run's name only when that is free (atomic_publish.py); the artifact *)
(* sink (adapters/local.py) does the same with a tree whose name is its    *)
(* content address.  Whatever stands under the name and is not the stage   *)
(* is moved to a quarantine name.  Nothing is ever deleted.                *)
(*                                                                         *)
(* A directory is its inode; a hidden name is named by the directory that  *)
(* was made under it.  An outside program may move an entry of the output  *)
(* root away and put a directory of its own in its place.  Two assembles   *)
(* have one run id, two sinks one content.                                 *)
(***************************************************************************)
EXTENDS Naturals, Sequences, SequencesExt

CONSTANTS
  Procs,      \* processes that assemble or publish
  Dirs,       \* bound: the directories that are ever made
  Modes,      \* the architecture modes runs are assembled with
  MaxMeddles, \* bound: how often an outside program moves an entry
  Failing,    \* {TRUE} when the core artifacts of a run may fail to be written
  None

\* None is no directory and no mode of a run.
NoneApart == None \notin Dirs /\ None \notin {"legacy", "shadow", "strict"}

VARIABLES
  at,      \* Dirs -> the name the directory stands under
  tree,    \* Dirs -> its files, each with what it says
  pc,      \* Procs -> where the command is
  tx,      \* Procs -> its local variables
  meddles, \* how often an outside program moved an entry
  touched, \* history: the final names something irregular happened to
  asked,   \* history: Dirs -> the mode it was assembled in
  returned \* history: what commands returned, with the directory of it

vars == <<at, tree, pc, tx, meddles, touched, asked, returned>>

-----------------------------------------------------------------------------
(* Names.                                                                  *)

Name(kind, of) == [kind |-> kind, of |-> of]
Unmade == Name("unmade", None)
Stage(d) == Name("stage", d)
Rejected(d) == Name("rejected", d)
Elsewhere(d) == Name("elsewhere", d)
Final(op) == Name(op, None)

Occupied(name) == \E d \in Dirs : at[d] = name
Occupant(name) == CHOOSE d \in Dirs : at[d] = name
Fresh == {d \in Dirs : at[d] = Unmade}

NoFiles == [f \in {} |-> "whole"]

Idle == [op |-> None, mode |-> None, dir |-> None, seen |-> None]

Goto(p, label) == pc' = [pc EXCEPT ![p] = label]
Note(p, t) == tx' = [tx EXCEPT ![p] = t]
Stop(p) == Goto(p, "idle") /\ Note(p, Idle)

-----------------------------------------------------------------------------
(* The files of a run.                                                     *)

\* A file and what it says; writing is O_EXCL, so a file is written once.
File(name, says) == [name |-> name, says |-> says]
Names(payloads) == {f.name : f \in Range(payloads)}
Written(files, payloads) ==
  [n \in DOMAIN files \cup Names(payloads) |->
     IF n \in DOMAIN files THEN files[n]
     ELSE (CHOOSE f \in Range(payloads) : f.name = n).says]

\* How many of the payloads can be written: none that exists.
Writable(files, payloads) ==
  {n \in 0..Len(payloads) : \A i \in 1..n : payloads[i].name \notin DOMAIN files}

\* _write_core_payloads: all of them, or up to the file that exists or, when
\* writing may fail, up to any file, of which a part may be left.
WriteAll(files, payloads) ==
  IF Len(payloads) \in Writable(files, payloads) THEN {Written(files, payloads)} ELSE {}

WriteSome(files, payloads) ==
  LET able == Writable(files, payloads)
      stops == {n \in able \ {Len(payloads)} : TRUE \in Failing \/ n + 1 \notin able}
  IN  {Written(files, SubSeq(payloads, 1, n)) : n \in stops}
      \cup IF TRUE \notin Failing THEN {}
           ELSE {Written(files, Append(SubSeq(payloads, 1, n - 1),
                                       File(payloads[n].name, "torn"))) : n \in able \ {0}}

\* The files of core/ that an import looks at, in the order they are written.
Candidate == <<"evidence", "claims", "relationships", "contract", "decision", "release">>
Intact(names) == [i \in DOMAIN names |-> File(names[i], "whole")]

\* _write_strict_artifacts and _record_grounding_rejection.
StrictPayloads == <<File("execution", "eligible")>> \o Intact(Candidate \o <<"projections">>)
RejectionPayloads == <<File("grounding", "whole"), File("execution", "ineligible")>>
ShadowPayloads == Intact(<<"evidence", "claims", "relationships", "contract",
                          "decision", "comparison", "projections">>)
ErrorPayloads == <<File("execution", "blocked"), File("error", "whole")>>

\* _record_error of strict.py, whose own failure is swallowed.
RecordError(files) == WriteAll(files, ErrorPayloads) \cup WriteSome(files, ErrorPayloads)

\* run_strict_core_safely: a candidate, a rejection of ungrounded claims, or an
\* error of the Core or of writing either.
StrictRuns(files) ==
  LET torn == WriteSome(files, StrictPayloads) \cup WriteSome(files, RejectionPayloads)
  IN  (WriteAll(files, StrictPayloads) \X {"passed"})
      \cup (WriteAll(files, RejectionPayloads) \X {"failed"})
      \cup ((UNION {RecordError(f) : f \in torn \cup {files}}) \X {"blocked"})

\* write_strict_blocked_marker, after a validation that did not pass.
BlockedRuns(files) ==
  LET marker == <<File("execution", "blocked")>>
  IN  (WriteAll(files, marker) \cup UNION {RecordError(f) : f \in WriteSome(files, marker)})
      \X {"failed"}

\* run_shadow_safely: its artifacts or its error change nothing else.
ShadowRuns(files, status) ==
  LET error == <<File("error", "whole")>>
  IN  (WriteAll(files, ShadowPayloads)
       \cup UNION {WriteAll(f, error) \cup WriteSome(f, error) :
                     f \in WriteSome(files, ShadowPayloads) \cup {files}})
      \X {status}

CoreRuns(files, mode, status) ==
  CASE mode = "legacy" -> {<<files, status>>}
    [] mode = "shadow" -> ShadowRuns(files, status)
    [] mode = "strict" -> IF status = "passed" THEN StrictRuns(files) ELSE BlockedRuns(files)

\* Mutant: the descriptor of a run does not say how it was assembled.
ModelessDescriptor(mode, status) == [mode |-> "legacy", status |-> status]

RunDescriptor(mode, status) == [mode |-> mode, status |-> status]

\* All an assemble may leave in its stage before it publishes: the artifacts of
\* the pipeline, core/ after their validation, and run.json.
AssembledTrees(mode) ==
  {Written(r[1], <<File("run", RunDescriptor(mode, r[2]))>>) :
     r \in UNION {CoreRuns(Written(NoFiles, <<File("artifacts", "whole")>>), mode, status) :
                    status \in {"passed", "failed"}}}

SinkTree == Written(NoFiles, Intact(<<"projections">>))

-----------------------------------------------------------------------------
(* What an import makes of a run (foundry/strict_artifacts.py).            *)

DeclaredMode(files) == IF "run" \in DOMAIN files THEN files["run"].mode ELSE None

\* require_eligible_strict_candidate: refused, a legacy run, or a strict candidate.
Eligibility(files) ==
  LET says(f) == IF f \in DOMAIN files THEN files[f] ELSE None
      eligible == /\ DeclaredMode(files) = "strict" /\ says("execution") = "eligible"
                  /\ \A f \in Range(Candidate) : says(f) = "whole"
      legacy == /\ says("execution") = None /\ says("release") = None
                /\ DeclaredMode(files) # "strict"
  IN  IF eligible THEN "candidate" ELSE IF legacy THEN "legacy" ELSE "refused"

-----------------------------------------------------------------------------
(* Publishing.                                                             *)

\* The inputs were checked; the name has to be free, for a sink it may hold the
\* same content already.
Begin(p) ==
  /\ pc[p] = "idle"
  /\ \E op \in {"run", "address"}, mode \in Modes \cup {None} :
       /\ (op = "address") = (mode = None)
       /\ IF Occupied(Final(op))
          THEN /\ op = "address"
               /\ Note(p, [Idle EXCEPT !.op = op]) /\ Goto(p, "reuse")
          ELSE Note(p, [Idle EXCEPT !.op = op, !.mode = mode]) /\ Goto(p, "stage")
  /\ UNCHANGED <<at, tree, meddles, touched, asked, returned>>

\* create_owned_directory_relative, and everything written below its descriptor.
FillStage(p) ==
  LET t == tx[p] IN
  /\ pc[p] = "stage"
  /\ \E d \in Fresh :
       /\ at' = [at EXCEPT ![d] = Stage(d)]
       /\ \E files \in IF t.op = "run" THEN AssembledTrees(t.mode) ELSE {SinkTree} :
            tree' = [tree EXCEPT ![d] = files]
       /\ Note(p, [t EXCEPT !.dir = d])
       /\ asked' = [asked EXCEPT ![d] = t.mode]
  /\ Goto(p, "source")
  /\ UNCHANGED <<meddles, touched, returned>>

\* Mutant: a write that fails is passed over.
StageGoesOn(p) ==
  /\ pc[p] = "stage"
  /\ \E d \in Fresh :
       /\ at' = [at EXCEPT ![d] = Stage(d)]
       /\ tree' = [tree EXCEPT ![d] = NoFiles]
       /\ Note(p, [tx[p] EXCEPT !.dir = d])
  /\ Goto(p, "source")
  /\ UNCHANGED <<meddles, touched, asked, returned>>

\* A write outside core/ fails: the stage stays where it is.
StageFails(p) ==
  /\ pc[p] = "stage"
  /\ \E d \in Fresh :
       /\ at' = [at EXCEPT ![d] = Stage(d)]
       /\ tree' = [tree EXCEPT ![d] = NoFiles]
  /\ Stop(p)
  /\ UNCHANGED <<meddles, touched, asked, returned>>

\* verify_directory_entry_identity of the source.
VerifySource(p) ==
  LET d == tx[p].dir IN
  /\ pc[p] = "source"
  /\ IF at[d] = Stage(d) THEN Goto(p, "rename") /\ UNCHANGED tx ELSE Stop(p)
  /\ UNCHANGED <<at, tree, meddles, touched, asked, returned>>

\* renameat2 with RENAME_NOREPLACE.
MoveNoReplace(x, name) == ~Occupied(name) /\ at' = [at EXCEPT ![x] = name]

\* Whatever stands under the stage's name by now is what gets moved.
Rename(p) ==
  LET t == tx[p] IN
  /\ pc[p] = "rename" /\ Occupied(Stage(t.dir))
  /\ MoveNoReplace(Occupant(Stage(t.dir)), Final(t.op))
  /\ Goto(p, "confirm")
  /\ UNCHANGED <<tree, tx, meddles, touched, asked, returned>>

\* The name is taken: an assemble raises, a sink looks whether it is the same.
Collide(p) ==
  LET t == tx[p] IN
  /\ pc[p] = "rename" /\ Occupied(Stage(t.dir)) /\ Occupied(Final(t.op))
  /\ IF t.op = "run" THEN Stop(p) ELSE Goto(p, "reuse") /\ UNCHANGED tx
  /\ UNCHANGED <<at, tree, meddles, touched, asked, returned>>

RenameFails(p) ==
  /\ pc[p] = "rename" /\ Stop(p)
  /\ UNCHANGED <<at, tree, meddles, touched, asked, returned>>

\* The name has to hold the stage, with nothing in it but what was written.
PublishedStage(p) == at[tx[p].dir] = Final(tx[p].op)

Return(p, d) ==
  /\ returned' = returned \cup {[op |-> tx[p].op, dir |-> d]}
  /\ Stop(p)

\* The sink passes no identity to the publication and compares itself, without
\* a quarantine; an assemble's last check of the output root may raise too.
Confirm(p) ==
  LET t == tx[p] IN
  /\ pc[p] = "confirm"
  /\ \/ PublishedStage(p) /\ Return(p, t.dir)
     \/ t.op = "run" /\ Stop(p) /\ UNCHANGED returned
     \/ t.op = "address" /\ ~PublishedStage(p) /\ Stop(p) /\ UNCHANGED returned
  /\ t.op = "run" => PublishedStage(p)
  /\ UNCHANGED <<at, tree, meddles, touched, asked>>

\* The verification or the fsync of the root fails: what stands under the name
\* is looked at ...
Distrust(p) ==
  LET t == tx[p] IN
  /\ pc[p] = "confirm"
  /\ IF Occupied(Final(t.op))
     THEN Note(p, [t EXCEPT !.seen = Occupant(Final(t.op))]) /\ Goto(p, "quarantine")
     ELSE Stop(p)
  /\ touched' = IF PublishedStage(p) THEN touched \cup {t.op} ELSE touched
  /\ UNCHANGED <<at, tree, meddles, asked, returned>>

\* ... and moved away, whatever it is by then; a difference only changes the error.
Quarantine(p) ==
  LET t == tx[p] IN
  /\ pc[p] = "quarantine"
  /\ IF Occupied(Final(t.op))
     THEN LET d == Occupant(Final(t.op)) IN at' = [at EXCEPT ![d] = Rejected(d)]
     ELSE UNCHANGED at
  /\ Stop(p)
  /\ UNCHANGED <<tree, meddles, touched, asked, returned>>

QuarantineFails(p) ==
  /\ pc[p] = "quarantine" /\ Stop(p)
  /\ touched' = touched \cup {tx[p].op}
  /\ UNCHANGED <<at, tree, meddles, asked, returned>>

SameContent(d) == tree[d] = SinkTree

\* _existing_refs: the tree under the address is read twice and compared.
Reuse(p) ==
  /\ pc[p] = "reuse"
  /\ IF Occupied(Final("address")) /\ SameContent(Occupant(Final("address")))
     THEN Return(p, Occupant(Final("address")))
     ELSE Stop(p) /\ UNCHANGED returned
  /\ UNCHANGED <<at, tree, meddles, touched, asked>>

\* Killed between two calls.
Crash(p) ==
  /\ pc[p] # "idle"
  /\ touched' = IF pc[p] \in {"confirm", "quarantine"} THEN touched \cup {tx[p].op} ELSE touched
  /\ Stop(p)
  /\ UNCHANGED <<at, tree, meddles, asked, returned>>

\* An outside program moves an entry and may leave a directory in its place.
Meddle ==
  /\ meddles < MaxMeddles
  /\ \E d \in Dirs, foreign \in Fresh \cup {None} :
       /\ at[d].kind \in {"stage", "run", "address"}
       /\ at' = [x \in Dirs |-> IF x = d THEN Elsewhere(d)
                                ELSE IF x = foreign THEN at[d] ELSE at[x]]
       /\ touched' = IF at[d].kind = "stage" THEN touched ELSE touched \cup {at[d].kind}
  /\ meddles' = meddles + 1
  /\ UNCHANGED <<tree, pc, tx, asked, returned>>

-----------------------------------------------------------------------------
Init ==
  /\ at = [d \in Dirs |-> Unmade] /\ tree = [d \in Dirs |-> NoFiles]
  /\ pc = [p \in Procs |-> "idle"] /\ tx = [p \in Procs |-> Idle]
  /\ meddles = 0 /\ touched = {} /\ asked = [d \in Dirs |-> None] /\ returned = {}

Publish(p) ==
  \/ Begin(p) \/ FillStage(p) \/ StageFails(p) \/ VerifySource(p) \/ Rename(p)
  \/ Collide(p) \/ RenameFails(p) \/ Confirm(p) \/ Distrust(p) \/ Quarantine(p)
  \/ QuarantineFails(p) \/ Reuse(p) \/ Crash(p)

Next == (\E p \in Procs : Publish(p)) \/ Meddle

Spec == Init /\ [][Next]_vars

-----------------------------------------------------------------------------
(* Correctness.                                                            *)

\* What a command returned stands under the name it returned, whole, however many
\* commands race for the name and whoever replaces their stages; until an outside
\* program moves an entry of that name or a publication of it cannot be verified.
ReturnedStands ==
  \A r \in returned :
    /\ tree[r.dir] # NoFiles
    /\ r.op \notin touched => at[r.dir] = Final(r.op)

\* Once the commands are done, the run's name holds a run with its completion
\* marker or nothing: a replaced stage that was published is moved away again
\* (atomic_publish.py:211), unless that failed or the process died.
NameHoldsWholeRun ==
  \A d \in Dirs :
    /\ at[d] = Final("run") /\ "run" \notin touched
    /\ \A p \in Procs : pc[p] \notin {"confirm", "quarantine"}
    => "run" \in DOMAIN tree[d]

\* A run assembled in strict mode is never taken for a legacy run, whatever of its
\* core artifacts and of their error record could not be written.
StrictNeverPassesAsLegacy ==
  \A d \in Dirs : asked[d] = "strict" => Eligibility(tree[d]) # "legacy"

\* README.md:872, strict_artifacts.py:34: a strict execution that failed is marked
\* blocked and cannot be imported.
BlockedIsRefused ==
  \A d \in Dirs :
    "run" \in DOMAIN tree[d] /\ tree[d]["run"].status = "blocked"
    => Eligibility(tree[d]) # "candidate"
=============================================================================
