---------------------------- MODULE MCFoundryHeads ----------------------------
(***************************************************************************)
(* FoundryApproval at three scopes, of which a behaviour keeps to one: two *)
(* processes over two docsets that share the catalog, or a lock-free       *)
(* reader of a third docset among two approvals, or among an approval and  *)
(* registrations that change its title.  The scopes share no value that    *)
(* the symmetry exchanges; exchanging values of several scopes at once     *)
(* keeps the group, and the time a state takes, small.                     *)
(***************************************************************************)
EXTENDS FoundryApproval, TLC

CONSTANTS d1, d2, d3, p1, p2, p3, a1, a2, a3, a4, a5, a6, t1, t2, t3, t4

VARIABLE scope

Scopes ==
  [heads         |-> [procs |-> {p1, p2}, docsets |-> {d1, d2}, assets |-> {a1, a2, a3}, titles |-> {t1}],
   approvals     |-> [procs |-> {p3}, docsets |-> {d3}, assets |-> {a4, a5}, titles |-> {t4}],
   registrations |-> [procs |-> {p3}, docsets |-> {d3}, assets |-> {a6}, titles |-> {t2, t3}]]

\* What goes on is of the behaviour's scope.
InScope(s) ==
  /\ \A p \in Procs : txn[p] # None =>
       /\ p \in s.procs /\ txn[p].d \in s.docsets
       /\ txn[p].asset \in s.assets \cup {None} /\ txn[p].title \in s.titles \cup {None}
  /\ \A r \in Readers : reading[r] # None => reading[r].d \in s.docsets

MCInit == Init /\ scope \in DOMAIN Scopes

MCNext ==
  /\ UNCHANGED scope
  /\ scope = "heads" => UNCHANGED reading
  /\ Next /\ InScope(Scopes[scope])'

MCSpec == MCInit /\ [][MCNext]_<<vars, scope>>

Exchange(x, y) == x :> y @@ y :> x

Symmetry == Permutations({a1, a2, a3}) \cup
            {Exchange(p1, p2) @@ Exchange(a4, a5), Exchange(d1, d2) @@ Exchange(t2, t3)}
=============================================================================
