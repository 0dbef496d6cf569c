-------------------------- MODULE IdempotentLedger --------------------------
(***************************************************************************)
(* What the lifecycle service promises its callers, without fences, ports, *)
(* drafts or failures: every aggregate is a ledger of commands, each key   *)
(* recorded at most once and each record one legal step from the one       *)
(* before; whatever a caller is answered is a record of the ledger.        *)
(***************************************************************************)
EXTENDS Sequences, Functions

CONSTANTS
  Clients, Aggregates,
  Commands(_),        \* the command keys of an aggregate
  Successors(_),      \* the stages one command may lead to from a stage
  NoAnswer

VARIABLES
  ledger,   \* Aggregates -> Seq([key, stage])
  answer    \* Clients -> the record last answered, or NoAnswer

Last(s) == IF ledger[s] = <<>> THEN "unregistered" ELSE ledger[s][Len(ledger[s])].stage

Recorded(s) == {r.key : r \in Range(ledger[s])}

Init ==
  /\ ledger = [s \in Aggregates |-> <<>>]
  /\ answer = [c \in Clients |-> NoAnswer]

(* A command takes effect once, and may be answered in the same step.      *)
Execute(s) ==
  \E key \in Commands(s) \ Recorded(s), stage \in Successors(Last(s)) :
    ledger' = [ledger EXCEPT ![s] = Append(@, [key |-> key, stage |-> stage])]

Answered(c) ==
  \E r \in (UNION {Range(ledger'[s]) : s \in Aggregates}) \cup {NoAnswer} :
    answer' = [answer EXCEPT ![c] = r]

Next ==
  /\ UNCHANGED ledger \/ \E s \in Aggregates : Execute(s)
  /\ UNCHANGED answer \/ \E c \in Clients : Answered(c)

Spec == Init /\ [][Next]_<<ledger, answer>>
=============================================================================
