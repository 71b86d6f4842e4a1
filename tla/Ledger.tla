--------------------------------- MODULE Ledger ---------------------------------
(***************************************************************************)
(* What Runner.Apply of pg/runner.go promises, without runs, transactions, *)
(* gates or failures: each migration takes effect once, together with its  *)
(* row, and after all those that precede it in its list.                   *)
(*                                                                         *)
(* A list whose number lies below the highest one applied is no exception: *)
(* the runner compares names, version by version, never orders.            *)
(***************************************************************************)
EXTENDS Integers, Sequences

CONSTANTS Versions, Lists

VARIABLES
    name,     \* version -> name in the ledger, "" when it is not there
    ran       \* version -> how often its SQL has taken effect

Init ==
    /\ name = [v \in Versions |-> ""]
    /\ ran = [v \in Versions |-> 0]

Take(list, i) ==
    LET v == list[i].version IN
    /\ \A j \in 1..(i - 1) : name[list[j].version] = list[j].name
    /\ name[v] = "" /\ ran[v] = 0
    /\ name' = [name EXCEPT ![v] = list[i].name]
    /\ ran' = [ran EXCEPT ![v] = 1]

Next == \E list \in Lists : \E i \in DOMAIN list : Take(list, i)

Spec == Init /\ [][Next]_<<name, ran>>
================================================================================
