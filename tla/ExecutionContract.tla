-------------------------- MODULE ExecutionContract --------------------------
(***************************************************************************)
(* What the pipeline executor promises of a collector's executions, with   *)
(* no processes, no sessions and no provider: one execution is open at a   *)
(* time, it gets one collection or none, that collection is never another  *)
(* execution's and never changes, and a decided execution stays decided    *)
(* (the two invariants of app/pipeline/executor.py's docstring).           *)
(*                                                                         *)
(* It is promised whole of an execution that one process at a time drives. *)
(* Nothing in the code ensures that, so the contract also says what is     *)
(* left of the promise when two processes hold the execution at once.      *)
(***************************************************************************)
EXTENDS Naturals

CONSTANTS Exec, Job

VARIABLES
    stage,      \* of each execution: none, claimed, collecting, decided
    collection, \* the provider job of each execution, 0 before it has one
    hold        \* of each execution: driven by one process at a time (sole),
                \* by two at once (shared), by two at once while they knew of
                \* no provider job (raced)

contractVars == <<stage, collection, hold>>

Open == {e \in Exec : stage[e] \in {"claimed", "collecting"}}
OnlyOpen(e) == Open \subseteq {e}
IsNobodyElses(e, j) == \A f \in Exec \ {e} : collection[f] # j

Init ==
    /\ stage = [e \in Exec |-> "none"]
    /\ collection = [e \in Exec |-> 0]
    /\ hold = [e \in Exec |-> "sole"]

Claim(e) ==
    /\ stage[e] = "none"
    /\ Open = {}
    /\ stage' = [stage EXCEPT ![e] = "claimed"]
    /\ UNCHANGED <<collection, hold>>

Collect(e) ==
    /\ stage[e] = "claimed"
    /\ \E j \in Job :
        /\ \A f \in Exec : collection[f] # j
        /\ collection' = [collection EXCEPT ![e] = j]
    /\ stage' = [stage EXCEPT ![e] = "collecting"]
    /\ UNCHANGED hold

Decide(e) ==
    /\ e \in Open
    /\ stage' = [stage EXCEPT ![e] = "decided"]
    /\ UNCHANGED <<collection, hold>>

\* A second process takes up the execution while the first still holds it.
Share(e) ==
    /\ hold[e] # "raced"
    /\ hold' = [hold EXCEPT ![e] = IF stage[e] = "claimed" THEN "raced" ELSE "shared"]
    /\ UNCHANGED <<stage, collection>>

\* Of two that know its collection, one may still be writing what the other
\* has decided: the execution is open again, about the same collection.
Reopen(e) ==
    /\ hold[e] = "shared"
    /\ stage[e] = "decided"
    /\ OnlyOpen(e)
    /\ stage' = [stage EXCEPT ![e] = "collecting"]
    /\ UNCHANGED <<collection, hold>>

\* Of two that knew of none, each may trigger its own and decide as it likes.
Wander(e) ==
    /\ hold[e] = "raced"
    /\ \E s \in {"claimed", "collecting", "decided"} :
        /\ s # "decided" => OnlyOpen(e)
        /\ stage' = [stage EXCEPT ![e] = s]
    /\ \E j \in Job \cup {0} :
        /\ j # 0 => IsNobodyElses(e, j)
        /\ collection' = [collection EXCEPT ![e] = j]
    /\ UNCHANGED hold

Next == \E e \in Exec :
    Claim(e) \/ Collect(e) \/ Decide(e) \/ Share(e) \/ Reopen(e) \/ Wander(e)

Spec == Init /\ [][Next]_contractVars

=============================================================================
