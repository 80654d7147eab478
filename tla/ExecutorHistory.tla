--------------------------- MODULE ExecutorHistory ---------------------------
(***************************************************************************)
(* What an execution keeps of its promises when two drivers take it up at  *)
(* once.  Nothing in the code prevents that: an active execution may be    *)
(* joined, resumed or scheduled while its driver sleeps, and each driver   *)
(* goes by the row its own session loaded.  So this module adds to         *)
(* PipelineExecutor what it needs to say how far each promise goes: history*)
(* variables, which the actions of PipelineExecutor set and never read.    *)
(***************************************************************************)
EXTENDS PipelineExecutor

VARIABLES
    shared,   \* executions that two drivers ever held at once
    raced     \* those that two held at once while neither knew of a job

historyVars == <<vars, shared, raced>>

-----------------------------------------------------------------------------
\* The session of d has loaded e; a background task that has not begun has not.
Holds(d, e) == driver[d].exec = e /\ driver[d].pc # "scheduled"

\* The copy d holds of e is open and knows of no provider job.
Blank(d, e) == /\ Holds(d, e)
               /\ driver[d].seen.job = 0
               /\ driver[d].seen.status \in Active

Shared == {e \in Exec : \E v, w \in Driver : v # w /\ Holds(v, e) /\ Holds(w, e)}
Raced == {e \in Exec : \E v, w \in Driver : v # w /\ Blank(v, e) /\ Blank(w, e)}

Remember == shared' = shared \cup Shared' /\ raced' = raced \cup Raced'

HistoryInit == Init /\ shared = {} /\ raced = {}

HistoryNext == Next /\ Remember

HistorySpec == HistoryInit /\ [][HistoryNext]_historyVars /\ Fairness

-----------------------------------------------------------------------------
(* Invariants.                                                             *)

\* One logical execution, at most one provider job: what a driver triggered is
\* not triggered again by the one that resumes after it, wherever it died, nor
\* by one that takes the execution up beside it once its job is known.
OneProviderJob ==
    \A j, k \in Job :
        jobs[j].of \notin {0} \cup raced /\ jobs[j].of = jobs[k].of => j = k

\* Local patience is not provider failure: an execution stays active, so that
\* it can be rejoined, as long as the collection it recorded is not finished,
\* and no stale copy of it closes it.
JobNotAbandoned ==
    \A e \in Exec \ raced :
        execs[e].job # 0 /\ runs[execs[e].job] = "running"
            => execs[e].status \in Active

\* A verdict is about a collection of the execution's own that is over: a
\* completed execution recorded a job triggered for it, and its run finished.
CompletedIsCollected ==
    \A e \in Exec \ raced : execs[e].status = "completed" =>
        /\ execs[e].job # 0
        /\ jobs[execs[e].job].of = e
        /\ runs[execs[e].job] \in {"succeeded", "failed"}

-----------------------------------------------------------------------------
(* The contract of an execution, whoever drives it.                        *)

ContractStage(e) ==
    CASE execs[e].status = "absent" -> "none"
      [] execs[e].status \in Verdict -> "decided"
      [] OTHER -> IF execs[e].job = 0 THEN "claimed" ELSE "collecting"

ContractHold(e) ==
    CASE e \in raced -> "raced"
      [] e \in shared \ raced -> "shared"
      [] OTHER -> "sole"

Contract == INSTANCE ExecutionContract WITH
    stage      <- [e \in Exec |-> ContractStage(e)],
    collection <- [e \in Exec |-> execs[e].job],
    hold       <- [e \in Exec |-> ContractHold(e)]

ImplementsContract == Contract!Spec

=============================================================================
