--------------------------- MODULE ResearchSearches ---------------------------
(***************************************************************************)
(* One research pass over a subject: its queries are searched on threads   *)
(* of their own under one budget (run_searches_concurrently,               *)
(* app/research_intelligence/execution.py), what returned is ingested on   *)
(* the calling thread (orchestration.py) and the run that asked for it is  *)
(* closed by what came back (enrichment.py, investigations/execution.py).  *)
(*                                                                         *)
(* A thread that outlives the budget is not stopped.  It shares with the   *)
(* caller the execution of its query, which each of them reads and writes  *)
(* one attribute at a time: an action is what happens between two accesses *)
(* that the other could tell apart.                                        *)
(***************************************************************************)
EXTENDS Naturals

CONSTANT NumQueries   \* queries of the plan, 3 in the code

ASSUME QueriesAssumption == NumQueries \in Nat \ {0}

VARIABLES
    execution,  \* the executions that threads and caller share
    thread,     \* the thread of each query
    caller,     \* the calling thread
    outcome,    \* what the caller reports of each query
    ingested,   \* queries whose results were ingested
    punctual,   \* history: queries whose thread ended within the budget
    run         \* how the run was closed

vars == <<execution, thread, caller, outcome, ingested, punctual, run>>

-----------------------------------------------------------------------------
Query == 1 .. NumQueries

\* _TERMINAL_QUERY_STATUSES.
Terminal == {"succeeded", "failed", "timed_out"}
QueryStatus == Terminal \cup {"pending", "running"}

\* result: what the provider returned, no papers told apart from some.
Execution == [status : QueryStatus, error : BOOLEAN,
              result : {"none", "empty", "papers"}]
Pending == [status |-> "pending", error |-> FALSE, result |-> "none"]

\* queued: in the pool; taken: by a thread that has not run a line yet;
\* found, failing, timing_out: the search is over, its status not written.
Ended == {"returned", "failed", "timed_out"}
ThreadPC == Ended \cup {"queued", "taken", "searching", "found", "failing",
                        "timing_out", "cancelled"}

CallerPC == {"waiting", "shutting", "marking", "stamping", "choosing", "storing",
             "reporting", "judging", "closing", "done"}

\* at: the query it is at; judgement: none, when no paper was selected, outage,
\* declined, rejected or matched.
Judgement == {"none", "outage", "declined", "rejected", "matched"}
Caller == [pc : CallerPC, at : Query, judgement : Judgement]

Outcome == QueryStatus \cup {"unreported"}

Reason == {"none", "timeout", "acquisition_failed", "acquisition_partial",
           "semantic_matching_failed", "no_relevant_research", "unexpected"}
Run == [status : {"running", "succeeded", "failed"}, reason : Reason]

Init ==
    /\ execution = [q \in Query |-> Pending]
    /\ thread = [q \in Query |-> "queued"]
    /\ caller = [pc |-> "waiting", at |-> 1, judgement |-> "none"]
    /\ outcome = [q \in Query |-> "unreported"]
    /\ ingested = {}
    /\ punctual = {}
    /\ run = [status |-> "running", reason |-> "none"]

-----------------------------------------------------------------------------
(* The thread of a query: run_one.                                         *)

ThreadTo(q, pc) == thread' = [thread EXCEPT ![q] = pc]
Callers == <<caller, outcome, ingested, punctual, run>>

Take(q) ==
    /\ thread[q] = "queued"
    /\ ThreadTo(q, "taken")
    /\ UNCHANGED <<execution, Callers>>

Search(q) ==
    /\ thread[q] = "taken"
    /\ execution' = [execution EXCEPT ![q].status = "running"]
    /\ ThreadTo(q, "searching")
    /\ UNCHANGED Callers

\* Defect: the status before the data behind it.
ReturnStatusFirst(q) ==
    /\ thread[q] = "searching"
    /\ execution' = [execution EXCEPT ![q].status = "succeeded"]
    /\ ThreadTo(q, "found")
    /\ UNCHANGED Callers

\* The records, their count and the job they came from, before the status.
Return(q) ==
    /\ thread[q] = "searching"
    /\ \E found \in {"empty", "papers"} :
          execution' = [execution EXCEPT ![q].result = found]
    /\ ThreadTo(q, "found")
    /\ UNCHANGED Callers

Succeed(q) ==
    /\ thread[q] = "found"
    /\ execution' = [execution EXCEPT ![q].status = "succeeded"]
    /\ ThreadTo(q, "returned")
    /\ UNCHANGED Callers

\* The collector raises: _classify_failure tells a local timeout from a failure.
Raise(q) ==
    /\ thread[q] = "searching"
    /\ execution' = [execution EXCEPT ![q].error = TRUE]
    /\ \E pc \in {"failing", "timing_out"} : ThreadTo(q, pc)
    /\ UNCHANGED Callers

Fail(q) ==
    /\ \/ /\ thread[q] = "failing"
          /\ execution' = [execution EXCEPT ![q].status = "failed"]
          /\ ThreadTo(q, "failed")
       \/ /\ thread[q] = "timing_out"
          /\ execution' = [execution EXCEPT ![q].status = "timed_out"]
          /\ ThreadTo(q, "timed_out")
    /\ UNCHANGED Callers

-----------------------------------------------------------------------------
(* The caller: waiting for the threads, then leaving them.                 *)

Threads == <<execution, thread>>
Goto(pc) == caller' = [caller EXCEPT !.pc = pc]

\* Defect: the loop variable is not reset.
AdvanceOn(pc, after) ==
    caller' = [caller EXCEPT !.pc = IF caller.at = NumQueries THEN after ELSE pc,
                             !.at = @ + 1]

\* The next query in the order of the plan, or what comes after the last one.
Advance(pc, after) ==
    caller' = IF caller.at = NumQueries THEN [caller EXCEPT !.pc = after, !.at = 1]
              ELSE [caller EXCEPT !.pc = pc, !.at = @ + 1]

\* All threads ended, or total_budget_seconds passed while some had not.
\* Waking to publish progress in between changes nothing the pass depends on.
StopWaiting ==
    /\ caller.pc = "waiting"
    /\ Goto("shutting")
    /\ punctual' = {q \in Query : thread[q] \in Ended}
    /\ UNCHANGED <<Threads, outcome, ingested, run>>

\* Defect: leaving the pool joins its threads.
ShutDownJoining ==
    /\ caller.pc = "shutting"
    /\ \A q \in Query : thread[q] \in Ended
    /\ Goto("marking")
    /\ UNCHANGED <<Threads, outcome, ingested, punctual, run>>

\* shutdown(wait=False, cancel_futures=True).
ShutDown ==
    /\ caller.pc = "shutting"
    /\ thread' = [q \in Query |-> IF thread[q] = "queued" THEN "cancelled"
                                                          ELSE thread[q]]
    /\ Goto("marking")
    /\ UNCHANGED <<execution, outcome, ingested, punctual, run>>

\* Defect: every execution is timed out once the budget has passed.
MarkAll ==
    /\ caller.pc = "marking"
    /\ Goto("stamping")
    /\ UNCHANGED <<Threads, outcome, ingested, punctual, run>>

\* An execution that is terminal is left as it is ...
Mark ==
    /\ caller.pc = "marking"
    /\ IF execution[caller.at].status \in Terminal
       THEN Advance("marking", "choosing") ELSE Goto("stamping")
    /\ UNCHANGED <<Threads, outcome, ingested, punctual, run>>

\* ... and one that was not, when it was looked at, is TIMED_OUT.
Stamp ==
    /\ caller.pc = "stamping"
    /\ execution' = [execution EXCEPT ![caller.at].status = "timed_out",
                                      ![caller.at].error = TRUE]
    /\ Advance("marking", "choosing")
    /\ UNCHANGED <<thread, outcome, ingested, punctual, run>>

-----------------------------------------------------------------------------
(* Ingesting what came back: _run_searches, in plan order.                 *)

Choose ==
    /\ caller.pc = "choosing"
    /\ LET e == execution[caller.at] IN
          Goto(IF e.status = "succeeded" /\ e.result # "none" THEN "storing"
                                                              ELSE "reporting")
    /\ UNCHANGED <<Threads, outcome, ingested, punctual, run>>

Store ==
    /\ caller.pc = "storing"
    /\ ingested' = ingested \cup {caller.at}
    /\ outcome' = [outcome EXCEPT ![caller.at] = "succeeded"]
    /\ Advance("choosing", "judging")
    /\ UNCHANGED <<Threads, punctual, run>>

\* The status is read again for the outcome of a search that is not ingested.
Report ==
    /\ caller.pc = "reporting"
    /\ outcome' = [outcome EXCEPT ![caller.at] = execution[caller.at].status]
    /\ Advance("choosing", "judging")
    /\ UNCHANGED <<Threads, ingested, punctual, run>>

-----------------------------------------------------------------------------
(* Judging, and how the run is closed.                                     *)

\* rank_candidates selects some of the papers ingested, or none; of the verdicts
\* on them only what the counters tell apart.  What the last progress write does
\* to the searches flushed so far is ResearchRuns' RecordSearches.
Judge ==
    /\ caller.pc = "judging"
    /\ \E judgement \in Judgement :
        /\ judgement # "none" => \E q \in ingested : execution[q].result = "papers"
        /\ caller' = [caller EXCEPT !.pc = "closing", !.judgement = judgement]
    /\ UNCHANGED <<Threads, outcome, ingested, punctual, run>>

Successful == {q \in Query : outcome[q] = "succeeded"}

\* Defect: one search that failed fails them all.
AnyFailed == Successful # Query

\* result.queries and not result.successful_queries.
AllFailed == Successful = {}

\* The partial-result policy, the semantic outage, success_reason.
Verdict ==
    CASE AllFailed ->
           [status |-> "failed",
            reason |-> IF \A q \in Query : outcome[q] = "timed_out"
                       THEN "timeout" ELSE "acquisition_failed"]
      [] ~AllFailed /\ caller.judgement = "outage" ->
           [status |-> "failed", reason |-> "semantic_matching_failed"]
      [] OTHER ->
           [status |-> "succeeded",
            reason |-> IF Successful # Query THEN "acquisition_partial"
                       ELSE IF caller.judgement = "matched" THEN "none"
                       ELSE "no_relevant_research"]

Close ==
    /\ caller.pc = "closing"
    /\ run' = Verdict
    /\ Goto("done")
    /\ UNCHANGED <<Threads, outcome, ingested, punctual>>

\* Ingesting or judging raises: the run is failed, and that commits what was
\* flushed before.
Abort ==
    /\ caller.pc \in {"storing", "judging"}
    /\ run' = [status |-> "failed", reason |-> "unexpected"]
    /\ Goto("done")
    /\ UNCHANGED <<Threads, outcome, ingested, punctual>>

\* The database raises: the session takes no more writes, the one that would
\* fail the run included, and the run is left to be aged out.
Break ==
    /\ caller.pc \in {"storing", "judging"}
    /\ Goto("done")
    /\ UNCHANGED <<Threads, outcome, ingested, punctual, run>>

-----------------------------------------------------------------------------
ThreadStep(q) == Take(q) \/ Search(q) \/ Return(q) \/ Succeed(q) \/ Raise(q) \/ Fail(q)

CallerStep ==
    \/ StopWaiting \/ ShutDown \/ Mark \/ Stamp
    \/ Choose \/ Store \/ Report \/ Judge \/ Close \/ Abort \/ Break

Next == CallerStep \/ \E q \in Query : ThreadStep(q)

\* The caller runs, and its budget passes.  Nothing is assumed of the threads:
\* a search may never return.
Spec == Init /\ [][Next]_vars /\ WF_vars(CallerStep)

-----------------------------------------------------------------------------
(* Invariants.                                                             *)

\* Every variable keeps its type.
TypeOK ==
    /\ execution \in [Query -> Execution]
    /\ thread \in [Query -> ThreadPC]
    /\ caller \in Caller
    /\ outcome \in [Query -> Outcome]
    /\ ingested \subseteq Query
    /\ punctual \subseteq Query
    /\ run \in Run

\* run_one: "a reader on the calling thread that sees a terminal status also
\* sees the data behind it", whichever of the two threads wrote it last.
DataBehindStatus ==
    \A q \in Query :
        /\ execution[q].status = "succeeded" => execution[q].result # "none"
        /\ execution[q].status \in {"failed", "timed_out"} => execution[q].error

\* A search that ended within the budget is reported as it ended, whatever the
\* others do: it is ingested if it returned, and never taken for timed out.
PunctualIsReported ==
    \A q \in punctual : outcome[q] # "unreported" =>
        /\ outcome[q] = IF thread[q] = "returned" THEN "succeeded" ELSE thread[q]
        /\ q \in ingested <=> thread[q] = "returned"

\* "ONE search returning is enough to be useful": a run is failed for its
\* searches only when no search was ingested.
OneSearchIsEnough ==
    run.reason \in {"timeout", "acquisition_failed"} => ingested = {}

\* "Every search failing is a failed enrichment": a run succeeds on results it
\* ingested, unless a search outlived the budget and succeeded while the caller
\* was reporting it.
SuccessHasResults ==
    run.status = "succeeded" /\ ingested = {}
        => \E q \in Query \ punctual : outcome[q] = "succeeded"

\* The partial-result policy, both ways: how a run was closed and what was
\* ingested for it agree, although one is decided from statuses that threads
\* still write and the other was decided from an earlier look at them.
VerdictFollowsResults == OneSearchIsEnough /\ SuccessHasResults

-----------------------------------------------------------------------------
(* Liveness: "One slow Scraper Studio job held the entire product hostage."*)

CallerReturns == <>(caller.pc = "done")

=============================================================================
