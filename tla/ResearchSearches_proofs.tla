------------------------ MODULE ResearchSearches_proofs ------------------------
(***************************************************************************)
(* Proofs about ResearchSearches, for every number of queries: its type    *)
(* invariant and its four safety invariants.  Nothing is assumed of the    *)
(* threads, and no fairness is used.                                       *)
(***************************************************************************)
EXTENDS ResearchSearches, TLAPS

-----------------------------------------------------------------------------
(* The inductive invariant.                                                *)

\* What the thread of a query has written, wherever it is.
Written(q) ==
    /\ thread[q] \in {"found", "returned"} => execution[q].result # "none"
    /\ thread[q] \in {"failing", "timing_out", "failed", "timed_out"}
           => execution[q].error

\* The status a thread writes last.
StatusOf(pc) == IF pc = "returned" THEN "succeeded" ELSE pc

\* The execution of a thread that has ended is left as the thread left it, until
\* the caller stops waiting, and for good if it had ended by then.
LeftAlone(q) ==
    q \in punctual \/ (caller.pc = "waiting" /\ thread[q] \in Ended)
        => thread[q] \in Ended /\ execution[q].status = StatusOf(thread[q])

\* Nothing is reported before all executions are marked, a punctual one is not
\* stamped, and it is ingested if its search returned and only then.
Early == {"waiting", "shutting", "marking", "stamping"}

Reported(q) ==
    /\ caller.pc \in Early => outcome[q] = "unreported"
    /\ q \in punctual /\ q = caller.at =>
          /\ caller.pc # "stamping"
          /\ caller.pc = "storing" => thread[q] = "returned"
          /\ caller.pc = "reporting" => thread[q] # "returned"
    /\ q \in ingested =>
          /\ outcome[q] = "succeeded"
          /\ caller.pc \in {"choosing", "storing", "reporting"} => q < caller.at
          /\ q \in punctual => thread[q] = "returned"

IInv ==
    /\ TypeOK
    /\ DataBehindStatus
    /\ PunctualIsReported
    /\ OneSearchIsEnough
    /\ SuccessHasResults
    /\ \A q \in Query : Written(q) /\ LeftAlone(q) /\ Reported(q)
    /\ caller.pc # "done" => run.status = "running" /\ run.reason = "none"

-----------------------------------------------------------------------------
(* Lemmas about one step.                                                  *)

\* A thread's step touches its own execution, and that of no thread that ended.
LEMMA ThreadsKeep ==
    ASSUME IInv, NEW t \in Query, ThreadStep(t)
    PROVE  IInv'
<1>1. UNCHANGED Callers /\ thread[t] \notin Ended
  BY DEF ThreadStep, Take, Search, Return, Succeed, Raise, Fail, Ended
<1>2. \A q \in Query \ {t} : execution'[q] = execution[q] /\ thread'[q] = thread[q]
  BY DEF ThreadStep, Take, Search, Return, Succeed, Raise, Fail, ThreadTo, IInv, TypeOK
<1>3. /\ execution' \in [Query -> Execution] /\ thread' \in [Query -> ThreadPC]
      /\ execution'[t].status = "succeeded" => execution'[t].result # "none"
      /\ execution'[t].status \in {"failed", "timed_out"} => execution'[t].error
      /\ Written(t)'
      /\ thread'[t] \in Ended => execution'[t].status = StatusOf(thread'[t])
  <2>1. /\ execution \in [Query -> Execution] /\ thread \in [Query -> ThreadPC]
        /\ execution[t].status = "succeeded" => execution[t].result # "none"
        /\ execution[t].status \in {"failed", "timed_out"} => execution[t].error
        /\ Written(t)
    BY DEF IInv, TypeOK, DataBehindStatus
  <2>2. CASE Take(t)
    BY <2>1, <2>2 DEF Take, ThreadTo, ThreadPC, Written, Ended
  <2>3. CASE Search(t)
    BY <2>1, <2>3 DEF Search, ThreadTo, ThreadPC, Written, Ended, Execution, QueryStatus
  <2>4. CASE Return(t)
    BY <2>1, <2>4 DEF Return, ThreadTo, ThreadPC, Written, Ended, Execution
  <2>5. CASE Succeed(t)
    BY <2>1, <2>5 DEF Succeed, ThreadTo, ThreadPC, Written, Ended, Execution,
                      QueryStatus, Terminal, StatusOf
  <2>6. CASE Raise(t)
    BY <2>1, <2>6 DEF Raise, ThreadTo, ThreadPC, Written, Ended, Execution
  <2>7. CASE Fail(t)
    BY <2>1, <2>7 DEF Fail, ThreadTo, ThreadPC, Written, Ended, Execution,
                      QueryStatus, Terminal, StatusOf
  <2>8. QED
    BY <2>2, <2>3, <2>4, <2>5, <2>6, <2>7 DEF ThreadStep
<1>4. t \notin punctual
  BY <1>1 DEF IInv, LeftAlone
<1>5. TypeOK' /\ DataBehindStatus'
  BY <1>1, <1>2, <1>3 DEF IInv, TypeOK, DataBehindStatus, Callers
<1>6. \A q \in Query : Written(q)' /\ LeftAlone(q)' /\ Reported(q)'
  BY <1>1, <1>2, <1>3, <1>4 DEF IInv, Written, LeftAlone, Reported, Callers
<1>7. PunctualIsReported'
  BY <1>1, <1>2, <1>4 DEF IInv, TypeOK, PunctualIsReported, Callers
<1>8. QED
  BY <1>1, <1>5, <1>6, <1>7 DEF IInv, OneSearchIsEnough, SuccessHasResults, Callers

\* Advancing keeps the caller typed, and moves it to the next query or around.
LEMMA Advances ==
    ASSUME IInv, NEW pc \in CallerPC, NEW after \in CallerPC, Advance(pc, after)
    PROVE  /\ caller' \in Caller
           /\ caller'.pc \in {pc, after}
           /\ caller'.pc = after \/ caller'.at = caller.at + 1
           /\ caller.at # NumQueries => caller'.pc = pc
<1>1. caller \in Caller /\ caller.at \in 1 .. NumQueries
  BY DEF IInv, TypeOK, Caller, Query
<1>2. CASE caller.at = NumQueries
  <2>1. 1 \in Query
    BY QueriesAssumption DEF Query
  <2>2. QED
    BY <1>1, <1>2, <2>1 DEF Advance, Caller
<1>3. CASE caller.at # NumQueries
  <2>1. caller.at + 1 \in Query
    BY <1>1, <1>3, QueriesAssumption DEF Query
  <2>2. QED
    BY <1>1, <1>3, <2>1 DEF Advance, Caller
<1>4. QED
  BY <1>2, <1>3

\* Leaving the threads to themselves.
LEMMA LeavingKeeps ==
    ASSUME IInv, StopWaiting \/ ShutDown
    PROVE  IInv'
<1>1. CASE StopWaiting
  <2>1. caller' = [caller EXCEPT !.pc = "shutting"] /\ caller.pc = "waiting"
    BY <1>1 DEF StopWaiting, Goto
  <2>2. caller' \in Caller /\ caller'.pc = "shutting" /\ caller'.at = caller.at
    BY <2>1 DEF IInv, TypeOK, Caller, CallerPC
  <2>3. punctual' = {q \in Query : thread[q] \in Ended}
        /\ UNCHANGED <<execution, thread, outcome, ingested, run>>
    BY <1>1 DEF StopWaiting, Threads
  <2>4. \A q \in Query : outcome[q] = "unreported" /\ q \notin ingested
    BY <2>1 DEF IInv, Reported, Early
  <2>5. TypeOK'
    BY <2>2, <2>3 DEF IInv, TypeOK
  <2>6. \A q \in Query : Written(q)' /\ LeftAlone(q)' /\ Reported(q)'
    BY <2>1, <2>2, <2>3, <2>4 DEF IInv, Written, LeftAlone, Reported, Early
  <2>7. PunctualIsReported' /\ DataBehindStatus' /\ OneSearchIsEnough'
    BY <2>3, <2>4 DEF IInv, TypeOK, PunctualIsReported, DataBehindStatus,
                      OneSearchIsEnough
  <2>8. run.status = "running" /\ run.reason = "none"
    BY <2>1 DEF IInv
  <2>9. QED
    BY <2>2, <2>3, <2>5, <2>6, <2>7, <2>8 DEF IInv, SuccessHasResults
<1>2. CASE ShutDown
  <2>1. caller' = [caller EXCEPT !.pc = "marking"] /\ caller.pc = "shutting"
    BY <1>2 DEF ShutDown, Goto
  <2>2. caller' \in Caller /\ caller'.pc = "marking" /\ caller'.at = caller.at
    BY <2>1 DEF IInv, TypeOK, Caller, CallerPC
  <2>3. UNCHANGED <<execution, outcome, ingested, punctual, run>>
    BY <1>2 DEF ShutDown
  <2>4. /\ thread' \in [Query -> ThreadPC]
        /\ \A q \in Query : thread'[q] = thread[q]
                            \/ (thread[q] = "queued" /\ thread'[q] = "cancelled")
    BY <1>2 DEF ShutDown, IInv, TypeOK, ThreadPC
  <2>5. TypeOK'
    BY <2>2, <2>3, <2>4 DEF IInv, TypeOK
  <2>6. \A q \in punctual : thread'[q] = thread[q]
    BY <2>4 DEF IInv, TypeOK, LeftAlone, Ended
  <2>7. \A q \in Query : Written(q)' /\ LeftAlone(q)' /\ Reported(q)'
    BY <2>1, <2>2, <2>3, <2>4, <2>6 DEF IInv, Written, LeftAlone, Reported, Early
  <2>8. PunctualIsReported' /\ DataBehindStatus' /\ OneSearchIsEnough'
    BY <2>3, <2>6 DEF IInv, TypeOK, PunctualIsReported, DataBehindStatus,
                      OneSearchIsEnough
  <2>9. QED
    BY <2>1, <2>2, <2>3, <2>5, <2>7, <2>8 DEF IInv, SuccessHasResults
<1>3. QED
  BY <1>1, <1>2

\* Marking what had not ended: no punctual query is stamped.
LEMMA MarkingKeeps ==
    ASSUME IInv, Mark \/ Stamp
    PROVE  IInv'
<1>1. UNCHANGED <<thread, outcome, ingested, punctual, run>>
  BY DEF Mark, Stamp, Threads
<1>2. caller.at \in Query /\ caller.pc \in {"marking", "stamping"}
  BY DEF IInv, TypeOK, Caller, Mark, Stamp
<1>3. /\ caller' \in Caller /\ caller'.pc \in {"marking", "stamping", "choosing"}
      /\ caller'.pc = "stamping" => /\ caller'.at = caller.at
                                    /\ execution[caller.at].status \notin Terminal
                                    /\ UNCHANGED execution
  <2>1. CASE Advance("marking", "choosing")
    BY <2>1, Advances DEF CallerPC
  <2>2. CASE Mark /\ Goto("stamping")
    <3>1. caller' = [caller EXCEPT !.pc = "stamping"]
      BY <2>2 DEF Goto
    <3>2. execution[caller.at].status \notin Terminal /\ UNCHANGED execution
      <4>1. caller'.pc = "stamping"
        BY <3>1 DEF IInv, TypeOK, Caller
      <4>2. ~Advance("marking", "choosing")
        BY <4>1, Advances DEF CallerPC
      <4>3. QED
        BY <2>2, <4>2 DEF Mark, Threads
    <3>3. QED
      BY <3>1, <3>2 DEF IInv, TypeOK, Caller, CallerPC
  <2>3. QED
    BY <2>1, <2>2 DEF Mark, Stamp
<1>4. /\ execution' \in [Query -> Execution]
      /\ \A q \in Query : q # caller.at \/ caller.pc # "stamping"
                             => execution'[q] = execution[q]
      /\ caller.pc = "stamping" =>
            /\ execution'[caller.at].status = "timed_out"
            /\ execution'[caller.at].error
            /\ execution'[caller.at].result = execution[caller.at].result
  BY <1>2 DEF Mark, Stamp, Threads, IInv, TypeOK, Execution, QueryStatus, Terminal
<1>5. TypeOK' /\ DataBehindStatus'
  BY <1>1, <1>2, <1>3, <1>4 DEF IInv, TypeOK, DataBehindStatus
<1>6. \A q \in Query : q \in punctual => execution'[q] = execution[q]
  BY <1>2, <1>4 DEF IInv, Reported, Early
<1>7. \A q \in Query : Written(q)' /\ LeftAlone(q)'
  BY <1>1, <1>2, <1>3, <1>4, <1>6 DEF IInv, Written, LeftAlone
<1>8. \A q \in Query : Reported(q)'
  <2> SUFFICES ASSUME NEW q \in Query PROVE Reported(q)'
    OBVIOUS
  <2>1. q \in punctual => execution[q].status \in Terminal
    BY DEF IInv, LeftAlone, StatusOf, Ended, Terminal
  <2>2. caller.pc \in {"marking", "stamping"} /\ Reported(q)
    BY <1>2 DEF IInv
  <2>3. outcome[q] = "unreported" /\ q \notin ingested
    BY <2>2 DEF Reported, Early
  <2>4. QED
    BY <1>1, <1>3, <2>1, <2>2, <2>3 DEF Reported, Early
<1>9. QED
  BY <1>1, <1>2, <1>3, <1>5, <1>7, <1>8 DEF IInv, PunctualIsReported,
                        OneSearchIsEnough, SuccessHasResults

\* Choosing what becomes of a query: a punctual one is stored if it returned.
LEMMA ChoosingKeeps ==
    ASSUME IInv, Choose
    PROVE  IInv'
<1>1. UNCHANGED <<execution, thread, outcome, ingested, punctual, run>>
  BY DEF Choose, Threads
<1>2. caller.pc = "choosing" /\ caller.at \in Query
  BY DEF Choose, IInv, TypeOK, Caller
<1>3. /\ caller' \in Caller /\ caller'.at = caller.at
      /\ caller'.pc = IF /\ execution[caller.at].status = "succeeded"
                         /\ execution[caller.at].result # "none"
                      THEN "storing" ELSE "reporting"
  BY DEF Choose, Goto, IInv, TypeOK, Caller, CallerPC
<1>4. caller.at \in punctual => (caller'.pc = "storing" <=> thread[caller.at] = "returned")
  <2>1. caller.at \in punctual =>
            /\ thread[caller.at] \in Ended
            /\ execution[caller.at].status = StatusOf(thread[caller.at])
            /\ Written(caller.at)
    BY <1>2 DEF IInv, LeftAlone
  <2>2. QED
    BY <1>3, <2>1 DEF StatusOf, Ended, Written
<1>5. \A q \in Query : Written(q)' /\ LeftAlone(q)' /\ Reported(q)'
  BY <1>1, <1>2, <1>3, <1>4 DEF IInv, Written, LeftAlone, Reported, Early
<1>6. TypeOK' /\ caller'.pc # "done"
  BY <1>1, <1>3 DEF IInv, TypeOK
<1>7. QED
  BY <1>1, <1>2, <1>5, <1>6 DEF IInv, DataBehindStatus, PunctualIsReported,
                                OneSearchIsEnough, SuccessHasResults

\* Ingesting a query's results, or reporting that there are none.
LEMMA ReportingKeeps ==
    ASSUME IInv, Store \/ Report
    PROVE  IInv'
<1> DEFINE at == caller.at
<1>1. UNCHANGED <<execution, thread, punctual, run>>
  BY DEF Store, Report, Threads
<1>2. /\ caller.pc \in {"storing", "reporting"} /\ at \in Query /\ at \in Nat
      /\ execution[at].status \in QueryStatus
  BY DEF Store, Report, IInv, TypeOK, Caller, Execution, Query
<1>3. /\ caller' \in Caller /\ caller'.pc \in {"choosing", "judging"}
      /\ caller'.pc = "judging" \/ caller'.at = at + 1
  BY Advances DEF Store, Report, CallerPC
<1>4. /\ outcome' \in [Query -> Outcome] /\ ingested' \subseteq Query
      /\ \A q \in Query \ {at} : /\ outcome'[q] = outcome[q]
                                 /\ q \in ingested' <=> q \in ingested
  BY <1>2 DEF Store, Report, IInv, TypeOK, Outcome, QueryStatus, Terminal
<1>5. at \notin ingested
  BY <1>2 DEF IInv, Reported, Query
<1>6. /\ at \in ingested' => outcome'[at] = "succeeded"
      /\ at \in punctual => /\ outcome'[at] = StatusOf(thread[at])
                            /\ at \in ingested' <=> thread[at] = "returned"
  <2>1. at \in punctual =>
            /\ execution[at].status = StatusOf(thread[at])
            /\ caller.pc = "storing" => thread[at] = "returned"
            /\ caller.pc = "reporting" => thread[at] # "returned"
    BY <1>2 DEF IInv, LeftAlone, Reported
  <2>2. CASE Store
    BY <1>2, <2>1, <2>2 DEF Store, IInv, TypeOK, StatusOf
  <2>3. CASE Report
    BY <1>2, <1>5, <2>1, <2>3 DEF Report, IInv, TypeOK
  <2>4. QED
    BY <2>2, <2>3
<1> HIDE DEF at
<1>7. TypeOK' /\ DataBehindStatus'
  BY <1>1, <1>3, <1>4 DEF IInv, TypeOK, DataBehindStatus
<1>8. PunctualIsReported'
  BY <1>1, <1>2, <1>4, <1>6 DEF IInv, TypeOK, PunctualIsReported, StatusOf
<1>9. \A q \in Query : Written(q)' /\ LeftAlone(q)'
  BY <1>1, <1>2, <1>3 DEF IInv, Written, LeftAlone
<1>10. \A q \in Query : Reported(q)'
  <2> SUFFICES ASSUME NEW q \in Query PROVE Reported(q)'
    OBVIOUS
  <2>1. q \in ingested' => outcome'[q] = "succeeded"
    BY <1>4, <1>6 DEF IInv, Reported
  <2>2. q \in ingested' /\ q \in punctual => thread[q] = "returned"
    BY <1>4, <1>6 DEF IInv, Reported
  <2>3. q \in ingested' /\ caller'.pc = "choosing" => q < caller'.at
    BY <1>2, <1>3, <1>4 DEF IInv, Reported, Query, at
  <2>4. QED
    BY <1>1, <1>3, <2>1, <2>2, <2>3 DEF Reported, Early
<1>11. run.status = "running" /\ run.reason = "none"
  BY <1>2 DEF IInv
<1>12. QED
  BY <1>1, <1>7, <1>8, <1>9, <1>10, <1>11 DEF IInv, OneSearchIsEnough, SuccessHasResults

\* Judging, and the end of the pass: its verdict is earned by what was ingested.
LEMMA ClosingKeeps ==
    ASSUME IInv, Judge \/ Close \/ Abort \/ Break
    PROVE  IInv'
<1>1. UNCHANGED <<execution, thread, outcome, ingested, punctual>>
  BY DEF Judge, Close, Abort, Break, Threads
<1>2. /\ caller.pc \in {"storing", "judging", "closing"} /\ caller' \in Caller
      /\ caller'.pc \in {"closing", "done"}
  BY DEF Judge, Close, Abort, Break, Goto, IInv, TypeOK, Caller, CallerPC
<1>3. run.status = "running" /\ run.reason = "none"
  BY <1>2 DEF IInv
<1>4. /\ run' \in Run
      /\ run'.reason \in {"timeout", "acquisition_failed"} => AllFailed
      /\ run'.status = "succeeded" => ~AllFailed
      /\ caller'.pc # "done" => run' = run
  <2>1. CASE Judge
    BY <1>3, <2>1 DEF Judge, IInv, TypeOK
  <2>2. CASE Close
    BY <2>2 DEF Close, Goto, Verdict, Run, Reason, IInv, TypeOK, Caller
  <2>3. CASE Abort
    BY <2>3 DEF Abort, Goto, Run, Reason, IInv, TypeOK, Caller
  <2>4. CASE Break
    BY <1>3, <2>4 DEF Break, IInv, TypeOK
  <2>5. QED
    BY <2>1, <2>2, <2>3, <2>4
<1>5. TypeOK' /\ DataBehindStatus' /\ PunctualIsReported'
  BY <1>1, <1>2, <1>4 DEF IInv, TypeOK, DataBehindStatus, PunctualIsReported
<1>6. \A q \in Query : Written(q)' /\ LeftAlone(q)' /\ Reported(q)'
  BY <1>1, <1>2 DEF IInv, Written, LeftAlone, Reported, Early
<1>7. AllFailed => ingested = {}
  BY DEF AllFailed, Successful, IInv, Reported, TypeOK
<1>8. ~AllFailed /\ ingested = {} => \E q \in Query \ punctual : outcome[q] = "succeeded"
  <2> SUFFICES ASSUME ~AllFailed, ingested = {}
               PROVE  \E q \in Query \ punctual : outcome[q] = "succeeded"
    OBVIOUS
  <2>1. PICK q \in Query : outcome[q] = "succeeded"
    BY DEF AllFailed, Successful
  <2>2. q \notin punctual
    BY <2>1 DEF IInv, PunctualIsReported, TypeOK, ThreadPC, Ended
  <2>3. QED
    BY <2>1, <2>2
<1>9. OneSearchIsEnough' /\ SuccessHasResults'
  BY <1>1, <1>4, <1>7, <1>8 DEF OneSearchIsEnough, SuccessHasResults
<1>10. QED
  BY <1>3, <1>4, <1>5, <1>6, <1>9 DEF IInv

-----------------------------------------------------------------------------
(* What holds of every pass.                                               *)

\* Before anything ran, the invariant holds.
LEMMA Initially == Init => IInv
<1> SUFFICES ASSUME Init PROVE IInv
  OBVIOUS
<1>1. 1 \in Query
  BY QueriesAssumption DEF Query
<1>2. TypeOK
  BY <1>1 DEF Init, TypeOK, Execution, Pending, QueryStatus, Terminal, ThreadPC, Ended,
              Caller, CallerPC, Judgement, Outcome, Run, Reason
<1>3. \A q \in Query : Written(q) /\ LeftAlone(q) /\ Reported(q)
  BY DEF Init, Written, LeftAlone, Reported, Early, Ended
<1>4. QED
  BY <1>2, <1>3 DEF Init, IInv, DataBehindStatus, PunctualIsReported, OneSearchIsEnough,
                    SuccessHasResults, Pending

\* Whatever the threads and the caller do in turn, the invariant is kept.
LEMMA StepsKeep == IInv /\ [Next]_vars => IInv'
<1> SUFFICES ASSUME IInv, [Next]_vars PROVE IInv'
  OBVIOUS
<1>1. CASE UNCHANGED vars
  BY <1>1 DEF vars, IInv, TypeOK, DataBehindStatus, PunctualIsReported,
              OneSearchIsEnough, SuccessHasResults, AllFailed, Successful,
              Written, LeftAlone, Reported
<1>2. CASE CallerStep
  BY <1>2, LeavingKeeps, MarkingKeeps, ChoosingKeeps, ReportingKeeps, ClosingKeeps
     DEF CallerStep
<1>3. ASSUME NEW q \in Query, ThreadStep(q)
      PROVE  IInv'
  BY <1>3, ThreadsKeep
<1>4. QED
  BY <1>1, <1>2, <1>3 DEF Next

\* The strengthened invariant: what each thread has written, that a punctual
\* execution is left alone, and how far the caller has reported.
THEOREM InductiveInvariant == Spec => []IInv
<1>1. QED
  BY Initially, StepsKeep, PTL DEF Spec

\* Every variable keeps its type, for any number of queries.
THEOREM TypeCorrect == Spec => []TypeOK
<1>1. IInv => TypeOK
  BY DEF IInv
<1>2. QED
  BY <1>1, InductiveInvariant, PTL

\* A terminal status comes with the data behind it, although the thread of a
\* query and the caller both write its execution (run_one).
THEOREM StatusComesLast == Spec => []DataBehindStatus
<1>1. IInv => DataBehindStatus
  BY DEF IInv
<1>2. QED
  BY <1>1, InductiveInvariant, PTL

\* A search that ended within the budget is reported as it ended, and ingested
\* if it returned (run_searches_concurrently, _run_searches).
THEOREM PunctualSearchesCount == Spec => []PunctualIsReported
<1>1. IInv => PunctualIsReported
  BY DEF IInv
<1>2. QED
  BY <1>1, InductiveInvariant, PTL

\* A run is failed for its searches only when none was ingested, and succeeds on
\* results it ingested, but for a search that succeeded after the budget while
\* the caller was reporting it (the partial result policy of execute_enrichment
\* and execute_run).
THEOREM VerdictsFollowResults == Spec => []VerdictFollowsResults
<1>1. IInv => VerdictFollowsResults
  BY DEF IInv, VerdictFollowsResults
<1>2. QED
  BY <1>1, InductiveInvariant, PTL

=============================================================================
