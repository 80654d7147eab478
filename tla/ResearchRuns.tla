----------------------------- MODULE ResearchRuns -----------------------------
(***************************************************************************)
(* The runs that research one subject: a user's investigation              *)
(* (app/investigations/runs.py, actions.py, execution.py) or a trusted     *)
(* opportunity (app/research_intelligence/enrichment.py), two tables of    *)
(* the same shape over one engine.  A request claims a run, an in-process  *)
(* executor runs it, and a request that looks at a run later ages out the  *)
(* one whose executor is taken to be dead (app/jobs/reconciliation.py).    *)
(*                                                                         *)
(* An executor never reads the status it writes over: every commit expires *)
(* its row, and the assignment alone makes the UPDATE.  A request holds an *)
(* investigation it read, and what it assigns to that is written only if   *)
(* it differs.  Of the progress columns, only what committing them does to *)
(* the searches is modelled.                                               *)
(***************************************************************************)
EXTENDS Naturals

CONSTANTS
    Requester,  \* requests and tool calls that may be in progress at once
    Kinds,      \* what the subject may be
    MaxRuns,    \* bound: runs claimed; a further INSERT fails
    MaxFaults   \* bound: deaths and exceptions nothing foresees

ASSUME ResearchAssumption ==
    /\ Kinds \subseteq {"investigation", "opportunity"}
    /\ MaxRuns \in Nat \ {0}
    /\ MaxFaults \in Nat

VARIABLES
    subject,    \* what is researched, and what is persisted of it
    runs,       \* its runs, in insertion order
    executor,   \* where the executor of each run is
    requester,  \* the requests
    stale,      \* runs claimed more than STALE_RUN_AFTER_SECONDS ago
    outlived,   \* history: runs still attended when they became stale
    launched,   \* history: executors started for each run
    faults      \* faults so far

vars == <<subject, runs, executor, requester, stale, outlived, launched, faults>>

-----------------------------------------------------------------------------
Run == 1 .. MaxRuns

\* ACTIVE_INVESTIGATION_RUN_STATUSES, ACTIVE_ENRICHMENT_STATUSES.
Active == {"queued", "running"}
Ended == {"succeeded", "failed"}

\* reason: whether the outcome_reason of a failed run is retryable.
Reason == {"none", "retryable", "final"}
Row == [status : Active \cup Ended \cup {"absent"}, reason : Reason]
NoRow == [status |-> "absent", reason |-> "none"]

\* status: the mirror on an investigation; recorded: research_search_runs of
\* the subject are committed.
SubjectStatus == {"draft", "ready", "running", "succeeded", "failed"}
Subject == [kind : {"investigation", "opportunity"},
            status : SubjectStatus,
            recorded : BOOLEAN]

ActiveRuns == {r \in Run : runs[r].status \in Active}

\* The rows of the partial unique index on active runs.
Indexed == ActiveRuns

\* The most recent run, 0 before there is one.
IsLatest(r) == IF \A k \in Run : runs[k].status = "absent" THEN r = 0
               ELSE /\ r \in Run
                    /\ runs[r].status # "absent"
                    /\ \A k \in Run : k > r => runs[k].status = "absent"

\* Defect: the mapping forgets that a claimed run is not running yet.
MirrorVerbatim(status) == status

\* RUN_STATUS_TO_INVESTIGATION_STATUS.
MirrorOf(status) == IF status = "queued" THEN "ready" ELSE status

Mirrored(status) ==
    IF subject.kind = "investigation"
    THEN [subject EXCEPT !.status = MirrorOf(status)] ELSE subject

\* set_run_status, and the commit its caller owes.
SetStatus(r, status) ==
    /\ runs' = [runs EXCEPT ![r].status = status]
    /\ subject' = Mirrored(status)

\* _fail: the status and the reason together.
Fails(r, reason) ==
    /\ runs' = [runs EXCEPT ![r] = [status |-> "failed", reason |-> reason]]
    /\ subject' = Mirrored("failed")

-----------------------------------------------------------------------------
(* Requests.                                                               *)

ReqPC == {"idle", "selecting", "reconciling", "looking", "claiming",
          "relooking", "submitting", "enriched"}

\* polls: it only wants to see the latest run; seen: the stale runs it loaded;
\* agrees: the investigation its session holds reads what it is going to write.
Req == [pc : ReqPC, polls : BOOLEAN, run : 0 .. MaxRuns, seen : SUBSET Run,
        agrees : BOOLEAN]
Rest == [pc |-> "idle", polls |-> FALSE, run |-> 0, seen |-> {}, agrees |-> FALSE]

To(q, pc) == requester' = [requester EXCEPT ![q] = [Rest EXCEPT !.pc = pc]]
Done(q) == requester' = [requester EXCEPT ![q] = Rest]

ExecPC == {"none", "submitted", "beginning", "planning", "acquiring",
           "recording", "judging", "discovering", "succeeding", "gone"}

\* Executors that spend provider calls, or are about to.
Spending == {r \in Run : executor[r] \in {"planning", "acquiring", "recording",
                                         "judging", "discovering"}}

ExecTo(r, pc) == executor' = [executor EXCEPT ![r] = pc]

\* Someone is still there to run r.
Attended(r) == \/ executor[r] \notin {"none", "gone"}
               \/ \E q \in Requester : requester[q].run = r

Init ==
    /\ subject \in [kind : Kinds, status : {"draft"}, recorded : {FALSE}]
    /\ runs = [r \in Run |-> NoRow]
    /\ executor = [r \in Run |-> "none"]
    /\ requester = [q \in Requester |-> Rest]
    /\ stale = {}
    /\ outlived = {}
    /\ launched = [r \in Run |-> 0]
    /\ faults = 0

\* POST: an investigation's reconciles first; an opportunity's is told that it
\* is enriched as soon as searches of it are persisted.
Ask(q) ==
    /\ requester[q].pc = "idle"
    /\ To(q, IF subject.kind = "investigation" THEN "selecting"
             ELSE IF subject.recorded THEN "enriched" ELSE "looking")
    /\ UNCHANGED <<subject, runs, executor, stale, outlived, launched, faults>>

\* GET of the latest run, which reconciles first.
Poll(q) ==
    /\ requester[q].pc = "idle"
    /\ requester' = [requester EXCEPT ![q] =
                        [Rest EXCEPT !.pc = "selecting", !.polls = TRUE]]
    /\ UNCHANGED <<subject, runs, executor, stale, outlived, launched, faults>>

Answer(q) ==
    /\ requester[q].pc = "enriched"
    /\ Done(q)
    /\ UNCHANGED <<subject, runs, executor, stale, outlived, launched, faults>>

\* Defects: a run is taken for dead whatever its age; a QUEUED one never is.
AnyActive == ActiveRuns
RunningOnly == {r \in stale : runs[r].status = "running"}

\* reconcile_stale_runs: the active runs older than the budget, and the
\* investigation that is read just before or after them ...
Abandoned == ActiveRuns \cap stale

SelectStale(q) ==
    /\ requester[q].pc = "selecting"
    /\ \/ /\ Abandoned # {}
          /\ requester' = [requester EXCEPT ![q].pc = "reconciling",
                                            ![q].seen = Abandoned,
                                            ![q].agrees = subject.status = "failed"]
       \/ /\ Abandoned = {}
          /\ requester[q].polls
          /\ Done(q)
       \/ /\ Abandoned = {}
          /\ ~requester[q].polls
          /\ requester' = [requester EXCEPT ![q].pc = "looking",
                                            ![q].agrees = subject.status = "ready"]
    /\ UNCHANGED <<subject, runs, executor, stale, outlived, launched, faults>>

\* Defect: on_reconciled is left out, and the mirror with it.
ReconcileSilently(q) ==
    /\ requester[q].pc = "reconciling"
    /\ runs' = [r \in Run |-> IF r \in requester[q].seen
                              THEN [status |-> "failed", reason |-> "retryable"]
                              ELSE runs[r]]
    /\ IF requester[q].polls THEN Done(q) ELSE To(q, "looking")
    /\ UNCHANGED <<subject, executor, stale, outlived, launched, faults>>

\* ... and fail them INTERRUPTED, whatever became of them since.
Reconcile(q) ==
    /\ requester[q].pc = "reconciling"
    /\ runs' = [r \in Run |-> IF r \in requester[q].seen
                              THEN [status |-> "failed", reason |-> "retryable"]
                              ELSE runs[r]]
    /\ subject' = IF requester[q].agrees THEN subject ELSE Mirrored("failed")
    /\ IF requester[q].polls THEN Done(q) ELSE To(q, "looking")
    /\ UNCHANGED <<executor, stale, outlived, launched, faults>>

\* start_run, start_enrichment: an active run is joined.
LookUp(q) ==
    /\ requester[q].pc = "looking"
    /\ \/ ActiveRuns # {} /\ Done(q)
       \/ ActiveRuns = {} /\ requester' = [requester EXCEPT ![q].pc = "claiming"]
    /\ UNCHANGED <<subject, runs, executor, stale, outlived, launched, faults>>

\* INSERT of a QUEUED run, and the mirror unless this session found it READY,
\* whatever it reads by now.  What the index refuses is raised out of an
\* investigation's flush, and caught around an enrichment's commit.
Insert(q) ==
    /\ requester[q].pc = "claiming"
    /\ \/ /\ Indexed # {}
          /\ subject.kind = "investigation"
          /\ Done(q)
          /\ UNCHANGED <<subject, runs>>
       \/ /\ Indexed # {}
          /\ subject.kind = "opportunity"
          /\ To(q, "relooking")
          /\ UNCHANGED <<subject, runs>>
       \/ /\ Indexed = {}
          /\ \E r \in Run :
               /\ runs[r].status = "absent"
               /\ \A k \in Run : k < r => runs[k].status # "absent"
               /\ runs' = [runs EXCEPT ![r].status = "queued"]
               /\ subject' = IF requester[q].agrees THEN subject ELSE Mirrored("queued")
               /\ requester' = [requester EXCEPT ![q] =
                     [Rest EXCEPT !.pc = "submitting", !.run = r]]
       \/ /\ \A r \in Run : runs[r].status # "absent"
          /\ Done(q)
          /\ UNCHANGED <<subject, runs>>
    /\ UNCHANGED <<executor, stale, outlived, launched, faults>>

\* The loser of an enrichment's race reports the winner's run, or the error.
LookAgain(q) ==
    /\ requester[q].pc = "relooking"
    /\ Done(q)
    /\ UNCHANGED <<subject, runs, executor, stale, outlived, launched, faults>>

\* The claim is handed to the in-process executor: a background task, or the
\* two-thread pool of the MCP server, where it may wait its turn.
Submit(q) ==
    /\ requester[q].pc = "submitting"
    /\ LET r == requester[q].run IN
          /\ ExecTo(r, "submitted")
          /\ launched' = [launched EXCEPT ![r] = @ + 1]
    /\ Done(q)
    /\ UNCHANGED <<subject, runs, stale, outlived, faults>>

\* An investigation that could not be scheduled is closed at once.
SubmitFails(q) ==
    /\ requester[q].pc = "submitting"
    /\ subject.kind = "investigation"
    /\ Fails(requester[q].run, "retryable")
    /\ Done(q)
    /\ UNCHANGED <<executor, stale, outlived, launched, faults>>

-----------------------------------------------------------------------------
(* The executor of a run: execute_run, execute_enrichment.                 *)

\* A run that is no longer active is left alone.
Load(r) ==
    /\ executor[r] = "submitted"
    /\ ExecTo(r, IF runs[r].status \in Active THEN "beginning" ELSE "gone")
    /\ UNCHANGED <<subject, runs, requester, stale, outlived, launched, faults>>

\* RUNNING is committed, unless the index refuses it: that ends the executor.
Begin(r) ==
    /\ executor[r] = "beginning"
    /\ \/ /\ Indexed \ {r} = {}
          /\ SetStatus(r, "running")
          /\ ExecTo(r, "planning")
       \/ /\ Indexed \ {r} # {}
          /\ ExecTo(r, "gone")
          /\ UNCHANGED <<subject, runs>>
    /\ UNCHANGED <<requester, stale, outlived, launched, faults>>

\* _fail, and the end of the executor.
End(r, reason) == Fails(r, reason) /\ ExecTo(r, "gone")

\* The plan is rejected, its provider fails, or nothing was spent yet.
Plan(r) ==
    /\ executor[r] = "planning"
    /\ \/ End(r, "final")
       \/ End(r, "retryable")
       \/ ExecTo(r, "acquiring") /\ UNCHANGED <<subject, runs>>
    /\ UNCHANGED <<requester, stale, outlived, launched, faults>>

\* Every search fails, or the ones that returned are ingested and flushed.
Acquire(r) ==
    /\ executor[r] = "acquiring"
    /\ \/ End(r, "retryable")
       \/ ExecTo(r, "recording") /\ UNCHANGED <<subject, runs>>
    /\ UNCHANGED <<requester, stale, outlived, launched, faults>>

\* Ingesting raises: failing the run commits what was flushed before.
IngestFails(r) ==
    /\ executor[r] = "acquiring"
    /\ runs' = [runs EXCEPT ![r] = [status |-> "failed", reason |-> "retryable"]]
    /\ subject' = [Mirrored("failed") EXCEPT !.recorded = TRUE]
    /\ ExecTo(r, "gone")
    /\ UNCHANGED <<requester, stale, outlived, launched, faults>>

\* The last progress snapshot commits, and with it what was flushed; if that
\* fails the rollback discards both, and judging goes on without papers.
RecordSearches(r) ==
    /\ executor[r] = "recording"
    /\ \/ subject' = [subject EXCEPT !.recorded = TRUE]
       \/ UNCHANGED subject
    /\ ExecTo(r, "judging")
    /\ UNCHANGED <<runs, requester, stale, outlived, launched, faults>>

\* The matcher is out, something raises, or the research is done.
Judge(r) ==
    /\ executor[r] = "judging"
    /\ \/ End(r, "retryable")
       \/ /\ ExecTo(r, IF subject.kind = "investigation" THEN "discovering"
                                                         ELSE "succeeding")
          /\ UNCHANGED <<subject, runs>>
    /\ UNCHANGED <<requester, stale, outlived, launched, faults>>

\* Defect: a web outage fails the run.
DiscoverOrFail(r) ==
    /\ executor[r] = "discovering"
    /\ \/ End(r, "retryable")
       \/ ExecTo(r, "succeeding") /\ UNCHANGED <<subject, runs>>
    /\ UNCHANGED <<requester, stale, outlived, launched, faults>>

\* _run_web_phases: skipped, failed, partial or complete, it never fails a run.
Discover(r) ==
    /\ executor[r] = "discovering"
    /\ ExecTo(r, "succeeding")
    /\ UNCHANGED <<subject, runs, requester, stale, outlived, launched, faults>>

\* SUCCEEDED, whatever the row has become: nothing is read before the write.
Succeed(r) ==
    /\ executor[r] = "succeeding"
    /\ runs' = [runs EXCEPT ![r] = [status |-> "succeeded", reason |-> "none"]]
    /\ subject' = Mirrored("succeeded")
    /\ ExecTo(r, "gone")
    /\ UNCHANGED <<requester, stale, outlived, launched, faults>>

-----------------------------------------------------------------------------
(* Time and faults.                                                        *)

\* STALE_RUN_AFTER_SECONDS pass from the claim.
Age(r) ==
    /\ r \in ActiveRuns \ stale
    /\ stale' = stale \cup {r}
    /\ outlived' = IF Attended(r) THEN outlived \cup {r} ELSE outlived
    /\ UNCHANGED <<subject, runs, executor, requester, launched, faults>>

\* The process dies: nothing is left but what was committed.
Crash ==
    /\ executor' = [r \in Run |-> IF executor[r] = "none" THEN "none" ELSE "gone"]
    /\ requester' = [q \in Requester |-> Rest]

\* Another process dies, or an exception nothing foresees ends an executor ...
Vanish(r) ==
    /\ executor[r] \notin {"none", "gone"}
    /\ ExecTo(r, "gone")
    /\ UNCHANGED requester

\* ... or a request.
Drop(q) ==
    /\ requester[q].pc # "idle"
    /\ Done(q)
    /\ UNCHANGED executor

Fault ==
    /\ faults < MaxFaults
    /\ faults' = faults + 1
    /\ Crash \/ (\E r \in Run : Vanish(r)) \/ (\E q \in Requester : Drop(q))
    /\ UNCHANGED <<subject, runs, stale, outlived, launched>>

ReqStep(q) ==
    \/ Answer(q) \/ SelectStale(q) \/ Reconcile(q) \/ LookUp(q) \/ Insert(q)
    \/ LookAgain(q) \/ Submit(q) \/ SubmitFails(q)

ExecStep(r) ==
    \/ Load(r) \/ Begin(r) \/ Plan(r) \/ Acquire(r) \/ IngestFails(r)
    \/ RecordSearches(r) \/ Judge(r) \/ Discover(r) \/ Succeed(r)

Next ==
    \/ \E q \in Requester : Ask(q) \/ Poll(q) \/ ReqStep(q)
    \/ \E r \in Run : ExecStep(r) \/ Age(r)
    \/ Fault

\* Some request in progress gets on, time passes, and somebody keeps looking;
\* nothing is assumed of executors, which may hang.
Fairness ==
    /\ WF_vars(\E q \in Requester : ReqStep(q))
    /\ SF_vars(\E q \in Requester : Poll(q))
    /\ WF_vars(\E r \in Run : Age(r))

Spec == Init /\ [][Next]_vars /\ Fairness

-----------------------------------------------------------------------------
(* Invariants.                                                             *)

\* Every variable keeps its type.
TypeOK ==
    /\ subject \in Subject
    /\ runs \in [Run -> Row]
    /\ executor \in [Run -> ExecPC]
    /\ requester \in [Requester -> Req]
    /\ stale \subseteq Run
    /\ outlived \subseteq stale
    /\ launched \in [Run -> Nat]
    /\ faults \in 0 .. MaxFaults

\* uq_investigation_runs_active_investigation: one run in flight per subject,
\* whatever clicks, tabs, restarts and late executors interleave.
OneActiveRun == \A r, k \in ActiveRuns : r = k

\* start_run, already_running: however a claim race ends, the executor of a run
\* is submitted once, by the request whose INSERT won.
LaunchedOnce == \A r \in Run : launched[r] <= 1

\* A second click never buys a second set of searches: two executors spend for
\* one subject only if the first outlived the age at which it is taken for dead.
OneSpender ==
    \A r, k \in Spending : r # k => {r, k} \cap outlived # {}

\* set_run_status: "Investigation.status == mapping[latest run.status] holds at
\* every commit boundary", as far as it does: an investigation reads READY or
\* RUNNING only as its latest run does, so never with no active run behind it,
\* and SUCCEEDED never over a later failure.  It may still read as a run before
\* it ended, and FAILED where two requests aged that one out, or where an
\* executor outlived its budget.
MirrorsTheLatest ==
    subject.kind = "investigation" /\ outlived = {} =>
        \A r \in Run : IsLatest(r) =>
            \/ subject.status = MirrorOf(runs[r].status)
            \/ subject.status = "failed"
            \/ subject.status = "succeeded" /\ runs[r].status \in Active

-----------------------------------------------------------------------------
(* What a step may never do.                                               *)

\* reconcile_stale_runs: "it only touches rows older than the budget, so an
\* in-flight run is never affected": a run that has ended keeps its verdict,
\* and its executor with it, unless that executor outlived the budget.
EndedIsFinal ==
    [][\A r \in Run \ outlived :
          runs[r].status \in Ended => runs'[r] = runs[r]]_vars

\* "money was spent on those": research that is done is not thrown away by a
\* later phase; only ageing out fails such a run.
ResearchIsKept ==
    [][\A r \in Run \ stale :
          executor[r] \in {"discovering", "succeeding"}
              => runs'[r].status # "failed"]_vars

-----------------------------------------------------------------------------
(* Liveness.                                                               *)

\* "without it, the partial unique index would leave that investigation
\* permanently un-runnable": whatever died, the subject can be run again.
NeverBlocked == ActiveRuns # {} ~> ActiveRuns = {}

-----------------------------------------------------------------------------
(* What the source says and the code does not do.                          *)

\* ResearchOutcomeReason: the retryable reasons are failures "where retrying
\* can genuinely differ": a request to try again such a failure is not told
\* that there is nothing to do.
RetryableIsRetried ==
    [][\A q \in Requester :
          requester[q].pc # "enriched" /\ requester'[q].pc = "enriched"
              => \A r \in Run : IsLatest(r) => runs[r].reason # "retryable"]_vars

=============================================================================
