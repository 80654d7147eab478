-------------------------- MODULE PipelineExecutor --------------------------
(***************************************************************************)
(* The executions of one collector: how they are claimed, driven, resumed  *)
(* and decided (app/pipeline/executor.py), by the API's background task    *)
(* (app/api/v1/routes/pipeline.py, app/pipeline/background.py), the daily  *)
(* refresh (app/jobs/daily_refresh.py) and the resume pass of the          *)
(* every-collector job (app/jobs/daily_pipeline.py).                       *)
(*                                                                         *)
(* A driver holds `seen`, the PipelineRun its session loaded last.  Every  *)
(* _advance_to commits and reloads it; nothing reloads it while the driver *)
(* sleeps, so the next step is chosen from it.  What RecallGuard does in   *)
(* evaluate_and_heal is Healing's; here it is its verdict.                 *)
(***************************************************************************)
EXTENDS Naturals

CONSTANTS
    Driver,     \* processes that may drive an execution
    MaxDays,    \* bound: business days of a behaviour
    MaxExecs,   \* bound: executions claimed; a further INSERT fails
    MaxJobs,    \* bound: provider jobs triggered; a further trigger fails
    MaxFaults   \* bound: process deaths and exceptions nothing foresees

ASSUME ExecutorAssumption ==
    /\ {MaxDays, MaxExecs, MaxJobs} \subseteq Nat \ {0}
    /\ MaxFaults \in Nat

VARIABLES
    execs,    \* pipeline_runs, in insertion order
    jobs,     \* collections at the provider
    runs,     \* their collector_runs
    driver,   \* the drivers
    faults    \* faults so far

vars == <<execs, jobs, runs, driver, faults>>

-----------------------------------------------------------------------------
Exec == 1 .. MaxExecs
Job == 1 .. MaxJobs
Day == 1 .. MaxDays

\* ACTIVE_PIPELINE_RUN_STATUSES.
Active == {"queued", "collecting", "waiting_provider", "validating",
           "ingesting", "verifying"}

\* Defect: a degraded execution is not known to be over.
TerminalUndegraded == {"completed", "failed"}

\* TERMINAL_STATUSES.
Terminal == {"completed", "degraded", "failed"}
Verdict == {"completed", "degraded", "failed"}
Status == Active \cup Verdict \cup {"absent"}

\* key: the day of its idempotency key, 0 when it has none; job: the
\* provider_job_id and collector_run_id, recorded together, 0 before.
Row == [status : Status, key : 0 .. MaxDays, job : 0 .. MaxJobs]
NoRow == [status |-> "absent", key |-> 0, job |-> 0]

\* of: the execution a job was triggered for.
JobRow == [st : {"absent", "running", "done"}, of : 0 .. MaxExecs]
RunStatus == {"absent", "running", "succeeded", "failed"}

ActiveExecs == {e \in Exec : execs[e].status \in Active}

\* The rows of uq_pipeline_runs_active_collector.
Indexed == ActiveExecs

-----------------------------------------------------------------------------
(* Drivers.                                                                *)

\* once: a request, or a resume pass; daily_resume and daily: the two parts of
\* the daily refresh, its resume pass and what it claims for its day.
Kind == {"none", "once", "daily_resume", "daily"}

PC == {"idle", "selecting", "looking", "claiming", "relooking", "scheduled",
       "stepping", "triggering", "opening", "recording", "fetching",
       "validating", "ingesting", "finalising", "finishing", "verifying",
       "closing", "deciding"}

Proc == [pc : PC, kind : Kind, day : 0 .. MaxDays, exec : 0 .. MaxExecs,
         seen : Row, job : 0 .. MaxJobs, verdict : Verdict \cup {"none"}]

Rest == [pc |-> "idle", kind |-> "none", day |-> 0, exec |-> 0,
         seen |-> NoRow, job |-> 0, verdict |-> "none"]

\* Inside _complete_collection, which fails the run on any exception.
Completing == {"fetching", "validating", "ingesting", "finalising"}

\* A drive ends: the daily refresh goes on to claim today's, others return.
Return(p) ==
    IF p.kind = "daily_resume"
    THEN [Rest EXCEPT !.pc = "looking", !.kind = "daily", !.day = p.day]
    ELSE Rest

Goto(d, pc) == driver' = [driver EXCEPT ![d].pc = pc]

\* The execution e as p's session has just loaded it.
Loaded(p, e) == [p EXCEPT !.pc = "stepping", !.exec = e, !.seen = execs[e]]

\* session.commit() of the row seen changed to new, and session.refresh: an
\* UPDATE of the changed columns, which the unique index may refuse.  The
\* driver goes to pc with the row it reloaded; an IntegrityError leaves its
\* session unusable and ends it, or its drive where the session is rolled back.
Column(db, old, new) == IF new = old THEN db ELSE new

Merge(db, old, new) ==
    [status |-> Column(db.status, old.status, new.status),
     key    |-> db.key,
     job    |-> Column(db.job, old.job, new.job)]

Refused(e, row) == row.status \in Active /\ Indexed \ {e} # {}

Advance(d, new, pc) ==
    LET p == driver[d]
        row == Merge(execs[p.exec], p.seen, new)
    IN  IF Refused(p.exec, row)
        THEN /\ driver' = [driver EXCEPT ![d] =
                               IF p.pc \in Completing THEN Return(p) ELSE Rest]
             /\ UNCHANGED execs
        ELSE /\ execs' = [execs EXCEPT ![p.exec] = row]
             /\ driver' = [driver EXCEPT ![d] =
                   [p EXCEPT !.seen = row, !.pc = pc, !.job = 0, !.verdict = "none"]]

AdvanceTo(d, status, pc) ==
    Advance(d, [driver[d].seen EXCEPT !.status = status], pc)

-----------------------------------------------------------------------------
Init ==
    /\ execs = [e \in Exec |-> NoRow]
    /\ jobs = [j \in Job |-> [st |-> "absent", of |-> 0]]
    /\ runs = [j \in Job |-> "absent"]
    /\ driver = [d \in Driver |-> Rest]
    /\ faults = 0

-----------------------------------------------------------------------------
(* Invocations, and the claim of an execution: start_pipeline_run.         *)

PostRun(d) ==
    /\ driver[d].pc = "idle"
    /\ driver' = [driver EXCEPT ![d] = [Rest EXCEPT !.pc = "looking",
                                                    !.kind = "once"]]
    /\ UNCHANGED <<execs, jobs, runs, faults>>

DailyPipeline(d) ==
    /\ driver[d].pc = "idle"
    /\ driver' = [driver EXCEPT ![d] = [Rest EXCEPT !.pc = "selecting",
                                                    !.kind = "once"]]
    /\ UNCHANGED <<execs, jobs, runs, faults>>

\* For today, or for the day an operator replays.
DailyRefresh(d) ==
    /\ driver[d].pc = "idle"
    /\ \E day \in Day :
          driver' = [driver EXCEPT ![d] = [Rest EXCEPT !.pc = "selecting",
                                                      !.kind = "daily_resume",
                                                      !.day = day]]
    /\ UNCHANGED <<execs, jobs, runs, faults>>

\* resume_unfinished_pipeline_runs: the active execution, if there is one.
Select(d) ==
    /\ driver[d].pc = "selecting"
    /\ \/ /\ ActiveExecs = {}
          /\ driver' = [driver EXCEPT ![d] = Return(@)]
       \/ \E e \in ActiveExecs :
            driver' = [driver EXCEPT ![d] = Loaded(@, e)]
    /\ UNCHANGED <<execs, jobs, runs, faults>>

\* _existing_claim: by its key, terminal or not, then the active one.
Claimed(key) ==
    LET keyed == {e \in Exec : key # 0 /\ execs[e].key = key} IN
        IF keyed # {} THEN keyed ELSE ActiveExecs

\* An existing execution is joined.  A request reports it; the daily refresh
\* drives it unless it is decided.
Join(d, e) ==
    LET p == driver[d] IN
        IF p.kind = "daily" /\ execs[e].status \notin Terminal
        THEN driver' = [driver EXCEPT ![d] = Loaded(@, e)]
        ELSE driver' = [driver EXCEPT ![d] = Rest]

LookUp(d) ==
    /\ driver[d].pc = "looking"
    /\ LET found == Claimed(driver[d].day) IN
          \/ \E e \in found : Join(d, e)
          \/ found = {} /\ Goto(d, "claiming")
    /\ UNCHANGED <<execs, jobs, runs, faults>>

\* INSERT of a QUEUED execution, refused by either unique index.
Insert(d) ==
    /\ driver[d].pc = "claiming"
    /\ LET p == driver[d]
           key == p.day
           row == [NoRow EXCEPT !.status = "queued", !.key = key]
       IN  \/ /\ Indexed # {} \/ \E e \in Exec : key # 0 /\ execs[e].key = key
              /\ Goto(d, "relooking")
              /\ UNCHANGED execs
           \/ /\ Indexed = {}
              /\ \A e \in Exec : key # 0 => execs[e].key # key
              /\ \E e \in Exec :
                   /\ execs[e].status = "absent"
                   /\ \A f \in Exec : f < e => execs[f].status # "absent"
                   /\ execs' = [execs EXCEPT ![e] = row]
                   /\ driver' = [driver EXCEPT ![d] =
                        [p EXCEPT !.exec = e, !.seen = row,
                                  !.pc = IF p.kind = "once" THEN "scheduled"
                                                           ELSE "stepping"]]
           \/ /\ \A e \in Exec : execs[e].status # "absent"
              /\ driver' = [driver EXCEPT ![d] = Rest]
              /\ UNCHANGED execs
    /\ UNCHANGED <<jobs, runs, faults>>

\* The loser reads the winner's row; the error is raised when there is none.
LookAgain(d) ==
    /\ driver[d].pc = "relooking"
    /\ LET found == Claimed(driver[d].day) IN
          \/ \E e \in found : Join(d, e)
          \/ found = {} /\ driver' = [driver EXCEPT ![d] = Rest]
    /\ UNCHANGED <<execs, jobs, runs, faults>>

\* execute_pipeline_run: the background task loads the row in its own session.
Execute(d) ==
    /\ driver[d].pc = "scheduled"
    /\ driver' = [driver EXCEPT ![d] = Loaded(@, @.exec)]
    /\ UNCHANGED <<execs, jobs, runs, faults>>

-----------------------------------------------------------------------------
(* One step of an execution: resume_pipeline_run, chosen from the row seen.*)

\* QUEUED: COLLECTING is committed before the trigger goes out.
BeginCollection(d) ==
    /\ driver[d].pc = "stepping"
    /\ driver[d].seen.status = "queued"
    /\ AdvanceTo(d, "collecting", "triggering")
    /\ UNCHANGED <<jobs, runs, faults>>

\* The provider accepts a trigger sent for execution e.
NewJob(e, j) ==
    /\ jobs[j].st = "absent"
    /\ \A k \in Job : k < j => jobs[k].st # "absent"
    /\ jobs' = [jobs EXCEPT ![j] = [st |-> "running", of |-> e]]

Trigger(d) ==
    /\ driver[d].pc = "triggering"
    /\ \E j \in Job :
        /\ NewJob(driver[d].exec, j)
        /\ driver' = [driver EXCEPT ![d].pc = "opening", ![d].job = j]
    /\ UNCHANGED <<execs, runs, faults>>

\* CollectionTriggerError: the request may have reached the provider.
TriggerFails(d) ==
    /\ driver[d].pc = "triggering"
    /\ UNCHANGED jobs \/ \E j \in Job : NewJob(driver[d].exec, j)
    /\ Goto(d, "finishing")
    /\ UNCHANGED <<execs, runs, faults>>

OpenRun(d) ==
    /\ driver[d].pc = "opening"
    /\ runs' = [runs EXCEPT ![driver[d].job] = "running"]
    /\ Goto(d, "recording")
    /\ UNCHANGED <<execs, jobs, faults>>

Record(d) ==
    /\ driver[d].pc = "recording"
    /\ Advance(d, [driver[d].seen EXCEPT !.status = "waiting_provider",
                                         !.job = driver[d].job], "deciding")
    /\ UNCHANGED <<jobs, runs, faults>>

\* The execution seen is past its trigger and not over.
PastTrigger(d) ==
    /\ driver[d].pc = "stepping"
    /\ driver[d].seen.status \notin Terminal \cup {"queued"}

\* Defects: the interrupted trigger is sent again; it is left for another day.
InterruptedRetriggers(d) ==
    /\ PastTrigger(d)
    /\ driver[d].seen.job = 0
    /\ Goto(d, "triggering")
    /\ UNCHANGED <<execs, jobs, runs, faults>>

InterruptedWaits(d) ==
    /\ PastTrigger(d)
    /\ driver[d].seen.job = 0
    /\ driver' = [driver EXCEPT ![d] = Return(@)]
    /\ UNCHANGED <<execs, jobs, runs, faults>>

\* No provider job was recorded: FAILED, and never triggered again.
Interrupted(d) ==
    /\ PastTrigger(d)
    /\ driver[d].seen.job = 0
    /\ AdvanceTo(d, "failed", "deciding")
    /\ UNCHANGED <<jobs, runs, faults>>

Polling(d) ==
    /\ PastTrigger(d)
    /\ driver[d].seen.job # 0
    /\ runs[driver[d].seen.job] = "running"

StillRunning(d) ==
    /\ Polling(d)
    /\ jobs[driver[d].seen.job].st = "running"
    /\ AdvanceTo(d, "waiting_provider", "deciding")
    /\ UNCHANGED <<jobs, runs, faults>>

Collected(d) ==
    /\ Polling(d)
    /\ jobs[driver[d].seen.job].st = "done"
    /\ Goto(d, "fetching")
    /\ UNCHANGED <<execs, jobs, runs, faults>>

\* CollectionError: the run is FAILED with its evidence, and judged.
CollectionFails(d) ==
    /\ Polling(d) \/ driver[d].pc \in {"validating", "ingesting", "finalising"}
    /\ runs' = [runs EXCEPT ![driver[d].seen.job] = "failed"]
    /\ Goto(d, "finishing")
    /\ UNCHANGED <<execs, jobs, faults>>

\* on_stage: the stage is committed before the work it names.  An UPDATE the
\* index refuses is unforeseen there: it fails the run and ends the drive.
Stage(d, pc, status, next) ==
    /\ driver[d].pc = pc
    /\ AdvanceTo(d, status, next)
    /\ runs' = IF driver'[d].pc = next THEN runs
               ELSE [runs EXCEPT ![driver[d].seen.job] = "failed"]
    /\ UNCHANGED <<jobs, faults>>

Fetch(d) == Stage(d, "fetching", "waiting_provider", "validating")
Validate(d) == Stage(d, "validating", "validating", "ingesting")
Ingest(d) == Stage(d, "ingesting", "ingesting", "finalising")

\* SUCCEEDED, in the transaction of the signals it ingested.
Finalise(d) ==
    /\ driver[d].pc = "finalising"
    /\ runs' = [runs EXCEPT ![driver[d].seen.job] = "succeeded"]
    /\ Goto(d, "finishing")
    /\ UNCHANGED <<execs, jobs, faults>>

\* The collection finished under an earlier driver: straight to RecallGuard.
Rejudge(d) ==
    /\ PastTrigger(d)
    /\ driver[d].seen.job # 0
    /\ runs[driver[d].seen.job] \in {"succeeded", "failed"}
    /\ Goto(d, "finishing")
    /\ UNCHANGED <<execs, jobs, runs, faults>>

\* Defect: the verdict is recorded without asking RecallGuard.
FinishUnjudged(d) ==
    /\ driver[d].pc = "finishing"
    /\ AdvanceTo(d, "verifying", "closing")
    /\ UNCHANGED <<jobs, runs, faults>>

Finish(d) ==
    /\ driver[d].pc = "finishing"
    /\ AdvanceTo(d, "verifying", "verifying")
    /\ UNCHANGED <<jobs, runs, faults>>

\* evaluate_and_heal: trusted, not trusted, or it raises.  Without a run there
\* is nothing to trust; a run that failed may be followed by a proven repair.
Evaluate(d) ==
    /\ driver[d].pc = "verifying"
    /\ \E v \in Verdict :
        /\ v = "completed" => driver[d].seen.job # 0
        /\ driver' = [driver EXCEPT ![d].pc = "closing", ![d].verdict = v]
    /\ UNCHANGED <<execs, jobs, runs, faults>>

Close(d) ==
    /\ driver[d].pc = "closing"
    /\ AdvanceTo(d, driver[d].verdict, "deciding")
    /\ UNCHANGED <<jobs, runs, faults>>

-----------------------------------------------------------------------------
(* Between steps: drive_pipeline_run.                                      *)

\* A terminal row is left alone: another driver was faster.
AlreadyDecided(d) ==
    /\ driver[d].pc = "stepping"
    /\ driver[d].seen.status \in Terminal
    /\ driver' = [driver EXCEPT ![d] = Return(@)]
    /\ UNCHANGED <<execs, jobs, runs, faults>>

\* Defect: running out of patience fails the execution.
DecideFails(d) ==
    /\ driver[d].pc = "deciding"
    /\ \/ /\ driver[d].seen.status \in Terminal
          /\ driver' = [driver EXCEPT ![d] = Return(@)]
          /\ UNCHANGED execs
       \/ /\ driver[d].seen.status \notin Terminal
          /\ AdvanceTo(d, "failed", "deciding")
    /\ UNCHANGED <<jobs, runs, faults>>

\* Decided: return.  Not decided: sleep and step again, or stop waiting.
Decide(d) ==
    /\ driver[d].pc = "deciding"
    /\ \/ driver' = [driver EXCEPT ![d] = Return(@)]
       \/ driver[d].seen.status \notin Terminal /\ Goto(d, "stepping")
    /\ UNCHANGED <<execs, jobs, runs, faults>>

-----------------------------------------------------------------------------
(* The environment.                                                        *)

\* The provider completes a collection.
Complete ==
    /\ \E j \in Job : /\ jobs[j].st = "running"
                      /\ jobs' = [jobs EXCEPT ![j].st = "done"]
    /\ UNCHANGED <<execs, runs, driver, faults>>

\* A process dies, or an exception nothing foresees ends its drive; one raised
\* while a collection is being completed fails the run first.
Fault(d) ==
    /\ faults < MaxFaults
    /\ faults' = faults + 1
    /\ driver[d].pc # "idle"
    /\ \/ /\ driver' = [driver EXCEPT ![d] = Rest]
          /\ UNCHANGED runs
       \/ /\ driver' = [driver EXCEPT ![d] = Return(@)]
          /\ runs' = IF driver[d].pc \in Completing THEN
                       [runs EXCEPT ![driver[d].seen.job] = "failed"] ELSE runs
    /\ UNCHANGED <<execs, jobs>>

Step(d) ==
    \/ Select(d) \/ LookUp(d) \/ Insert(d) \/ LookAgain(d) \/ Execute(d)
    \/ BeginCollection(d) \/ Trigger(d) \/ TriggerFails(d) \/ OpenRun(d)
    \/ Record(d) \/ Interrupted(d) \/ StillRunning(d) \/ Collected(d)
    \/ CollectionFails(d) \/ Fetch(d) \/ Validate(d) \/ Ingest(d)
    \/ Finalise(d) \/ Rejudge(d) \/ Finish(d) \/ Evaluate(d) \/ Close(d)
    \/ AlreadyDecided(d) \/ Decide(d)

Next ==
    \/ \E d \in Driver : PostRun(d) \/ DailyPipeline(d) \/ DailyRefresh(d)
                         \/ Step(d) \/ Fault(d)
    \/ Complete

\* A process that lives takes its next step, the provider completes what it
\* collects, and cron keeps firing whatever else runs in between.
Fairness ==
    /\ \A d \in Driver : WF_vars(Step(d)) /\ SF_vars(DailyRefresh(d))
    /\ WF_vars(Complete)

Spec == Init /\ [][Next]_vars /\ Fairness

-----------------------------------------------------------------------------
(* Invariants.                                                             *)

\* Every variable keeps its type.
TypeOK ==
    /\ execs \in [Exec -> Row]
    /\ jobs \in [Job -> JobRow]
    /\ runs \in [Job -> RunStatus]
    /\ driver \in [Driver -> Proc]
    /\ faults \in 0 .. MaxFaults

\* start_pipeline_run: however many requests and schedules claim at once, a
\* collector has at most one active execution.
OneActiveExecution == \A e, f \in ActiveExecs : e = f

-----------------------------------------------------------------------------
(* What the source says and the code does not do.                          *)

\* "One logical execution, at most one provider job" (executor.py:19):
\* whoever drives an execution, it gets no second job.
OneJobPerExecution ==
    \A j, k \in Job : jobs[j].of # 0 /\ jobs[j].of = jobs[k].of => j = k

-----------------------------------------------------------------------------
(* Liveness: what a dead process claimed, a later one decides.             *)

EveryClaimDecided ==
    \A e \in Exec : execs[e].status \in Active ~> execs[e].status \in Terminal

=============================================================================
