------------------------------- MODULE Healing -------------------------------
(***************************************************************************)
(* RecallGuard: one collector, its reliability incidents, the self-healing *)
(* job Bright Data runs for it, and the processes that judge its runs and  *)
(* drive its repair (app/recallguard/service.py, app/recallguard/healing.py*)
(* and evaluate_and_heal of app/pipeline/service.py).                      *)
(*                                                                         *)
(* A worker is one invocation of the pipeline: the in-process driver of    *)
(* the API, the daily refresh, or the blocking daily_pipeline job.  Every  *)
(* action ends at the commit or the provider call that makes it visible;   *)
(* between two of them a worker holds `seen`, the row its ORM session      *)
(* loaded last, and a commit writes only the columns the worker changed.   *)
(*                                                                         *)
(* Runs are numbered by started_at.  A timestamp is the number of runs     *)
(* started before it, so "run r started after stamp t" is r > t.           *)
(***************************************************************************)
EXTENDS Naturals, FiniteSets

CONSTANTS
    Worker,        \* the processes that may judge and heal this collector
    MaxAttempts,   \* MAX_AUTONOMOUS_REPAIR_ATTEMPTS, 3 in the code
    MaxRuns,       \* bound: collections started in a behaviour
    MaxIncidents,  \* bound: incident rows inserted in a behaviour
    Outcomes,      \* bound: how the collections of a behaviour may end
    Dies           \* whether a worker may die between two of its steps

ASSUME HealingAssumption ==
    /\ MaxAttempts \in Nat \ {0}
    /\ MaxRuns \in Nat \ {0}
    /\ MaxIncidents \in Nat \ {0}
    /\ Dies \in BOOLEAN

ASSUME OutcomesAssumption ==
    Outcomes \subseteq {"clean", "short", "outage", "drift", "internal"}

VARIABLES
    started,    \* how many collections have been started: the clock
    runs,       \* collector_runs: how each collection ended
    incidents,  \* reliability_incidents, in insertion order
    job,        \* the collector's self-healing job at the provider
    proc,       \* the workers
    claim,      \* the run of the collector's one active execution, 0: none
    posts       \* history: refactor_template requests sent per incident

vars == <<started, runs, incidents, job, proc, claim, posts>>

-----------------------------------------------------------------------------
(* Runs and what RecallGuard says of them.                                 *)

Run == 1 .. MaxRuns
Stamp == 0 .. MaxRuns

\* clean and short are SUCCEEDED runs, the latter failing completeness; the
\* other outcomes are FAILED, told apart by the stage that failed.
Outcome == {"clean", "short", "outage", "drift", "internal"}
Succeeded == {"clean", "short"}
RunState == Outcome \cup {"unstarted", "running"}

Class == {"none", "outage", "extraction_drift", "unknown"}
Action == {"none", "retry", "request_heal", "investigate", "escalate"}

Classification(o) ==
    CASE o = "outage" -> "outage"
      [] o \in {"drift", "short"} -> "extraction_drift"
      [] OTHER -> "unknown"

Recommended(o) ==
    CASE o = "outage" -> "retry"
      [] o \in {"drift", "short"} -> "request_heal"
      [] OTHER -> "investigate"

-----------------------------------------------------------------------------
(* Incidents.                                                              *)

Incident == 1 .. MaxIncidents

Lifecycle == {"healing", "validating", "verifying"}
Active == Lifecycle \cup {"degraded", "manual_review"}
Resumable == Lifecycle \cup {"degraded"}
Status == Active \cup {"recovered", "absent"}

\* The evidence document, written whole.  Of its occurrences: whether one was
\* diagnosed as drift.  Of its events: the stamp of the latest registered
\* candidate and the attempt of the latest candidate_approved (0: none), and
\* the runs used by a verification.
Evidence == [drifted : BOOLEAN, registered : Stamp, approved : 0 .. MaxAttempts,
             used : SUBSET Run]

Row == [status : Status, class : Class, action : Action,
        attempts : 0 .. MaxAttempts, detRun : Stamp, detectedAt : Stamp,
        verRun : Stamp, evidence : Evidence]

NoEvidence == [drifted |-> FALSE, registered |-> 0, approved |-> 0,
               used |-> {}]

NoRow == [status |-> "absent", class |-> "none", action |-> "none",
          attempts |-> 0, detRun |-> 0, detectedAt |-> 0, verRun |-> 0,
          evidence |-> NoEvidence]

IsActive(i) == incidents[i].status \in Active
ActiveIncidents == {i \in Incident : IsActive(i)}
Healthy == ActiveIncidents = {}

\* An UPDATE sets the columns whose value differs from the one loaded.  The
\* evidence always differs: every write appends an event or an occurrence.
Column(db, old, new) == IF new = old THEN db ELSE new

Merge(db, old, new) ==
    [status     |-> Column(db.status, old.status, new.status),
     class      |-> Column(db.class, old.class, new.class),
     action     |-> Column(db.action, old.action, new.action),
     attempts   |-> Column(db.attempts, old.attempts, new.attempts),
     detRun     |-> db.detRun,
     detectedAt |-> db.detectedAt,
     verRun     |-> Column(db.verRun, old.verRun, new.verRun),
     evidence   |-> new.evidence]

-----------------------------------------------------------------------------
(* The provider's self-healing job: one per collector, replaced by the     *)
(* next refactor_template.  approved says this one was approved at its     *)
(* gate, previewed (history) which workers hold its preview.               *)

JobState == {"none", "running", "gate", "deploying", "done", "failed"}
Live == {"running", "gate", "deploying"}
Job == [st : JobState, approved : BOOLEAN, previewed : SUBSET Worker]

\* Defect: a running job is not recognised as live.
ActiveAtGateOnly == {"gate"}

\* _ACTIVE_PROVIDER_STATUSES.
ActiveProvider == {"running", "gate"}

\* get_healing_status: a deployment in progress reads as running.
Reading ==
    CASE job.st \in {"running", "deploying"} -> "running"
      [] OTHER -> job.st

-----------------------------------------------------------------------------
(* Workers.                                                                *)

PC == {"idle", "collecting", "judging", "recording", "retrying", "observing",
       "starting", "resuming", "rejoining", "posting", "awaiting_gate", "registering",
       "preflight", "rejecting", "rejected", "escalating", "approving",
       "deploying", "recollecting", "collecting_proof", "proof_failed",
       "verifying", "verdict", "reporting"}

\* run: the run this invocation judges; proof: the fresh run that verifies a
\* repair; result: the run it may report as trusted; attempt: the attempt it
\* drives, read from the row before the candidate is registered.
Proc == [pc : PC, run : Stamp, inc : 0 .. MaxIncidents, seen : Row,
         attempt : 0 .. MaxAttempts, proof : Stamp, result : Stamp]

Rest == [pc |-> "idle", run |-> 0, inc |-> 0, seen |-> NoRow, attempt |-> 0,
         proof |-> 0, result |-> 0]

Seen(w) == proc[w].seen

\* Where a worker goes next; the locals of healing end with it.
Continue(p, next) ==
    IF next = "reporting"
    THEN [Rest EXCEPT !.pc = next, !.run = p.run, !.result = p.result]
    ELSE [p EXCEPT !.pc = next]

\* Move on without a commit.
Goto(w, next) == proc' = [proc EXCEPT ![w] = Continue(@, next)]

\* IncidentTransitionError and VerificationRunRejectedError: nothing in
\* evaluate_and_heal catches them, so the invocation ends with no verdict.
Raise(w) == /\ proc' = [proc EXCEPT ![w] =
                  Continue([@ EXCEPT !.result = 0], "reporting")]
            /\ UNCHANGED incidents

\* session.commit(); session.refresh(incident): the row loaded as old is
\* written as new, and what the worker then holds is the row in the database.
Write(w, old, new, next) ==
    LET i == proc[w].inc
        merged == Merge(incidents[i], old, new)
    IN  /\ incidents' = [incidents EXCEPT ![i] = merged]
        /\ proc' = [proc EXCEPT ![w] = Continue([@ EXCEPT !.seen = merged], next)]

Commit(w, new, next) == Write(w, Seen(w), new, next)

\* record_healing_failure of an incident whose loaded row is row.
RecordFailure(w, row, next) ==
    IF row.status \in Lifecycle
    THEN Write(w, row, [row EXCEPT !.status = "degraded"], next)
    ELSE Raise(w)

\* Every outcome that hands the incident back, a local timeout among them.
Abandon(w) == RecordFailure(w, Seen(w), "reporting")

\* _escalate, and the escalation_reason event of escalate.
Escalated(row) == [row EXCEPT !.status = "manual_review", !.action = "escalate"]

-----------------------------------------------------------------------------
Init ==
    /\ started = 0
    /\ runs = [r \in Run |-> "unstarted"]
    /\ incidents = [i \in Incident |-> NoRow]
    /\ job = [st |-> "none", approved |-> FALSE, previewed |-> {}]
    /\ proc = [w \in Worker |-> Rest]
    /\ claim = 0
    /\ posts = [i \in Incident |-> 0]

\* The next collection, triggered and committed RUNNING.  started_at is taken
\* before the trigger; a trigger that fails leaves no run.
StartRun ==
    /\ started < MaxRuns
    /\ started' = started + 1
    /\ runs' = [runs EXCEPT ![started + 1] = "running"]

-----------------------------------------------------------------------------
(* Collecting and judging: run_pipeline, evaluate_and_heal,                *)
(* evaluate_collector_run.                                                 *)

\* An invocation starts a collection of its own: under the claim of an
\* execution when no other is active, or without one (daily_pipeline).
Begin(w) ==
    /\ proc[w].pc = "idle"
    /\ StartRun
    /\ proc' = [proc EXCEPT ![w] = [Rest EXCEPT !.pc = "collecting",
                                                !.run = started + 1]]
    /\ claim' \in {claim, IF claim = 0 THEN started + 1 ELSE claim}
    /\ UNCHANGED <<incidents, job, posts>>

\* An invocation resumes the claimed execution: a run still RUNNING is polled
\* again, a finished one goes straight to RecallGuard, whether the process that
\* had it died or is judging it.  Two that poll one run are PipelineExecutor's.
Resume(w) ==
    /\ proc[w].pc = "idle"
    /\ claim # 0
    /\ \A v \in Worker : ~ (proc[v].pc = "collecting" /\ proc[v].run = claim)
    /\ proc' = [proc EXCEPT ![w] =
          [Rest EXCEPT !.pc = IF runs[claim] = "running" THEN "collecting"
                                                         ELSE "judging",
                       !.run = claim]]
    /\ UNCHANGED <<started, runs, incidents, job, claim, posts>>

FinishCollection(w) ==
    /\ proc[w].pc = "collecting"
    /\ \E o \in Outcomes : runs' = [runs EXCEPT ![proc[w].run] = o]
    /\ Goto(w, "judging")
    /\ UNCHANGED <<started, incidents, job, claim, posts>>

\* Defect: an incident with a human is not looked up.
NewestUnattended(i) ==
    LET open == {j \in Incident : incidents[j].status \in Resumable} IN
        IF open = {} THEN i = 0 ELSE i \in open /\ \A j \in open : j <= i

\* active_incident: the newest of the active ones, 0 when there is none.
Newest(i) == IF Healthy THEN i = 0
             ELSE i \in ActiveIncidents /\ \A j \in ActiveIncidents : j <= i

\* The checks of the run and the SELECT of the active incident.  A clean run
\* writes nothing; with an incident open it is offered as proof of a retry.
Judge(w) ==
    /\ proc[w].pc = "judging"
    /\ \E i \in 0 .. MaxIncidents :
        /\ Newest(i)
        /\ LET passed == runs[proc[w].run] = "clean" IN
             proc' = [proc EXCEPT ![w] = Continue(
                [@ EXCEPT !.inc = i,
                          !.seen = IF i = 0 THEN NoRow ELSE incidents[i],
                          !.result = IF passed THEN proc[w].run ELSE 0],
                IF ~ passed THEN "recording"
                ELSE IF i # 0 THEN "retrying" ELSE "reporting")]
    /\ UNCHANGED <<started, runs, incidents, job, claim, posts>>

\* Where a failing evaluation leads: _healing_refusal.
AfterRecord(row) ==
    IF row.action = "request_heal" /\ row.status # "manual_review"
    THEN "observing" ELSE "reporting"

\* _open_or_update_incident, no incident seen: INSERT.
OpenIncident(w) ==
    /\ proc[w].pc = "recording"
    /\ proc[w].inc = 0
    /\ LET o == runs[proc[w].run]
           row == [NoRow EXCEPT
                     !.status = "degraded", !.class = Classification(o),
                     !.action = Recommended(o), !.detRun = proc[w].run,
                     !.detectedAt = started,
                     !.evidence.drifted = Classification(o) = "extraction_drift"]
       IN  \E i \in Incident :
             /\ incidents[i].status = "absent"
             /\ \A j \in Incident : j < i => incidents[j].status # "absent"
             /\ incidents' = [incidents EXCEPT ![i] = row]
             /\ proc' = [proc EXCEPT ![w] = Continue(
                   [@ EXCEPT !.inc = i, !.seen = row], AfterRecord(row))]
    /\ UNCHANGED <<started, runs, job, claim, posts>>

\* The diagnosis of a repeat failure replaces the last one, unless healing or
\* a human owns the incident.
Rediagnosed(row, o) ==
    IF row.status \in Lifecycle \cup {"manual_review"} THEN row
    ELSE [row EXCEPT !.class = Classification(o), !.action = Recommended(o)]

\* _open_or_update_incident, the occurrence appended to the incident seen.
UpdateIncident(w) ==
    /\ proc[w].pc = "recording"
    /\ proc[w].inc # 0
    /\ LET o == runs[proc[w].run]
           old == Seen(w)
           new == [Rediagnosed(old, o) EXCEPT
                     !.evidence.drifted = @ \/ Classification(o) = "extraction_drift"]
       IN  Commit(w, new, AfterRecord(Merge(incidents[proc[w].inc], old, new)))
    /\ UNCHANGED <<started, runs, job, claim, posts>>

\* Defects: a run from before the outage, or a clean run for any diagnosis.
ProvesRetryAnytime(row, r) ==
    /\ row.class = "outage" /\ row.action = "retry"
    /\ row.status = "degraded"
    /\ r # row.detRun

ProvesAnyRetry(row, r) ==
    /\ row.status = "degraded"
    /\ r # row.detRun
    /\ r \notin row.evidence.used
    /\ r > row.detectedAt

\* _qualifies_as_retry_proof and the guards before it.
ProvesRetry(row, r) ==
    /\ row.class = "outage" /\ row.action = "retry"
    /\ row.status = "degraded"
    /\ r # row.detRun
    /\ r \notin row.evidence.used
    /\ r > row.detectedAt

Recovered(row, r) ==
    [row EXCEPT !.status = "recovered", !.verRun = r,
                !.evidence.used = @ \cup {r}]

\* verify_retry_recovery.
Retry(w) ==
    /\ proc[w].pc = "retrying"
    /\ LET r == proc[w].run IN
          IF ProvesRetry(Seen(w), r)
          THEN Commit(w, Recovered(Seen(w), r), "reporting")
          ELSE Goto(w, "reporting") /\ UNCHANGED incidents
    /\ UNCHANGED <<started, runs, job, claim, posts>>

\* Defect: a passing run is trusted whatever incident is open.
TrustsAnyPass(w) == proc[w].result

\* _trusted_run_id: the run this invocation reports as trusted, 0 for none.
Trusts(w) == IF Healthy THEN proc[w].result ELSE 0

\* The end of evaluate_and_heal: the state is read and the verdict returned.
Report(w) ==
    /\ proc[w].pc = "reporting"
    /\ proc' = [proc EXCEPT ![w] = Rest]
    /\ claim' = IF claim = proc[w].run THEN 0 ELSE claim
    /\ UNCHANGED <<started, runs, incidents, job, posts>>

-----------------------------------------------------------------------------
(* Healing: resume_or_execute_healing_attempt and what it calls.           *)

\* The status read is AWAITING_APPROVAL: it carries the candidate's preview.
TakePreview(w) == /\ Reading = "gate"
                  /\ job' = [job EXCEPT !.previewed = @ \cup {w}]

\* _observe_provider_repair and the decision on it.  What the provider says
\* may be unreadable, or a status nobody knows: then nothing is done.
Refuse(w) ==
    /\ proc[w].pc = "observing"
    /\ Seen(w).status \in Resumable
    /\ Goto(w, "reporting")
    /\ UNCHANGED <<started, runs, incidents, job, claim, posts>>

Observe(w) ==
    /\ proc[w].pc = "observing"
    /\ LET row == Seen(w)
           live == Reading \in ActiveProvider
       IN  \/ /\ row.status \notin Resumable  \* start_healing refuses it
              /\ Raise(w)
              /\ UNCHANGED job
           \/ /\ row.status \in Resumable
              /\ live
              /\ row.attempts < 1             \* a job that is not ours
              /\ Goto(w, "reporting")
              /\ UNCHANGED <<incidents, job>>
           \/ /\ row.status \in Resumable
              /\ Reading = "running"
              /\ row.attempts >= 1
              /\ Goto(w, "resuming")
              /\ UNCHANGED <<incidents, job>>
           \/ /\ row.status \in Resumable
              /\ row.attempts >= 1
              /\ TakePreview(w)
              /\ Goto(w, "rejoining")
              /\ UNCHANGED incidents
           \/ /\ row.status \in Lifecycle
              /\ ~ live
              /\ Abandon(w)
              /\ UNCHANGED job
           \/ /\ row.status = "degraded"
              /\ ~ live
              /\ Goto(w, "starting")
              /\ UNCHANGED <<incidents, job>>
    /\ UNCHANGED <<started, runs, claim, posts>>

\* Defects: no budget check, and an attempt that is not counted.
StartUnbudgeted(w) ==
    /\ proc[w].pc = "starting"
    /\ Commit(w, [Seen(w) EXCEPT !.status = "healing", !.attempts = @ + 1],
              "posting")
    /\ UNCHANGED <<started, runs, job, claim, posts>>

StartUncounted(w) ==
    /\ proc[w].pc = "starting"
    /\ Commit(w, [Seen(w) EXCEPT !.status = "healing"], "posting")
    /\ UNCHANGED <<started, runs, job, claim, posts>>

\* start_healing: the budget, and one attempt of it.
Start(w) ==
    /\ proc[w].pc = "starting"
    /\ LET row == Seen(w) IN
          IF row.attempts >= MaxAttempts
          THEN Commit(w, Escalated(row), "reporting")
          ELSE Commit(w, [row EXCEPT !.status = "healing", !.attempts = @ + 1],
                      "posting")
    /\ UNCHANGED <<started, runs, job, claim, posts>>

\* Defects: a resumed job is taken to be at its gate; a resume costs an attempt.
ResumeAtTheGate(w) ==
    /\ proc[w].pc \in {"resuming", "rejoining"}
    /\ Commit(w, [Seen(w) EXCEPT !.status = "healing"], "registering")
    /\ UNCHANGED <<started, runs, job, claim, posts>>

ResumeSpending(w) ==
    /\ proc[w].pc \in {"resuming", "rejoining"}
    /\ Commit(w, [Seen(w) EXCEPT !.status = "healing", !.attempts = @ + 1],
              "awaiting_gate")
    /\ UNCHANGED <<started, runs, job, claim, posts>>

\* resume_healing: no attempt consumed.  A job seen running is waited for,
\* one seen at its gate came with its preview.
ResumeHealing(w) ==
    /\ \/ /\ proc[w].pc = "resuming"
          /\ Commit(w, [Seen(w) EXCEPT !.status = "healing"], "awaiting_gate")
       \/ /\ proc[w].pc = "rejoining"
          /\ Commit(w, [Seen(w) EXCEPT !.status = "healing"], "registering")
    /\ UNCHANGED <<started, runs, job, claim, posts>>

\* refactor_template reaches the provider: a new job replaces the last one.
NewJob == job' = [st |-> "running", approved |-> FALSE, previewed |-> {}]

\* request_healing accepted.
Post(w) ==
    /\ proc[w].pc = "posting"
    /\ posts' = [posts EXCEPT ![proc[w].inc] = @ + 1]
    /\ NewJob
    /\ Goto(w, "awaiting_gate")
    /\ UNCHANGED <<started, runs, incidents, claim>>

\* request_healing raises; the request may have reached the provider.
PostFails(w) ==
    /\ proc[w].pc = "posting"
    /\ posts' = [posts EXCEPT ![proc[w].inc] = @ + 1]
    /\ NewJob \/ UNCHANGED job
    /\ Abandon(w)
    /\ UNCHANGED <<started, runs, claim>>

\* _wait_for_gate polls until the gate, done or failed.
ReachGate(w) ==
    /\ proc[w].pc = "awaiting_gate"
    /\ \/ /\ TakePreview(w)
          /\ Goto(w, "registering")
          /\ UNCHANGED incidents
       \/ /\ Reading \in {"done", "failed"}
          /\ Abandon(w)
          /\ UNCHANGED job
    /\ UNCHANGED <<started, runs, claim, posts>>

\* Defects: the wait ends without handing the incident back; it never ends.
GiveUpGateSilently(w) ==
    /\ proc[w].pc = "awaiting_gate"
    /\ Goto(w, "reporting")
    /\ UNCHANGED <<started, runs, incidents, job, claim, posts>>

GiveUpGateNever(w) ==
    /\ proc[w].pc = "awaiting_gate"
    /\ Reading = "failed"
    /\ Abandon(w)
    /\ UNCHANGED <<started, runs, job, claim, posts>>

\* A status request fails, or the local patience runs out.
GiveUpGate(w) ==
    /\ proc[w].pc = "awaiting_gate"
    /\ Abandon(w)
    /\ UNCHANGED <<started, runs, job, claim, posts>>

\* register_repair_candidate.
Register(w) ==
    /\ proc[w].pc = "registering"
    /\ LET row == Seen(w) IN
          IF row.status = "healing"
          THEN LET i == proc[w].inc
                   new == [row EXCEPT !.status = "validating",
                                      !.evidence.registered = started]
                   merged == Merge(incidents[i], row, new)
               IN  /\ incidents' = [incidents EXCEPT ![i] = merged]
                   /\ proc' = [proc EXCEPT ![w].seen = merged,
                                           ![w].attempt = row.attempts,
                                           ![w].pc = "preflight"]
          ELSE Raise(w)
    /\ UNCHANGED <<started, runs, job, claim, posts>>

\* _preflight_candidate: the preview satisfies the source contract or not.
Preflight(w) ==
    /\ proc[w].pc = "preflight"
    /\ \E verdict \in {"approving", "rejecting"} : Goto(w, verdict)
    /\ UNCHANGED <<started, runs, incidents, job, claim, posts>>

\* reject_healing closes the gate, or fails: the candidate is refused anyway.
Reject(w) ==
    /\ proc[w].pc = "rejecting"
    /\ \/ job.st = "gate" /\ job' = [job EXCEPT !.st = "done"]
       \/ UNCHANGED job
    /\ Goto(w, "rejected")
    /\ UNCHANGED <<started, runs, incidents, claim, posts>>

RecordRejection(w) ==
    /\ proc[w].pc = "rejected"
    /\ RecordFailure(w, Seen(w),
                     IF proc[w].attempt >= MaxAttempts THEN "escalating"
                                                       ELSE "reporting")
    /\ UNCHANGED <<started, runs, job, claim, posts>>

\* escalate: the status, and in a commit of its own the reason, an event that
\* nothing reads; no column tells the two apart, so they are one step.
Escalate(w) ==
    /\ proc[w].pc = "escalating"
    /\ Commit(w, Escalated(Seen(w)), "reporting")
    /\ UNCHANGED <<started, runs, job, claim, posts>>

\* approve_healing names the collector, so it opens the gate that is there.
OpenGate == /\ job.st = "gate"
            /\ job' = [job EXCEPT !.st = "deploying", !.approved = TRUE]

Approve(w) ==
    /\ proc[w].pc = "approving"
    /\ OpenGate
    /\ Goto(w, "deploying")
    /\ UNCHANGED <<started, runs, incidents, claim, posts>>

\* approve_healing raises; the approval may have reached the provider.
ApproveFails(w) ==
    /\ proc[w].pc = "approving"
    /\ OpenGate \/ UNCHANGED job
    /\ Abandon(w)
    /\ UNCHANGED <<started, runs, claim, posts>>

\* The approved job completes, and candidate_approved is committed; or fails.
Deployed(w) ==
    /\ proc[w].pc = "deploying"
    /\ \/ /\ Reading = "done"
          /\ Commit(w, [Seen(w) EXCEPT !.evidence.approved = proc[w].attempt],
                    "recollecting")
       \/ Reading = "failed" /\ Abandon(w)
    /\ UNCHANGED <<started, runs, job, claim, posts>>

GiveUpDeployment(w) ==
    /\ proc[w].pc = "deploying"
    /\ Abandon(w)
    /\ UNCHANGED <<started, runs, job, claim, posts>>

-----------------------------------------------------------------------------
(* Verification by a fresh collection: _verify_with_fresh_collection,      *)
(* begin_validation, verify_recovery.                                      *)

Recollect(w) ==
    /\ proc[w].pc = "recollecting"
    /\ StartRun
    /\ proc' = [proc EXCEPT ![w].pc = "collecting_proof",
                            ![w].proof = started + 1]
    /\ UNCHANGED <<incidents, job, claim, posts>>

\* The trigger of the fresh collection fails: there is no run.
RecollectFails(w) ==
    /\ proc[w].pc = "recollecting"
    /\ Abandon(w)
    /\ UNCHANGED <<started, runs, job, claim, posts>>

FinishProof(w) ==
    /\ proc[w].pc = "collecting_proof"
    /\ \E o \in Outcomes :
          /\ runs' = [runs EXCEPT ![proc[w].proof] = o]
          /\ Goto(w, IF o \in Succeeded THEN "verifying" ELSE "proof_failed")
    /\ UNCHANGED <<started, incidents, job, claim, posts>>

\* CollectionError; the commits of the collection expired the row, so the
\* current one is judged.
ProofFails(w) ==
    /\ proc[w].pc = "proof_failed"
    /\ RecordFailure(w, incidents[proc[w].inc], "reporting")
    /\ UNCHANGED <<started, runs, job, claim, posts>>

\* _require_independent_run.
Independent(row, r) ==
    /\ r # row.detRun
    /\ r \notin row.evidence.used
    /\ row.evidence.registered # 0
    /\ r > row.evidence.registered

\* verify_recovery up to the checks: begin_validation when VALIDATING.
BeginValidation(w) ==
    /\ proc[w].pc = "verifying"
    /\ LET row == incidents[proc[w].inc] IN
          IF /\ row.status \in {"validating", "verifying"}
             /\ Independent(row, proc[w].proof)
          THEN Write(w, row, [row EXCEPT !.status = "verifying"], "verdict")
          ELSE Raise(w)
    /\ UNCHANGED <<started, runs, job, claim, posts>>

\* _record_recovery or _fail_verification.
Verdict(w) ==
    /\ proc[w].pc = "verdict"
    /\ LET r == proc[w].proof
           i == proc[w].inc
           row == Seen(w)
           clean == runs[r] = "clean"
           new == IF clean THEN Recovered(row, r)
                  ELSE [row EXCEPT !.status = "degraded",
                                   !.evidence.used = @ \cup {r}]
           merged == Merge(incidents[i], row, new)
       IN  /\ incidents' = [incidents EXCEPT ![i] = merged]
           /\ proc' = [proc EXCEPT ![w] = Continue(
                 [@ EXCEPT !.result = IF clean THEN r ELSE 0], "reporting")]
    /\ UNCHANGED <<started, runs, job, claim, posts>>

-----------------------------------------------------------------------------
(* The environment.                                                        *)

\* The provider moves its job: to the gate, past it, or to a terminal status.
\* An approved job may stop at another gate, with another candidate.
Provider ==
    /\ \/ /\ job.st = "running"
          /\ \E s \in {"gate", "done", "failed"} : job' = [job EXCEPT !.st = s]
       \/ /\ job.st = "deploying"
          /\ \E s \in {"done", "failed"} : job' = [job EXCEPT !.st = s]
       \/ /\ job.st = "deploying"
          /\ job' = [st |-> "gate", approved |-> FALSE, previewed |-> {}]
    /\ UNCHANGED <<started, runs, incidents, proc, claim, posts>>

\* A process dies: its claimed execution stays active and may be resumed.  An
\* exception nothing foresees ends the invocation too, and releases the claim.
Die(w) ==
    /\ Dies
    /\ proc[w].pc # "idle"
    /\ proc' = [proc EXCEPT ![w] = Rest]
    /\ claim' \in {claim, IF claim = proc[w].run THEN 0 ELSE claim}
    /\ UNCHANGED <<started, runs, incidents, job, posts>>

\* The steps a live worker owes once an invocation has begun.
Step(w) ==
    \/ FinishCollection(w) \/ Judge(w) \/ OpenIncident(w) \/ UpdateIncident(w)
    \/ Retry(w) \/ Report(w)
    \/ Refuse(w) \/ Observe(w) \/ Start(w) \/ ResumeHealing(w)
    \/ Post(w) \/ PostFails(w) \/ ReachGate(w) \/ GiveUpGate(w)
    \/ Register(w) \/ Preflight(w) \/ Reject(w) \/ RecordRejection(w)
    \/ Escalate(w) \/ Approve(w) \/ ApproveFails(w)
    \/ Deployed(w) \/ GiveUpDeployment(w)
    \/ Recollect(w) \/ RecollectFails(w) \/ FinishProof(w) \/ ProofFails(w)
    \/ BeginValidation(w) \/ Verdict(w)

Next ==
    \/ \E w \in Worker : Begin(w) \/ Resume(w) \/ Step(w) \/ Die(w)
    \/ Provider

\* A worker that lives takes its next step: every wait has a local timeout.
Fairness == \A w \in Worker : WF_vars(Step(w))

Spec == Init /\ [][Next]_vars /\ Fairness

-----------------------------------------------------------------------------
(* Invariants.                                                             *)

\* Every variable keeps its type, and a run exists exactly when it started.
TypeOK ==
    /\ started \in 0 .. MaxRuns
    /\ runs \in [Run -> RunState]
    /\ incidents \in [Incident -> Row]
    /\ job \in Job
    /\ proc \in [Worker -> Proc]
    /\ claim \in Stamp
    /\ posts \in [Incident -> Nat]

\* The recovery proof: a closed incident names a clean run that started after
\* the incident was detected, whichever path closed it and whatever the other
\* workers wrote meanwhile.
ProvenByFreshRun(row) ==
    /\ row.verRun \in Run
    /\ runs[row.verRun] = "clean"
    /\ row.verRun > row.detectedAt
    /\ row.detRun <= row.detectedAt

RecoveredByFreshRun ==
    \A i \in Incident : incidents[i].status = "recovered"
                            => ProvenByFreshRun(incidents[i])

\* verify_recovery: the verification of a repair is by a run that started after
\* its candidate was registered, in an attempt whose candidate was approved and
\* deployed.
RepairVerified(row) ==
    /\ row.verRun > row.evidence.registered
    /\ row.evidence.registered # 0
    /\ row.attempts = row.evidence.approved

\* _trusted_run_id: a run is reported trusted only when its data passed every
\* check, no incident is open, and it detected none that is now closed.
TrustedIsProven ==
    \A w \in Worker :
        proc[w].pc = "reporting" /\ Trusts(w) # 0 =>
            /\ runs[Trusts(w)] = "clean"
            /\ ActiveIncidents = {}
            /\ \A i \in Incident : incidents[i].detRun # Trusts(w)

-----------------------------------------------------------------------------
(* What the source says and the code does not do.                          *)

\* "EXTRACTION_DRIFT / REQUEST_HEAL is deliberately absent: a later clean run
\* does not prove a broken scraper was repaired" (_RETRY_RECOVERABLE): an
\* incident that was ever diagnosed as drift is closed by a verified repair.
DriftNeedsRepair ==
    \A i \in Incident :
        incidents[i].status = "recovered" /\ incidents[i].evidence.drifted
            => RepairVerified(incidents[i])

-----------------------------------------------------------------------------
(* Liveness: every invocation returns, whatever the provider does.         *)

InvocationReturns ==
    \A w \in Worker : proc[w].pc # "idle" ~> proc[w].pc = "idle"

=============================================================================
