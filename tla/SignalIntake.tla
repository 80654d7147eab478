---------------------------- MODULE SignalIntake ----------------------------
(***************************************************************************)
(* From a finished collection to the problems a reader is shown: the       *)
(* completion of a run (app/collection/service.py), the ingestion of its   *)
(* dataset (app/ingestion, app/integrations/brightdata/fix_my_itch.py) and *)
(* the reads that serve only what RecallGuard trusts                       *)
(* (app/opportunity_engine, app/recallguard/read_service.py,               *)
(* app/dashboard).                                                         *)
(*                                                                         *)
(* A worker is a process with a session: a driver of PipelineExecutor, a   *)
(* re-collection of Healing.  Several complete collections of one source   *)
(* at once, and nothing in the code keeps two of them off one run.  They   *)
(* meet in uq_signals_source_external_id: a key inserted and not committed *)
(* makes another INSERT of it wait.                                        *)
(***************************************************************************)
EXTENDS Integers, FiniteSets

CONSTANTS
    Worker, Collector, Run,
    Key,           \* the identities of the problems of one source
    MaxBatch,      \* bound: records of a dataset
    MaxIncidents,  \* bound: incidents opened
    MaxFaults,     \* bound: lost processes and lost connections
    Unstorable,    \* a record the source may publish and ingestion refuses
    OffContract,   \* a dataset with a record that violates the source contract
    NoRun, NoCollector, NoData

ASSUME IntakeAssumption ==
    /\ {MaxBatch, MaxIncidents, MaxFaults} \subseteq Nat
    /\ IsFiniteSet(Key)
    /\ NoRun \notin Run
    /\ NoCollector \notin Collector

VARIABLES
    runs,       \* collector_runs
    dataset,    \* at the provider: what a run's collection collected
    signals,    \* signals: the collector_run_id of each key
    worker,     \* the completion each worker is in
    pending,    \* the keys it has flushed and not committed
    shared,     \* the runs that two workers ever held at once
    incidents,  \* reliability_incidents
    reader,     \* one dashboard read after another
    faults

vars == <<runs, dataset, signals, worker, pending, shared, incidents, reader, faults>>

-----------------------------------------------------------------------------
\* A record is a problem with its identity, or one that honours the contract
\* of the source and not that of ingestion: a title longer than its column.
Record == Key \cup {Unstorable}
Batch == UNION {[1 .. n -> Record] : n \in 0 .. MaxBatch}

ASSUME DataAssumption ==
    /\ Unstorable \notin Key
    /\ {NoData, OffContract} \cap Batch = {}
    /\ NoData # OffContract

Content(b) == {b[i] : i \in DOMAIN b}

RunRow == [status : {"absent", "running", "succeeded", "failed"},
           of : Collector \cup {NoCollector}, accepted : Nat, duplicates : Nat]
AbsentRun == [status |-> "absent", of |-> NoCollector,
              accepted |-> 0, duplicates |-> 0]

\* next: the record it is at; seen: seen_external_ids_in_batch.
WorkerState ==
    [pc : {"idle", "polling", "ingesting", "inserting", "failing"},
     run : Run \cup {NoRun}, next : Nat \ {0}, seen : SUBSET Key,
     accepted : Nat, duplicates : Nat, rejected : Nat]
Idle == [pc |-> "idle", run |-> NoRun, next |-> 1, seen |-> {},
         accepted |-> 0, duplicates |-> 0, rejected |-> 0]

Data(w) == dataset[worker[w].run]
AtEnd(w) == worker[w].next \notin DOMAIN Data(w)
Current(w) == Data(w)[worker[w].next]

Stored(k) == signals[k] # NoRun

\* active: the number of each collector's active incident, at most one each
\* (Healing's), 0 for none; opened, recovered: all rows, and those RECOVERED.
Incidents == [active : [Collector -> Nat], opened : Nat, recovered : Nat]
Active == {c \in Collector : incidents.active[c] # 0}

\* owed: the incidents active when the second count was read; since: those
\* opened when trust was checked; listed: the run of each problem shown.
Reader == [pc : {"idle", "counted", "counts", "checked", "shown"},
           recovered : Nat, active : Int, owed : Nat,
           unhealthy : SUBSET Collector, since : Nat,
           listed : [Key -> Run \cup {NoRun}]]
AtRest == [pc |-> "idle", recovered |-> 0, active |-> 0, owed |-> 0,
           unhealthy |-> {}, since |-> 0,
           listed |-> [k \in Key |-> NoRun]]

Init ==
    /\ runs = [r \in Run |-> AbsentRun]
    /\ dataset = [r \in Run |-> NoData]
    /\ signals = [k \in Key |-> NoRun]
    /\ worker = [w \in Worker |-> Idle]
    /\ pending = [w \in Worker |-> {}]
    /\ shared = {}
    /\ incidents = [active |-> [c \in Collector |-> 0], opened |-> 0, recovered |-> 0]
    /\ reader = AtRest
    /\ faults = 0

-----------------------------------------------------------------------------
(* A worker comes to hold a run, and leaves it.                            *)

database == <<runs, signals, pending>>
others == <<incidents, reader, faults>>

\* _open_run: RUNNING is committed before anything is awaited.
Open(w, c, r) ==
    /\ worker[w].pc = "idle"
    /\ runs[r].status = "absent"
    /\ runs' = [runs EXCEPT ![r] = [AbsentRun EXCEPT !.status = "running", !.of = c]]
    /\ worker' = [worker EXCEPT ![w] = [Idle EXCEPT !.pc = "polling", !.run = r]]
    /\ UNCHANGED <<dataset, signals, pending, shared, others>>

\* resume_pipeline_run finds the run RUNNING, whoever else holds it.
Resume(w, r) ==
    /\ worker[w].pc = "idle"
    /\ runs[r].status = "running"
    /\ worker' = [worker EXCEPT ![w] = [Idle EXCEPT !.pc = "polling", !.run = r]]
    /\ shared' = IF \E v \in Worker : worker[v].run = r THEN shared \cup {r} ELSE shared
    /\ UNCHANGED <<database, dataset, others>>

\* The provider still collects: the run stays RUNNING.
StillRunning(w) ==
    /\ worker[w].pc = "polling"
    /\ worker' = [worker EXCEPT ![w] = Idle]
    /\ UNCHANGED <<database, dataset, shared, others>>

Failing(w) ==
    /\ worker' = [worker EXCEPT ![w].pc = "failing"]
    /\ UNCHANGED <<database, dataset, shared, others>>

\* The provider fails, answers what cannot be read, or outlasts the budget.
CollectionFails(w) == worker[w].pc = "polling" /\ Failing(w)

-----------------------------------------------------------------------------
(* The dataset: _fetch_dataset, _validate, _ingest.                        *)

\* validate_dataset: one record off contract blocks the whole dataset.
Blocked(b) == b = OffContract

\* Every fetch of one collection brings the same dataset.
Fetch(w) ==
    /\ worker[w].pc = "polling"
    /\ \E b \in Batch \cup {OffContract} :
          /\ Data(w) \in {NoData, b}
          /\ dataset' = [dataset EXCEPT ![worker[w].run] = b]
          /\ worker' = [worker EXCEPT ![w].pc =
                            IF Blocked(b) THEN "failing" ELSE "ingesting"]
    /\ UNCHANGED <<database, shared, others>>

\* The record is refused, known, or inserted; the next is taken up.
Refused(p) == [p EXCEPT !.next = @ + 1, !.rejected = @ + 1]

Duplicate(p, k) ==
    [p EXCEPT !.pc = "ingesting", !.next = @ + 1, !.seen = @ \cup {k},
              !.duplicates = @ + 1]

Accepted(p, k) ==
    [p EXCEPT !.pc = "ingesting", !.next = @ + 1, !.seen = @ \cup {k},
              !.accepted = @ + 1]

\* normalize_record refuses the record.
Reject(w) ==
    /\ worker[w].pc = "ingesting"
    /\ ~AtEnd(w)
    /\ Current(w) \notin Key
    /\ worker' = [worker EXCEPT ![w] = Refused(@)]
    /\ UNCHANGED <<database, dataset, shared, others>>

\* Seen in this batch, or found by the SELECT, which sees what is committed.
Known(w, k) == k \in worker[w].seen \/ Stored(k)

SkipKnown(w) ==
    /\ worker[w].pc = "ingesting"
    /\ ~AtEnd(w)
    /\ Current(w) \in Key
    /\ Known(w, Current(w))
    /\ worker' = [worker EXCEPT ![w] = Duplicate(@, Current(w))]
    /\ UNCHANGED <<database, dataset, shared, others>>

FindNone(w) ==
    /\ worker[w].pc = "ingesting"
    /\ ~AtEnd(w)
    /\ Current(w) \in Key
    /\ ~Known(w, Current(w))
    /\ worker' = [worker EXCEPT ![w].pc = "inserting"]
    /\ UNCHANGED <<database, dataset, shared, others>>

\* The INSERT, in a SAVEPOINT of its own.
Insert(w) ==
    /\ worker[w].pc = "inserting"
    /\ ~Stored(Current(w))
    /\ \A v \in Worker : Current(w) \notin pending[v]
    /\ pending' = [pending EXCEPT ![w] = @ \cup {Current(w)}]
    /\ worker' = [worker EXCEPT ![w] = Accepted(@, Current(w))]
    /\ UNCHANGED <<runs, signals, dataset, shared, others>>

\* Defect: the collision is taken for an insert.
CollideAccepted(w) ==
    /\ worker[w].pc = "inserting"
    /\ Stored(Current(w))
    /\ worker' = [worker EXCEPT ![w] = Accepted(@, Current(w))]
    /\ UNCHANGED <<database, dataset, shared, others>>

\* Another transaction committed the key after the SELECT: that record alone
\* is rolled back.
Collide(w) ==
    /\ worker[w].pc = "inserting"
    /\ Stored(Current(w))
    /\ worker' = [worker EXCEPT ![w] = Duplicate(@, Current(w))]
    /\ UNCHANGED <<database, dataset, shared, others>>

WaitsFor(w, v) ==
    /\ worker[w].pc = "inserting"
    /\ w # v
    /\ Current(w) \in pending[v]

\* Datasets in different orders: the database breaks a cycle of waits by
\* refusing the INSERT of one of them, which fails its run.
Deadlock(w) ==
    /\ \E W \in SUBSET Worker :
          /\ w \in W
          /\ \A u \in W : \E v \in W : WaitsFor(u, v)
    /\ Failing(w)

\* Any other error of the database, or one nothing foresees.
IngestionFails(w) ==
    /\ worker[w].pc \in {"ingesting", "inserting"}
    /\ faults < MaxFaults
    /\ faults' = faults + 1
    /\ worker' = [worker EXCEPT ![w].pc = "failing"]
    /\ UNCHANGED <<database, dataset, shared, incidents, reader>>

-----------------------------------------------------------------------------
(* The end of a run.                                                       *)

Ingested(w) == worker[w].pc = "ingesting" /\ AtEnd(w)

\* One record that ingestion refuses fails the run.
IngestionRefuses(w) ==
    /\ Ingested(w)
    /\ worker[w].rejected > 0
    /\ Failing(w)

Committed(w) ==
    [k \in Key |-> IF k \in pending[w] THEN worker[w].run ELSE signals[k]]

Succeeded(row, p) ==
    [row EXCEPT !.status = "succeeded", !.accepted = p.accepted,
                !.duplicates = p.duplicates]

\* Defect: the verdict of an execution is written on its run.
FinalizeCompleted(w) ==
    /\ Ingested(w)
    /\ worker[w].rejected = 0
    /\ runs' = [runs EXCEPT ![worker[w].run].status = "completed"]
    /\ worker' = [worker EXCEPT ![w] = Idle]
    /\ UNCHANGED <<signals, pending, dataset, shared, others>>

\* _finalize_success: SUCCEEDED and the signals in one commit.
FinalizeSuccess(w) ==
    /\ Ingested(w)
    /\ worker[w].rejected = 0
    /\ signals' = Committed(w)
    /\ runs' = [runs EXCEPT ![worker[w].run] = Succeeded(@, worker[w])]
    /\ pending' = [pending EXCEPT ![w] = {}]
    /\ worker' = [worker EXCEPT ![w] = Idle]
    /\ UNCHANGED <<dataset, shared, others>>

\* Defect: the session is not rolled back before the commit.
FailKeeping(w) ==
    /\ worker[w].pc = "failing"
    /\ signals' = Committed(w)
    /\ runs' = [runs EXCEPT ![worker[w].run].status = "failed"]
    /\ pending' = [pending EXCEPT ![w] = {}]
    /\ worker' = [worker EXCEPT ![w] = Idle]
    /\ UNCHANGED <<dataset, shared, others>>

\* _finalize_failure: roll back, then FAILED, whatever the row says by now.
FinalizeFailure(w) ==
    /\ worker[w].pc = "failing"
    /\ runs' = [runs EXCEPT ![worker[w].run].status = "failed"]
    /\ pending' = [pending EXCEPT ![w] = {}]
    /\ worker' = [worker EXCEPT ![w] = Idle]
    /\ UNCHANGED <<signals, dataset, shared, others>>

\* The process or its connection is lost, or a final commit raises: both of
\* them are outside the try.  The transaction is lost, the run stays RUNNING.
Lost(w) ==
    /\ worker[w].pc # "idle"
    /\ faults < MaxFaults
    /\ faults' = faults + 1
    /\ pending' = [pending EXCEPT ![w] = {}]
    /\ worker' = [worker EXCEPT ![w] = Idle]
    /\ UNCHANGED <<runs, signals, dataset, shared, incidents, reader>>

-----------------------------------------------------------------------------
(* RecallGuard, as the reads see it; how it comes to a verdict is Healing's.*)

intake == <<runs, dataset, signals, worker, pending, shared, faults>>

\* A run that ended is judged and found wanting.
Degrade(c) ==
    /\ c \notin Active
    /\ incidents.opened < MaxIncidents
    /\ \E r \in Run : runs[r].of = c /\ runs[r].status \in {"succeeded", "failed"}
    /\ incidents' = [active |-> [incidents.active EXCEPT ![c] = incidents.opened + 1],
                      opened |-> incidents.opened + 1,
                      recovered |-> incidents.recovered]
    /\ UNCHANGED <<intake, reader>>

Recover(c) ==
    /\ c \in Active
    /\ \E r \in Run : runs[r].of = c /\ runs[r].status = "succeeded"
    /\ incidents' = [active |-> [incidents.active EXCEPT ![c] = 0],
                      opened |-> incidents.opened,
                      recovered |-> incidents.recovered + 1]
    /\ UNCHANGED <<intake, reader>>

-----------------------------------------------------------------------------
(* A dashboard read: every statement sees what is committed by then.       *)

Read(from, to) ==
    /\ reader.pc = from
    /\ reader' = to
    /\ UNCHANGED <<intake, incidents>>

\* Defect: all rows are counted first.
CountAllFirst ==
    \/ Read("idle", [AtRest EXCEPT !.pc = "counted", !.recovered = incidents.opened])
    \/ Read("counted", [AtRest EXCEPT !.pc = "counts",
                                      !.active = reader.recovered - incidents.recovered,
                                      !.owed = Cardinality(Active)])

\* incident_counts: the RECOVERED rows are counted, then all of them.
IncidentCounts ==
    \/ Read("idle", [AtRest EXCEPT !.pc = "counted", !.recovered = incidents.recovered])
    \/ Read("counted", [AtRest EXCEPT !.pc = "counts",
                                      !.active = incidents.opened - reader.recovered,
                                      !.owed = Cardinality(Active)])

\* collectors_with_active_incidents.
CheckTrust ==
    Read("counts", [AtRest EXCEPT !.pc = "checked", !.unhealthy = Active,
                                  !.since = incidents.opened])

\* Defect: every signal is served.
Everything == signals

\* _trusted_query: the signals whose collector is not among the unhealthy.
Trusted ==
    [k \in Key |-> IF Stored(k) /\ runs[signals[k]].of \notin reader.unhealthy
                   THEN signals[k] ELSE NoRun]

ListOpportunities ==
    Read("checked", [AtRest EXCEPT !.pc = "shown", !.since = reader.since,
                                   !.listed = Trusted])

Render == Read("shown", AtRest)

-----------------------------------------------------------------------------
WorkerStep(w) ==
    \/ StillRunning(w) \/ CollectionFails(w) \/ Fetch(w)
    \/ Reject(w) \/ SkipKnown(w) \/ FindNone(w) \/ Insert(w) \/ Collide(w)
    \/ Deadlock(w) \/ IngestionFails(w) \/ IngestionRefuses(w)
    \/ FinalizeSuccess(w) \/ FinalizeFailure(w) \/ Lost(w)

Next ==
    \/ \E w \in Worker, c \in Collector, r \in Run : Open(w, c, r)
    \/ \E w \in Worker, r \in Run : Resume(w, r)
    \/ \E w \in Worker : WorkerStep(w)
    \/ \E c \in Collector : Degrade(c) \/ Recover(c)
    \/ IncidentCounts \/ CheckTrust \/ ListOpportunities \/ Render

Spec == Init /\ [][Next]_vars

-----------------------------------------------------------------------------
(* Properties.                                                             *)

\* Every variable keeps its type (the rows and sessions of the code).
TypeOK ==
    /\ runs \in [Run -> RunRow]
    /\ dataset \in [Run -> Batch \cup {NoData, OffContract}]
    /\ signals \in [Key -> Run \cup {NoRun}]
    /\ worker \in [Worker -> WorkerState]
    /\ pending \in [Worker -> SUBSET Key]
    /\ shared \in SUBSET Run
    /\ incidents \in Incidents
    /\ reader \in Reader
    /\ faults \in 0 .. MaxFaults

\* A stored problem was collected by the run it is attributed to, in a dataset
\* no record of which was refused, and that run SUCCEEDED unless two workers
\* held it (_validate, _ingest, _finalize_success, _finalize_failure).
SignalsAreVouched ==
    \A k \in Key :
        Stored(k) =>
            LET r == signals[k] IN
                /\ dataset[r] \in Batch
                /\ k \in Content(dataset[r])
                /\ Content(dataset[r]) \subseteq Key
                /\ runs[r].status = "succeeded" \/ r \in shared

\* The signals attributed to a run.
Attributed(r) == {k \in Key : signals[k] = r}

\* A run that says SUCCEEDED lost none of its records, and the counts it gives
\* are those of the rows it stored and of the rest of its dataset, whatever
\* was ingested at once (ingest_collector_output's accounting).
ReportedAsIngested ==
    \A r \in Run :
        runs[r].status = "succeeded" =>
            /\ dataset[r] \in Batch
            /\ \A k \in Content(dataset[r]) : k \in Key /\ Stored(k)
            /\ r \notin shared =>
                 /\ runs[r].accepted = Cardinality(Attributed(r))
                 /\ runs[r].accepted + runs[r].duplicates
                        = Cardinality(DOMAIN dataset[r])

\* The two statements of incident_counts never hide an incident that is active
\* when the second is read, whatever opens or recovers between them.
ActiveCountCoversActive ==
    reader.pc = "counts" => reader.active >= reader.owed

\* A problem that is shown was stored by a run that SUCCEEDED, unless two
\* workers held it, and if its collector's incident is active by now, it was
\* opened after the read checked trust (_trusted_query).
ListedIsTrusted ==
    reader.pc = "shown" =>
        \A k \in Key :
            reader.listed[k] # NoRun =>
                LET r == reader.listed[k] IN
                    /\ runs[r].status = "succeeded" \/ r \in shared
                    /\ runs[r].of \in Active =>
                          incidents.active[runs[r].of] > reader.since
=============================================================================
