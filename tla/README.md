# GapRadar: specifications, model checking and proofs

GapRadar collects product complaints with scrapers hosted by Bright Data, watches
those scrapers (RecallGuard) and has the provider repair them when they drift, turns
what it trusts into opportunities, and researches an opportunity, or a user's own
idea, with paper and web searches. The backend (`src/backend/app`) is a synchronous
Python service over PostgreSQL: requests, background tasks, cron jobs and MCP tools
are separate processes and threads that meet in a few rows, and any of them may die
between two commits. These specifications are about those rows: who may change them,
in what order, on what evidence, and what is left of them after a failure.

The first part is the inventory of the system; the second describes the modules;
then come the runs, the proofs, what the code does otherwise than it says, and the plan.
`PROJECT.json` maps every definition to the lines it models and lists the hazards.

## 1. Inventory

| component | state it keeps | operations | hard behaviour | what makes it correct |
|---|---|---|---|---|
| **RecallGuard incidents** `recallguard/service.py`, `detection.py` | `reliability_incidents`: status, diagnosis, attempts, evidence document | evaluate a run, open / update / rediagnose, start / resume healing, register a candidate, begin validation, both verdicts, retry recovery, escalate | several processes write one row loaded earlier; no lock, no unique index | an incident is closed only by a proof newer than itself; the repair budget; closed and escalated incidents stay so |
| **RecallGuard healing** `recallguard/healing.py` | the provider's one self-healing job of a collector; the worker's copy of the row | observe, request, wait for the gate, preflight, approve / reject, wait for the deployment, collect again, verify | crash after paying, lost answers, local timeouts against a repair that goes on, an approval that names no candidate | no repair on top of a live one, every way out hands the incident back, what is approved was reviewed |
| **Evaluate-and-heal** `pipeline/service.py` | none of its own | run, judge, heal, report the trusted run | the state read at the end is not the one judged | only proven data is reported trusted |
| **Collection** `collection/service.py` | `collector_runs` | trigger, open the run, poll, fetch, validate, ingest, finalise | trigger accepted and answer lost; exception in any stage; two processes completing one run | what a run reports is what it stored |
| **Pipeline executor** `pipeline/executor.py`, `background.py`, routes | `pipeline_runs`: status, idempotency key, provider job, run; two unique indexes | claim, join, step, resume, close | claim races, two drivers of one execution, stale identity map, death around the trigger | one active execution, one provider job each, nothing rejoinable is given up, every claim is decided |
| **Scheduled jobs** `jobs/daily_refresh.py`, `daily_pipeline.py` | the business day's key | resume the unfinished, claim today's, drive | fired twice, killed, overlapping the API | the same, across days |
| **Investigation runs** `investigations/runs.py`, `execution.py`, `actions.py`, `background.py`, `jobs/reconciliation.py` | `investigation_runs` (one active per investigation), the status mirrored on `investigations` | claim, submit, execute, fail, age out | two clicks, executors that die, hang or outlive the age at which they are taken for dead | one run in flight, launched once, ended runs final, subject never blocked |
| **Research enrichment** `research_intelligence/enrichment.py`, opportunity routes | `research_enrichment_runs` | the same lifecycle, plus `already_enriched` | flushed rows committed by a progress write | a retryable failure can be retried |
| **Research engine** `research_intelligence/orchestration.py`, `execution.py`, ... | in-memory executions shared with threads; searches, papers, matches | search concurrently under one budget, ingest, rank, judge, persist | threads that outlive the budget and keep writing | what ended in time counts as it ended; partial results are kept |
| **Web phases of an investigation** `investigations/web_intelligence.py`, `progress.py`, `web_intelligence/*` | web searches, hits, evidence rows (unique per page), phase progress on the run row | search both families, judge, upsert, commit, report | overlapping runs of one investigation: unique conflicts, row locks, deadlocks; rollback of both families | what is reported is what is stored; every verdict has its search |
| **Search planning** `research_intelligence/query_generation.py`, `enrichment.py` (gate), `investigations/planning.py`, `subject.py`, `integrations/openai/query_generator.py` | none | plan from tables, judge, fall back to a model, judge again, hand over | thresholds, near-duplicates, wrap-around of the angles, unknown wording, what a model may answer | nothing is bought that the gate refuses; three different searches; a model only when the tables are not enough |
| **Signal ingestion** `ingestion/*`, `integrations/brightdata/fix_my_itch.py` | `signals`, unique by source and hash | refuse, skip what is known, insert in a savepoint, count | duplicates in a batch, across batches and across processes; waits and deadlocks on the unique index | a stored signal has a run that vouches for it; the counts are the rows |
| **Opportunity listing and dashboard counts** `opportunity_engine/service.py`, `recallguard/read_service.py`, `dashboard/service.py` | none | check trust, list, count incidents | several statements with other processes in between | nothing distrusted is listed; no open incident is hidden |
| **Opportunity scoring** `opportunity_engine/scoring.py` | none | score | boundary values | bounds and monotonicity of a score |
| **Bright Data and OpenAI clients** `integrations/*` | none | HTTP calls, parsing | unreadable or partial answers | modelled through what their callers see |
| **REST reads, dashboard, MCP tools, CLI, frontend, demo and operator scripts** | none | views, rendering | - | not modelled: they change no state, or call the services above |

How they interact: a driver of the executor collects, then calls `evaluate_and_heal`,
which judges the run and, on drift, runs the whole repair inside the same step; the
verdict closes the execution. A request or an MCP tool claims a research run and submits
its executor to a thread; the executor calls the research engine, then (investigations)
the web phases, and closes the run. Both kinds of run plan their searches before they
contact a provider. What a collection ingested is what the listing and the dashboard
read, unless an incident of its collector is open. Everything else is shared rows.

## 2. Modules

| module | models | state and steps |
|---|---|---|
| `Healing` | RecallGuard, healing, evaluate-and-heal, a run's start and end | incident rows, provider job, workers with the row each has loaded |
| `HealingHistory` | Healing with what it takes to say how far its promises go when invocations overlap | two history variables: a second decision while one is under way; incidents an invocation died over |
| `IncidentLifecycle` | the abstract reliability state of a collector | healthy, degraded, in repair, manual review, contended; attempts; proof |
| `PipelineExecutor` | the executor, its drivers, scheduled jobs, collection stages | executions, provider jobs, collector runs, drivers |
| `ExecutorHistory` | PipelineExecutor with what it takes to say what several drivers of one execution leave of its promises | two history variables: executions two drivers held at once, and those they held before either knew of a job |
| `ExecutionContract` | the abstract contract of an execution | none, claimed, collecting, decided; its one collection; who holds it |
| `ResearchRuns` | claim, execution and ageing out of investigation and enrichment runs | subject, runs, executors, requests |
| `ResearchSearches` | one research pass: threads, caller, ingestion, closing | shared executions, threads, caller |
| `WebDiscovery` | the web phases of overlapping runs of one investigation | per run: stage, candidates, uncommitted rows; committed rows and phases |
| `SignalIntake` | completing a run, ingesting its dataset, and the reads that show what is trusted | runs, datasets, signals, workers with what they flushed, incidents, one reader |
| `SearchVocabulary` | the tables the searches are made from | none: constants of the code |
| `SearchPlans` | planning, judging and handing over the searches of a run | subject, stage, plans, what was bought |
| `*_proofs` | theorems of the modules above | - |
| `MC*` | instances for TLC | - |

An action ends where other processes can see a difference: at a commit, at a provider
call, or at a read whose result is used after others may have written.

**Healing.** A worker is one invocation of the pipeline. `seen` is the row its session
loaded last. SQLAlchemy writes only the columns whose value changed, so a commit is
`Merge(row in the database, row loaded, row wanted)`: a worker with an old copy
overwrites exactly what it changed, and the evidence document always. Time is counted in
collections: a timestamp is the number of runs started before it, which is all that
`started_at > detected_at` tells apart. Statements of one function between which nothing
can be told apart are one action (the checks of a run and the SELECT of the incident).
The provider's job may move on its own, its status may be unreadable, a request that
raises may have been accepted. `claim` is the execution that a dead process left behind,
or is still judging under, and which another invocation resumes; only polling one run
from two processes is left to `SignalIntake`, whose subject it is. `Dies` chooses
whether workers die. Of the evidence document, the model keeps what later steps read or
properties speak of. The two commits of `escalate` are one step: the second adds an
event that nothing reads.

Nothing in the code keeps two invocations from deciding about one collector at once:
`daily_pipeline.py` runs without a claim, and a resumed execution may overlap its
original. The actions allow it, for any number of workers. `HealingHistory` records it:
`overlapped` is set once two workers are between the SELECT of the open incident and
their verdict (`Deciding`), and the promises that need one decision at a time are made
until then. Everything else may overlap: collecting, waiting to be judged, finding a run
healthy, reporting, and taking up what another left behind. `orphaned` are the incidents
in flight whose invocation died over them, which is the one way out of a repair that
hands nothing back.

**PipelineExecutor.** `seen` is again the driver's loaded row; `session.get` answers
from the identity map, so a step after a sleep is chosen from it. Both unique indexes
can refuse an INSERT, and the one on active executions an UPDATE. `provider_job_id` and
`collector_run_id` are recorded together, as in the code. What RecallGuard decides is a
nondeterministic verdict here (it is Healing's subject). Two SELECTs in a row are one. A
daily refresh that joins an execution claimed under another key records its own key
nowhere, as in the code. Any number of drivers may have the same execution: nothing in
the code claims it for one. `ExecutorHistory` records what matters of that. `shared` are
the executions two drivers ever held at once; of these the row may be decided by one and
opened again by the stale copy of the other, about the same collection. `raced` are
those two held at once while neither's copy had a provider job: both may trigger (run
`executor_two_jobs`), and the docstring's first invariant is lost. Every other execution
keeps it, shared or not.

**ResearchRuns.** One module for both tables, the kind of subject chosen in `Init`.
The executor never reads the status it writes over. Reconciliation is two steps, the
SELECT of the stale runs and the UPDATE, because the second does not look again. A
request reads its investigation as it begins and SQLAlchemy writes only what differs
from that, so a request that found READY (or FAILED) and means to write the same writes
nothing (`agrees`); the reads at its beginning are one step with the SELECT. An
executor's write of the mirror always lands: what its session holds differs from what it
writes, unless the executor of an earlier run outlived it.
`outlived` is a history variable: the runs somebody still attended to when they became
stale; the properties except those runs.
Executors may hang: nothing is assumed of them. Of the progress columns only one effect
is kept: a progress write commits the searches the engine had only flushed. An
investigation that loses a claim race raises at its flush; an enrichment looks again.

**ResearchSearches.** A thread and the caller share the execution of a query and
access it one attribute at a time; an action is what lies between two accesses the
other could tell apart. A search abandoned at the end of the budget is not stopped: it
goes on writing. Waking up to publish progress is left out (it reads), and submitting
the three searches is the initial state. A database error while ingesting leaves the
run active (`Break`), to be aged out by `ResearchRuns`.

**WebDiscovery.** Several runs of one investigation are in their web phases at once
when an executor outlived its run (`ResearchRuns`). The searches of a run share nothing
and the pool joins them, so they are one step; a timed-out search and a failed one
count alike. The verdict on a page is abstracted to whose it is. `written` are the rows
flushed and not committed: locked for others, invisible to them (READ COMMITTED). A
second writer of such a row waits; when the first commits, an INSERT is refused and the
whole transaction is rolled back; a cycle of waits is broken by the database. Within a
family the order of the candidates is arbitrary (it is the rank order of that run's
searches); demand comes before competitors.

**SignalIntake.** A worker completes a run it opened or resumed: it polls, fetches the
dataset, goes through its records one by one and finalises. A record is its identity, or
one that ingestion refuses, and a dataset may violate the source's contract as a whole;
normalising text, URLs and timestamps is abstracted to that. A key that is flushed and not
committed (`pending`) is invisible to the SELECT of others and makes their INSERT wait;
when its transaction commits, theirs is refused inside the SAVEPOINT and counted as a
duplicate (`Collide`), and a cycle of waits is broken by the database (`Deadlock`). The
run row is updated by primary key, without looking at the status it overwrites. `shared`
is a history variable: the runs two processes ever held at once, which nothing in
`resume_collection` prevents; two properties except them, and section 5 says what they
do. The reader is one dashboard: two counts of incidents, then the check of trust, then
the listing, each a statement of its own (READ COMMITTED). Incidents are reduced to the
number of the one open for a collector; how they open and close is `Healing`'s.

**SearchPlans.** A query is the sequence of its words, since `normalize_query` leaves
lower case and single spaces and every measure of the gate is over words, except the cap
on characters, which `Chars` counts. The tables are the code's, entry by entry, in
`SearchVocabulary`. A plan is made from the tables, judged, and only if refused asked of
a model, whose answer is cleaned and judged again; an investigation then does the same
for its two families of web searches. Which models are wired is part of the subject: in
production there is a research model when there is an API key, never a web model, and
none for an opportunity. The floating-point threshold of the near-duplicate measure is
compared in integers.

An industry is looked up whole, as it is spelled; one spelled with other separators than
the table's ("Real-Estate", a doubled space) carries an empty word, which no filter
keeps, and is looked up word by word, as in the code. A web model that raises ends the
run.

**Abstract specifications.** `Healing` is checked and proved to implement
`IncidentLifecycle`, and `PipelineExecutor` to implement `ExecutionContract`. The first
says what each move of a collector costs and needs, until two decisions overlap: then
the collector is `contended`, of which nothing is promised. The second says that an
execution is claimed alone, gets at most one collection, that is nobody else's and never
changes, and is decided once; that one which several drivers share keeps its collection
and may be reopened, unless another execution is open by then; and that one they raced
for may wander among collections of its own. Both refinements are of the whole system,
with any number of workers or drivers.

## 3. Runs

| run | question | instance | states |
|---|---|---|---|
| `healing_repairs` | the incident invariants, the action properties and the refinement, with two processes that may die anywhere, up to the first overlap of two decisions | 2 workers, 2 attempts, 3 collections, 2 incidents; workers symmetric | 1.09 M |
| `healing_live` | does every invocation return? | 1 worker that does not die, 3 incidents, every outcome | 31 k |
| `healing_drift_closed_by_retry` | *violated*: drift needs a repair | as above | - |
| `executor_race` | one job each, nothing given up, and the contract, with two processes racing, also for one execution | 2 drivers, 2 executions, 2 jobs, 1 day, 1 fault; drivers symmetric | 1.13 M |
| `executor_resume` | everything decided, across days and deaths | 1 driver, 2 days, 2 executions, 2 faults | 185 k |
| `executor_two_jobs` | *violated*: one provider job, whoever drives (`OneJobPerExecution`) | 2 drivers, 1 execution | - |
| `research_runs` | claims, executors and ageing out interleaved | 2 requests, 2 runs, both kinds, 1 fault | 605 k |
| `research_dead_end` | *violated*: what is retryable is retried | 1 request, 2 runs | - |
| `research_searches` | threads against the caller | 3 queries, as in the code | 634 k |
| `web_discovery` | two overlapping runs storing and reporting | 2 runs; demand: 2 searches, 2 pages; competitors: 1 search, 1 page; runs symmetric | 1.34 M |
| `signal_intake` | two processes ingesting what overlaps, while a reader counts and lists | 2 workers, 1 collector, 2 runs, 2 keys, datasets of up to 2 records, 2 incidents, 1 fault; workers, runs and keys symmetric | 1.91 M |
| `search_plans` | every plan the tables can make, and what happens to the others | 48 k subjects' stages (below), 50 characters | 49 k |

What the properties say, by hazard:

- *An incident is closed by the wrong evidence.* `RecoveredByFreshRun`,
  `DriftVerifiedByRepair`, `TrustedIsProven`; that a closed incident stays closed is part
  of `ImplementsLifecycle`.
- *The provider is paid or commanded wrongly.* `TriggersWithinBudget` counts the
  requests sent, not the column; `NoTriggerOnLiveRepair`; `ApprovesWhatItReviewed`:
  the approval names a collector, and the gate it opens is that of the previewed job.
- *Work is lost or stuck.* `InFlightIsDriven`, `InvocationReturns`, `JobNotAbandoned`,
  `EveryClaimDecided`, `NeverBlocked`, `CallerReturns`, `ResearchIsKept`.
- *Work is done twice.* `OneActiveIncident`, `OneProviderJob`, `OneSpender`; one active
  execution, and one collection each, of the executions that are not raced for, are part
  of `ImplementsContract`.
- *A late writer changes what is over.* `EndedIsFinal`, `DataBehindStatus`,
  `PunctualIsReported`; `MirrorsTheLatest`: what late requests may still make of the
  status that an investigation shows.
- *What is reported is not what happened.* `VerdictFollowsResults`,
  `ReportedAsStored`, `EvidenceHasProvenance`, `ReportedAsIngested`.
- *What is shown cannot be trusted.* `SignalsAreVouched`: a stored signal comes from a
  dataset none of which was refused, by a run that succeeded; `ListedIsTrusted`: what is
  listed next to a check of trust made earlier; `ActiveCountCoversActive`: the two
  statements of a count hide no open incident.
- *The wrong searches are bought.* `GatedBeforeBought`, `ThreeDifferentSearches`, which
  is nobody's check: it follows from how angles, terms and the cleaning of an answer work
  together; `KnownWordingIsServed` and `TemplatesServeTheRest` bound the cases where the
  tables are not enough.

**Bounds, and why they are enough.** Two attempts reach a spent budget with one attempt
that is repeated (the code allows 3; the proofs cover any number). Three collections are
the failing one, a second failure or a plain retry, and a verifying one; two incidents
in `healing_repairs` let a second be closed after a first (its failing run is judged
again after a crash), which the lifecycle's `proof' # proof` needs, and three in the
other Healing runs take that bound out of the way of `InvocationReturns`. Of the
outcomes, `healing_repairs` uses clean, drift and outage, which reach the three
recommendations that lead somewhere; `healing_live` uses all five. A bound is always a
failing insert or trigger, or a collection that is not started, never a step that the
program must take and cannot. Two executions over one or two days are an old one and a
new one; two faults let a process die, and die again when it resumes. Two research runs
are a run and the one that supersedes it, two requests a race. Three queries are the
code's. In `web_discovery` two runs that share two pages reach a conflict, a wait and a
deadlock, and the third candidate makes the order of the families matter; a page found
by a family of one search is enough to make `partial` and `failed` reachable (demand)
next to `complete`. In `signal_intake` two keys and datasets of two records give
duplicates inside a dataset, across datasets and across processes, and two workers that
insert two keys in opposite orders deadlock; a second incident lets one open after
another has recovered between the statements of the reader. The subjects of
`search_plans` are: every pair of entries of the lexicon by one word of each; the
entries whose terms share words, in every industry and in some that are in no table;
wording in no table; and every triple of a pool with the words of the templates, those
the filters drop and others. The cap of 50 characters, for the code's 256, is passed by
a topic of a few words.

Two constraints cut what the two-process runs explore further. In `healing_repairs` a
behaviour ends at the first overlap, where the promises it checks end too (what holds
beyond, `TypeOK`, `RecoveredByFreshRun` and `TrustedIsProven`, is proved without that
limit), and the last of the three collections is one that an invocation starts while the
other is idle and has not previewed the job. In `executor_race` it is the first execution
that drivers share, beside which another may then be claimed and not driven; after a race
nobody dies and no second execution is claimed.

**Promises made of one decision at a time.** `OneActiveIncident`,
`DriftVerifiedByRepair`, `TriggersWithinBudget`, `InFlightIsDriven`,
`NoTriggerOnLiveRepair`, `ApprovesWhatItReviewed` and the lifecycle are stated until two
decisions have overlapped (`overlapped`), because the code keeps them no longer.
`active_incident` is a SELECT followed by an INSERT with no index behind it: two
invocations that judge two failing runs at once both insert. Two that decide about the
same row count the same attempt, request and pay for two repairs, replace the job between
the other's preview and its approval, and overwrite each other's evidence. The executor's
index keeps invocations under a claim apart; `jobs/daily_pipeline.py` runs without one,
and a resumption may overlap what it resumes. `RecoveredByFreshRun` and
`TrustedIsProven` carry no such limit.

**Deadlock.** `CHECK_DEADLOCK FALSE` is in the Healing runs (all collections used up),
`research_searches` (one pass, which ends) and `web_discovery` (every run closed or
dead). The executor, the research runs, ingestion and planning are checked for deadlock.

**Fairness.** `Healing`: weak fairness of a living worker's steps; each wait in
`healing.py` has a local timeout, so the step out of it is always enabled, and nothing
is assumed of the provider. `PipelineExecutor`: weak fairness of a driver's steps and
of the provider completing a collection, strong fairness of the daily refresh, since
cron fires again whatever else runs. `ResearchRuns`: weak fairness of requests in
progress and of time (`Age`), strong fairness of somebody polling, which is when
reconciliation happens; none for executors. `ResearchSearches`: weak fairness of the
caller only, whose waiting ends with the budget; threads may never return.
`WebDiscovery` claims no liveness: its pool waits for its searches, whose clients have
timeouts outside the module. Nor do `SignalIntake` (a process may hold its rows for ever;
the wait on them has no limit in the code) and `SearchPlans` (a straight line).

## 4. Proofs

TLAPS checks every theorem; no proof step is left out. The configurations check the
same formulas first on small instances.

| module | theorem | for |
|---|---|---|
| `Healing_proofs` | `TypeCorrect`, `RecoveryIsProven` (`RecoveredByFreshRun`), `TrustIsProven` (`TrustedIsProven`) | any workers interleaving on the same rows, any budget and bounds, deaths included |
| `HealingHistory_proofs` | `OneIncidentIsOpen` (`OneActiveIncident`), `DriftIsRepaired`, `BudgetIsKept`, `RepairsAreHandedBack` (`InFlightIsDriven`), `LiveRepairsAreRejoined`, `ApprovalsAreReviewed`, `LifecycleImplemented` (the refinement) | any workers, budget and bounds, deaths included; what each says of the time after an overlap is in the property |
| `PipelineExecutor_proofs` | `TypeCorrect`, `ExecutionsAreExclusive` | any drivers, also several on one execution |
| | `JobsAreTriggeredOnce` (`OneProviderJob`), `CollectionsAreKept` (`JobNotAbandoned`), `VerdictsAreEarned` (`CompletedIsCollected`), `ContractImplemented` (the refinement) | the same; the first three except the executions in `raced`, the refinement nothing |
| `ResearchRuns_proofs` | `TypeCorrect`, `RunsAreExclusive`, `ClaimsLaunchOnce`, `SpendingIsExclusive`, `MirrorIsHonest` (`MirrorsTheLatest`), `VerdictsAreFinal`, `ResearchSurvives` | any requests, runs, faults, both kinds |
| `ResearchSearches_proofs` | `TypeCorrect`, `StatusComesLast`, `PunctualSearchesCount`, `VerdictsFollowResults` | any number of queries |
| `WebDiscovery_proofs` | `TypeCorrect`, `EvidenceIsTraceable`, `ReportsAreTrue` | any overlapping runs, pages, planned searches |
| `SignalIntake_proofs` | `TypeCorrect`, `Vouched`, `Reported`, `CountCovers`, `ListingTrusted` | any workers, runs, keys, collectors, datasets, incidents and faults |
| `SearchPlans_proofs` | `PlansAreGated` (`GatedBeforeBought`), `PlansAreTyped`, `ThreeSearchesDiffer`, `KnownWordingGetsItsPlan` (`KnownWordingIsServed`), `TemplatesAreEnough` (`TemplatesServeTheRest`) | any subjects, any answers of the models, any cap |

Arguments:

- *Healing.* `RecoveredByFreshRun` is not inductive: a worker may hold a row older than
  the database's. The invariant relates the two (`Loaded`): the columns no UPDATE
  touches agree, and a proof or a registered candidate once seen is never unseen. It
  also says that every named proof is a clean run newer than the incident, whatever the
  status (`GoodRow`), and that no two workers finish the same run (`RunsAreOwned`), so a
  clean run stays clean. Each commit preserves `GoodRow` of the merged row, column by
  column. For `TrustedIsProven`, `TInv` adds that no incident was ever opened for a
  clean run, and that the run a worker is about to report is one it has seen pass.
- *HealingHistory.* `HInv` says that until two decisions overlap (`Orderly`) the row a
  worker holds is the row in the database, at the point of its repair that its program
  counter tells (`InHand`): which status it has, that the attempt it drives is the one
  counted, when its candidate was registered, that the fresh run is newer, and where the
  provider's job stands while the worker relies on it. Workers that do not decide hold no
  incident. `InOrder` says that incidents follow one another, each proof older than the
  next incident, which gives `OneActiveIncident` and, in the refinement,
  `proof' # proof`. When nobody is in a repair, whatever is in flight is orphaned
  (`Custody`). A step that makes two decisions overlap has nothing more to keep; every
  other is a step of the one worker that decides, or of one that only collects, judges a
  healthy run or reports. Each action of the former is proved to keep `AInv` and to move
  the open row in one of seven ways (`Changes`) or to open one (`Opens`); those are the
  steps of `IncidentLifecycle`. That `begin_validation` never refuses the fresh run, which
  would leave an incident in flight, is part of it.
- *PipelineExecutor.* `OneActiveExecution` follows from the index once every commit is
  shown to pass through `Refused`. The rest is said of each execution outside `raced`
  (`Orderly`), whoever drives it. There is at most one driver of it with a copy that has
  no job, since two would race; that driver's copy is the row (`Aware`), so while it is
  about to trigger there is no job of the execution (`InTouch`), and what it triggered is
  known to nobody but itself until it records it (`Unrecorded`). Once a job is recorded,
  every driver's copy has it (`Settled`, `Aware`), and nobody triggers from such a copy.
  Of an execution never shared the copy is the row and open (`UpToDate`); of a shared one
  the copy may be stale in its status only, and a verdict from it still needs a run that
  is finished (`GoodRow`). The refinement is step by step on top of it; of an execution
  in `raced` it needs only that the index holds and that a job is nobody else's
  (`JobsGood`).
- *ResearchRuns.* A run is attended by one party: the request that claimed it or its
  executor (`GoodRun`, `GoodRequest`, `ClaimsAreOwned`), unless it is in `outlived`. An
  ended run outside `outlived` has nobody left to write it. The mirror has an invariant
  on top of this one (`MirrorInv`): runs are inserted in order and the one in flight is
  the latest (`InOrder`), so who attends to a run writes the mirror of the latest; and a
  session that will leave the mirror as it is found it after a run, and still FAILED if
  what it is about to fail is in flight (`GoodHold`).
- *ResearchSearches.* `Written` says how far each thread has written its execution,
  `LeftAlone` that nothing writes one that is punctual, `Reported` how far the caller
  has got.
- *WebDiscovery.* `IInv` ties what a run holds in memory to its stage, and every page
  in hand to a search that found it, so a commit brings the search with the verdict.
  For the reports, `CountedOnce` says during the judgement that judged plus remaining
  candidates are at most the pages found, and accepted at most the rows kept, which are
  disjoint from the remaining; the commit turns it into `CountedAsStored`, and
  `OthersReport` shows that other runs only ever add evidence rows.

- *SignalIntake.* `IInv` says what a worker's counters are at each record
  (`Accounted`: the accepted ones are its flushed keys, and together they are the records
  behind it), that a flushed key is in one transaction and not yet stored (`Apart`), and
  that a run held by one worker is RUNNING (`Sole`). `CountCovers` needs that the rows
  are those recovered and those open (`Counted`); `ListingTrusted` that an incident
  opened since the check has a larger number than any the check saw (`Checked`).
- *SearchPlans.* `PlansAreGated`: each stage keeps the plan that the last judgement
  accepted; the tables do not matter. The others rest on what the recursive helpers
  return: a list of some positions of another, in its order (`AtSound`, `SiftSound`), by
  a first-order induction (`Induction`) taken from the well-foundedness of the naturals.
  `ThreeSearchesDiffer` follows, since queries of the same words are near duplicates.
  `TemplatesAreEnough`: two templates share the topic's words only, of which there are
  three at most, and 10 x 3 < 8 x 4; the cap is compared with the longest template, word
  by word (`CharsJoined`). `WebInv` says that a run is refused only before it has its
  families, which needs the three searches of `ResearchInv`.
  `KnownWordingGetsItsPlan`: near duplicates of at most six words differ in one word
  (`NearIsClose`), so no kept query is near two candidates that differ in three
  (`FarFromOneAnother`), and three such candidates always leave three queries
  (`ThreeAreFound`). They are the three angles of the first term, or, as a term repeats
  one angle at most, two of them and the optimization of the second term, or the two
  terms together.

Assumptions: those on the constants, named in the modules and evaluated by TLC, and no
others: no theorem assumes anything of how many processes there are, of how they
interleave or of whether they die. No fairness is used.
Those of `SearchPlans` also say what the tables hold, which the provers do not read:
`WordsAssumption` (entries are texts, and no filter drops a word of the lexicon),
`TermsAssumption` (terms are two or three words; what they share with the methods and
with each other) and `LengthsAssumption` (characters of the templates' words). TLC
evaluates them over every entry of the code's tables, so they are facts of the code, not
of an instance; a new entry that breaks one makes the run fail.

Model-checked only: liveness (the prover does not do fairness). Every invariant, action
property and refinement that a run checks and finds to hold is proved.

## 5. Where the code does otherwise than it says

The first three are runs that end in a counterexample; the others were met while
modelling, and the models contain the behaviour.

1. *Drift closed by a retry.* `verify_retry_recovery` looks at the current diagnosis,
   and a later outage replaces a diagnosis of drift. Drift, outage, clean run: closed
   with no repair. (`healing_drift_closed_by_retry`)
2. *Two provider jobs for one execution* when a resume pass picks up an execution that
   the API has queued and not begun. (`executor_two_jobs`; `raced` in the other
   properties)
3. *A failed enrichment that cannot be retried*: its searches were committed, so every
   later request is told it is already enriched. (`research_dead_end`)
4. *Wording the tables know, sent to the model.* An industry without an entry gives
   "{word} systems" for each of its words, "systems" included: for "customer churn" in
   "IT systems" the terms are "customer behaviour modelling" and "systems systems", of
   whose six candidates two can be kept. The plan is refused although the lexicon knows
   the problem, and the run fails where no model is wired, although `enrichment.py:195`
   reaches the model "only for the problems whose wording matched no research
   vocabulary". `KnownWordingIsServed` excepts such industries and nothing else; without
   its second disjunct TLC finds such a subject in `search_plans`.
5. *A timed-out repair is paid for again* when its deployment finishes before the next
   invocation looks: it reads as done, which is not "active".
6. *A run taken for dead at 900 s writes its verdict later*, over its own row and over
   the status of an investigation whose latest run is another (the exception `outlived`
   of `EndedIsFinal`).
7. *A run completed by two processes may end FAILED and leave its signals*: one commits
   its success, the other then writes its failure over that row. `_finalize_failure` says
   a failed run leaves no trace in the signals table, and rolls back its own session only
   (the exception `shared` of `SignalsAreVouched`).
8. *Two open incidents, an attempt counted once and paid for twice, an approval of a job
   nobody previewed*: with two invocations that decide at once (section 3, `overlapped`).
9. *A web page that a later run judges irrelevant keeps its evidence row*: only accepted
   verdicts are written (`Dismiss`).
10. *A classifier that answers nothing reads as a complete phase with nothing judged*:
   `from_result` drops `classification_failures`.
11. *Queries for competitors may read as complaints*: a comment of `planning.py` says
    they must not, and `validate_web_family` asks only for a word of their own family.
12. *A model's queries are told apart only by their exact set of words*
    (`_clean_queries`), not by the near-duplicate measure that the tables' queries are
    selected by.
13. *An opportunity that no table serves fails as if a model had been asked*: the
    docstring of `ResearchPlanUnavailableError` says "the fallback has already been
    asked", and no route wires one for an opportunity, nor for an investigation when
    there is no API key.
14. *An investigation may read FAILED after a success.* The docstring of `set_run_status`
    (`investigations/runs.py:77`) says that the status equals the mapping of the latest
    run's "at every commit boundary". Two requests select the same stale run, one ages
    it out and claims another, and the second then writes FAILED over the mirror of that
    one, however far it has got; and a claim by a session that read READY before the
    earlier run ended leaves the mirror of that run's verdict until the new run begins.
    `MirrorsTheLatest` is what is left of the docstring's invariant.

Hazards known and left without a property, with the reason:

- A death between the commit that closes an incident and the one that records the
  execution's verdict (`executor.py:566`): the two rows are in two modules, and a resumed
  execution judges its run again, which `Healing` allows (`Resume`).
- A daily refresh that resumes, times out, joins what it resumed under another key and is
  fired again that day (`daily_refresh.py:205`): `EveryClaimDecided` covers the
  executions; nothing in the code promises one refresh a day.
- The flush of an investigation's claim outside the `try` (`runs.py:142`): the request
  fails instead of answering, which `ResearchRuns` contains; no row is affected.
- Two invocations that both open an incident (`service.py:200`, item 8) and two processes
  that complete one run (`collection/service.py`, item 7): the code allows both, the
  models contain both, and the properties except what follows from them.
- Items 9 and 10 above (`web_intelligence.py:275`, `progress.py:97`).

## 6. Not modelled, and why

- Ranking of papers, prompts, the content of a classifier's verdict, relevance and
  opportunity scores (floats over payloads), URL canonicalisation, parsing and error
  texts: data, whose outcomes the models choose freely.
- The wire formats, the other read services, CLI and frontend: no state.
- `recallguard/demo.py` and `live_evidence.py`: demonstration scripts over the services
  that `Healing` models.
- `scripts/reopen_stranded_incident.py` and the other operator scripts: they are what a
  person does after the automatic lifecycle has stopped.
- The mixture of two verdicts: SQLAlchemy updates only the columns that differ from the
  row selected, so a run that waited for another's commit may leave the reason of one
  verdict next to the classification of another. It needs three runs on one page and a
  verdict of two columns; the model's verdict is whole.
- A progress write that is lost leaves the row at its previous phase; the write that
  closes the run repeats it (`Start`, `Report`, `Close` have both outcomes).

## 7. Plan

Done, in this order: `Healing` with `HealingHistory` and `IncidentLifecycle`,
`PipelineExecutor` with `ExecutorHistory` and `ExecutionContract`, `ResearchRuns`,
`ResearchSearches`, `WebDiscovery`, `SignalIntake`, `SearchPlans`, each with its proofs.

Left:

1. The web verdict as two columns, with three runs, for the mixture in section 6 and for
   a page re-judged irrelevant.
2. The commit that closes an incident and the one that records the execution's verdict in
   one module, for a death in between.
