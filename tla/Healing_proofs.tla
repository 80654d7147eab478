---------------------------- MODULE Healing_proofs ----------------------------
(***************************************************************************)
(* Proofs about Healing, for every set of workers, every budget and every  *)
(* number of runs and incidents: the type invariant, that an incident is   *)
(* closed only by a clean run newer than the failure it closes, and that a *)
(* run is reported as trusted only when it is clean itself or the proof of *)
(* an incident it opened.  No fairness is used, and the workers' commits   *)
(* may interleave in any order.                                            *)
(***************************************************************************)
EXTENDS Healing, TLAPS

-----------------------------------------------------------------------------
(* The inductive invariant.                                                *)

\* What every row of reliability_incidents satisfies, in any status: a run it
\* names as its proof is one, a closed row names one, and a repair candidate
\* was registered no earlier than the failure was detected.
GoodRow(row) ==
    /\ row.verRun # 0 => ProvenByFreshRun(row) /\ row.verRun <= started
    /\ row.status = "recovered" => row.verRun # 0
    /\ row.detRun <= row.detectedAt
    /\ row.detectedAt <= started
    /\ row.evidence.registered # 0 => row.evidence.registered >= row.detectedAt

\* The pcs at which a worker handles an incident, and at which its fresh run
\* has been triggered.
Handling == PC \ {"idle", "collecting", "judging", "recording", "reporting"}
Proving == {"collecting_proof", "proof_failed", "verifying", "verdict"}

\* How the row a worker loaded is related to the row in the database now: the
\* columns no UPDATE touches agree, and what it loaded may be older otherwise.
Loaded(seen, row) ==
    /\ seen.status # "absent"
    /\ row.status # "absent"
    /\ seen.detectedAt = row.detectedAt
    /\ seen.detRun = row.detRun
    /\ seen.verRun # 0 => row.verRun # 0
    /\ seen.evidence.registered # 0
           => seen.evidence.registered >= seen.detectedAt

\* rows: the table, now or after a step.
GoodProc(p, rows) ==
    /\ p \in Proc
    /\ p.pc # "idle" => p.run \in 1 .. started
    /\ p.pc \in Proving => p.proof \in 1 .. started
    /\ p.pc \in Handling => p.inc # 0
    /\ p.inc # 0 => Loaded(p.seen, rows[p.inc])
    /\ p.pc = "collecting" => runs[p.run] = "running"
    /\ p.pc = "collecting_proof" => runs[p.proof] = "running"
    /\ p.pc = "retrying" => runs[p.run] = "clean"
    /\ p.pc = "verdict" => p.proof > p.seen.detectedAt

\* Worker p is waiting for run r to end.
Collects(p, r) == \/ p.pc = "collecting" /\ p.run = r
                  \/ p.pc = "collecting_proof" /\ p.proof = r

\* No two workers finish the same run, and no execution claims a proof.
RunsAreOwned ==
    /\ \A v, w \in Worker : \A r \in Run :
          Collects(proc[v], r) /\ Collects(proc[w], r) => v = w
    /\ \A w \in Worker : proc[w].pc = "collecting_proof" => proc[w].proof # claim

IInv ==
    /\ TypeOK
    /\ claim <= started
    /\ \A i \in Incident : GoodRow(incidents[i])
    /\ \A w \in Worker : GoodProc(proc[w], incidents)
    /\ RunsAreOwned

-----------------------------------------------------------------------------
(* Lemmas about one commit.                                                *)

\* The rows, and the process records, built by the constants of Healing.
LEMMA Constants ==
    /\ NoRow \in Row
    /\ Rest \in Proc
    /\ \A o : Classification(o) \in Class /\ Recommended(o) \in Action
<1>1. NoRow \in Row
  BY HealingAssumption DEF NoRow, Row, NoEvidence, Evidence, Status, Active,
     Lifecycle, Class, Action, Stamp
<1>2. Rest \in Proc
  BY <1>1, HealingAssumption DEF Rest, Proc, PC, Stamp
<1>3. \A o : Classification(o) \in Class /\ Recommended(o) \in Action
  BY DEF Classification, Recommended, Class, Action
<1>4. QED
  BY <1>1, <1>2, <1>3

\* What Continue makes of a worker: healing's locals end with "reporting".
LEMMA ContinueKeeps ==
    ASSUME NEW p \in Proc, NEW next \in PC
    PROVE  /\ Continue(p, next) \in Proc
           /\ Continue(p, next).pc = next
           /\ Continue(p, next).run = p.run
           /\ next = "reporting" => Continue(p, next).inc = 0
           /\ next # "reporting" => /\ Continue(p, next).inc = p.inc
                                    /\ Continue(p, next).seen = p.seen
                                    /\ Continue(p, next).proof = p.proof
<1>1. CASE next = "reporting"
  BY <1>1, Constants DEF Continue, Proc, Rest
<1>2. CASE next # "reporting"
  BY <1>2 DEF Continue, Proc
<1>3. QED
  BY <1>1, <1>2

\* What a worker may write over the row it loaded.
Permitted(old, new) ==
    /\ new \in Row
    /\ new.status # "absent"
    /\ new.status = "recovered" => new.status = old.status \/ new.verRun # 0
    /\ new.verRun # old.verRun => /\ new.verRun \in 1 .. started
                                 /\ runs[new.verRun] = "clean"
                                 /\ new.verRun > old.detectedAt
    /\ new.evidence.registered # 0
           => new.evidence.registered >= old.detectedAt

\* A commit of a permitted change leaves a good row, whatever the other
\* workers committed since the row was loaded; what they hold stays comparable.
LEMMA MergeGood ==
    ASSUME IInv, NEW i \in Incident, NEW old \in Row, NEW new,
           Loaded(old, incidents[i]), Permitted(old, new),
           NEW m, m = Merge(incidents[i], old, new)
    PROVE  /\ m \in Row
           /\ GoodRow(m)
           /\ m.detectedAt = incidents[i].detectedAt
           /\ \A s \in Row : Loaded(s, incidents[i]) => Loaded(s, m)
           /\ Loaded(m, m)
<1> DEFINE db == incidents[i]
<1>1. db \in Row /\ GoodRow(db) /\ new \in Row /\ started \in 0 .. MaxRuns
  BY DEF IInv, TypeOK, Permitted
<1>2. m \in Row
  BY <1>1 DEF Merge, Column, Row
<1>3. /\ m.detectedAt = db.detectedAt
      /\ m.detRun = db.detRun
      /\ m.evidence = new.evidence
      /\ m.status = db.status \/ (m.status = new.status /\ new.status # old.status)
      /\ m.verRun = IF new.verRun = old.verRun THEN db.verRun ELSE new.verRun
  BY <1>1 DEF Merge, Column, Row
<1> HIDE DEF db
<1>4. m.status # "absent"
  BY <1>3 DEF Loaded, Permitted, db
<1>5. db.verRun # 0 => m.verRun # 0
  BY <1>3, <1>1, HealingAssumption DEF Permitted
<1>6. m.status = "recovered" => m.verRun # 0
  <2>1. CASE m.status = db.status
    BY <2>1, <1>5, <1>1 DEF GoodRow
  <2>2. CASE m.status = new.status /\ new.status # old.status
    BY <2>2, <1>3 DEF Loaded, Permitted, db
  <2>3. QED
    BY <2>1, <2>2, <1>3
<1>7. m.verRun # 0 => ProvenByFreshRun(m) /\ m.verRun <= started
  <2>1. CASE new.verRun = old.verRun
    BY <2>1, <1>1, <1>3 DEF GoodRow, ProvenByFreshRun
  <2>2. CASE new.verRun # old.verRun
    <3>1. /\ new.verRun \in 1 .. started
          /\ runs[new.verRun] = "clean"
          /\ new.verRun > db.detectedAt
      BY <2>2 DEF Permitted, Loaded, db
    <3>2. new.verRun \in Run /\ new.verRun <= started
      BY <3>1, <1>1, HealingAssumption DEF Run
    <3>3. QED
      BY <2>2, <3>1, <3>2, <1>1, <1>3 DEF GoodRow, ProvenByFreshRun
  <2>3. QED
    BY <2>1, <2>2
<1>8. m.evidence.registered # 0 => m.evidence.registered >= m.detectedAt
  BY <1>3 DEF Permitted, Loaded, db
<1>9. GoodRow(m)
  BY <1>1, <1>3, <1>6, <1>7, <1>8 DEF GoodRow
<1>10. \A s \in Row : Loaded(s, db) => Loaded(s, m)
  BY <1>3, <1>4, <1>5 DEF Loaded
<1>11. Loaded(m, m)
  BY <1>4, <1>8 DEF Loaded
<1>12. QED
  BY <1>2, <1>3, <1>9, <1>10, <1>11 DEF db

-----------------------------------------------------------------------------
(* Lemmas about one step of one worker.                                    *)

\* What a step does to the rows, seen from the workers: each stays good, and
\* whatever was comparable to it still is.
RowsStepGood ==
    /\ incidents' \in [Incident -> Row]
    /\ \A i \in Incident : GoodRow(incidents'[i])
    /\ \A i \in Incident, s \in Row :
          Loaded(s, incidents[i]) => Loaded(s, incidents'[i])

\* A step of one worker that starts and ends no run keeps the invariant when
\* the rows it leaves and the worker's own record are good.
LEMMA WorkerStep ==
    ASSUME IInv, RowsStepGood, UNCHANGED <<started, runs>>,
           claim' \in {claim, 0}, job' \in Job, posts' \in [Incident -> Nat],
           NEW w \in Worker, NEW p, proc' = [proc EXCEPT ![w] = p],
           GoodProc(p, incidents'), ~ (p.pc \in {"collecting", "collecting_proof"})
    PROVE  IInv'
<1>1. TypeOK'
  <2>1. proc' \in [Worker -> Proc]
    BY DEF IInv, TypeOK, GoodProc
  <2>2. claim' \in Stamp
    BY HealingAssumption DEF IInv, TypeOK, Stamp
  <2>3. QED
    BY <2>1, <2>2 DEF IInv, TypeOK, RowsStepGood
<1>2. (claim <= started)'
  BY DEF IInv, TypeOK
<1>3. (\A i \in Incident : GoodRow(incidents[i]))'
  BY DEF RowsStepGood, GoodRow, ProvenByFreshRun
<1>4. (\A v \in Worker : GoodProc(proc[v], incidents))'
  <2> SUFFICES ASSUME NEW v \in Worker
               PROVE  GoodProc(proc[v], incidents)'
    OBVIOUS
  <2>1. CASE v = w
    BY <2>1 DEF GoodProc, IInv, TypeOK
  <2>2. CASE v # w
    <3>1. proc'[v] = proc[v] /\ GoodProc(proc[v], incidents)
      BY <2>2 DEF IInv, TypeOK
    <3>2. proc[v] \in Proc /\ proc[v].inc \in 0 .. MaxIncidents
          /\ proc[v].seen \in Row
      BY DEF IInv, TypeOK, Proc
    <3>3. proc[v].inc # 0 => Loaded(proc[v].seen, incidents'[proc[v].inc])
      <4>1. proc[v].inc # 0 => proc[v].inc \in Incident
        BY <3>2, HealingAssumption DEF Incident
      <4>2. QED
        BY <3>1, <3>2, <4>1 DEF RowsStepGood, GoodProc
    <3>4. QED
      BY <3>1, <3>3 DEF GoodProc
  <2>3. QED
    BY <2>1, <2>2
<1>5. RunsAreOwned'
  <2>1. \A v \in Worker, r \in Run :
           Collects(proc'[v], r) => v # w /\ proc'[v] = proc[v]
    BY DEF IInv, TypeOK, Collects
  <2>2. \A v \in Worker : proc'[v].pc = "collecting_proof"
           => v # w /\ proc'[v] = proc[v]
    BY DEF IInv, TypeOK
  <2>3. \A v \in Worker : proc[v].pc = "collecting_proof" => proc[v].proof # 0
    BY DEF IInv, GoodProc, Proving, TypeOK
  <2>4. (\A u, v \in Worker : \A r \in Run :
           Collects(proc[u], r) /\ Collects(proc[v], r) => u = v)'
    BY <2>1 DEF IInv, RunsAreOwned, Collects
  <2>5. (\A v \in Worker : proc[v].pc = "collecting_proof"
                               => proc[v].proof # claim)'
    BY <2>2, <2>3 DEF IInv, RunsAreOwned
  <2>6. QED
    BY <2>4, <2>5 DEF RunsAreOwned
<1>6. QED
  BY <1>1, <1>2, <1>3, <1>4, <1>5 DEF IInv

\* The pcs a worker reaches without ending or judging a run.
Onward == PC \ {"idle", "collecting", "collecting_proof", "recording", "retrying",
                "judging"}

\* Rows left alone are good.
LEMMA RowsUnchanged ==
    ASSUME IInv, UNCHANGED incidents
    PROVE  RowsStepGood
BY DEF IInv, TypeOK, RowsStepGood

\* One row replaced by the outcome of a commit.
LEMMA RowsWritten ==
    ASSUME IInv, NEW i \in Incident, NEW old \in Row, NEW new,
           Loaded(old, incidents[i]), Permitted(old, new),
           incidents' = [incidents EXCEPT ![i] = Merge(incidents[i], old, new)]
    PROVE  RowsStepGood
<1> DEFINE m == Merge(incidents[i], old, new)
<1>1. /\ m \in Row
      /\ GoodRow(m)
      /\ \A s \in Row : Loaded(s, incidents[i]) => Loaded(s, m)
  BY MergeGood
<1> HIDE DEF m
<1>2. incidents' = [incidents EXCEPT ![i] = m]
  BY DEF m
<1>3. QED
  BY <1>1, <1>2 DEF IInv, TypeOK, RowsStepGood

\* A worker goes on without a commit.
LEMMA GotoStep ==
    ASSUME IInv, NEW w \in Worker, proc[w].pc # "idle",
           NEW next \in Onward, Goto(w, next),
           next \in Handling => proc[w].inc # 0,
           next \in Proving => /\ proc[w].pc \in Proving
                               /\ next # "verdict",
           UNCHANGED <<started, runs, incidents, claim>>,
           job' \in Job, posts' \in [Incident -> Nat]
    PROVE  IInv'
<1> DEFINE p == Continue(proc[w], next)
<1>1. proc[w] \in Proc /\ next \in PC /\ GoodProc(proc[w], incidents)
  BY DEF IInv, TypeOK, Onward
<1>2. /\ p \in Proc /\ p.pc = next /\ p.run = proc[w].run
      /\ next = "reporting" => p.inc = 0
      /\ next # "reporting" => /\ p.inc = proc[w].inc
                               /\ p.seen = proc[w].seen
                               /\ p.proof = proc[w].proof
  BY <1>1, ContinueKeeps
<1> HIDE DEF p
<1>3. GoodProc(p, incidents')
  BY <1>1, <1>2 DEF GoodProc, Onward, Proving, Handling
<1>4. proc' = [proc EXCEPT ![w] = p]
  BY DEF Goto, p
<1>5. QED
  BY <1>2, <1>3, <1>4, RowsUnchanged, WorkerStep DEF Onward

\* An invocation ended by an exception.
LEMMA RaiseStep ==
    ASSUME IInv, NEW w \in Worker, proc[w].pc # "idle", Raise(w),
           UNCHANGED <<started, runs, claim>>,
           job' \in Job, posts' \in [Incident -> Nat]
    PROVE  IInv'
<1> DEFINE q == [proc[w] EXCEPT !.result = 0]
           p == Continue(q, "reporting")
<1>1. proc[w] \in Proc /\ GoodProc(proc[w], incidents)
  BY DEF IInv, TypeOK
<1>2. q \in Proc /\ q.run = proc[w].run
  BY <1>1, HealingAssumption DEF Proc, Stamp
<1>3. proc' = [proc EXCEPT ![w] = p] /\ UNCHANGED incidents
  BY DEF Raise
<1> HIDE DEF q
<1>4. /\ p \in Proc /\ p.pc = "reporting" /\ p.run = proc[w].run /\ p.inc = 0
  <2>1. "reporting" \in PC
    BY DEF PC
  <2>2. QED
    BY <1>2, <2>1, ContinueKeeps
<1> HIDE DEF p
<1>5. GoodProc(p, incidents')
  BY <1>1, <1>4 DEF GoodProc, Proving, Handling
<1>6. QED
  BY <1>3, <1>4, <1>5, RowsUnchanged, WorkerStep

\* A worker commits a permitted change of the row it loaded, and becomes p.
LEMMA CommitStep ==
    ASSUME IInv, NEW w \in Worker, proc[w].pc # "idle", proc[w].inc # 0,
           NEW old \in Row, NEW new,
           Loaded(old, incidents[proc[w].inc]), Permitted(old, new),
           NEW m, m = Merge(incidents[proc[w].inc], old, new),
           incidents' = [incidents EXCEPT ![proc[w].inc] = m],
           NEW p \in Proc, proc' = [proc EXCEPT ![w] = p],
           p.pc \in Onward, p.run = proc[w].run,
           p.pc = "reporting" => p.inc = 0,
           p.pc # "reporting" => p.inc = proc[w].inc /\ p.seen = m,
           p.pc \in Proving => p.proof \in 1 .. started,
           p.pc = "verdict" => p.proof > old.detectedAt,
           UNCHANGED <<started, runs, claim>>,
           job' \in Job, posts' \in [Incident -> Nat]
    PROVE  IInv'
<1> DEFINE i == proc[w].inc
<1>1. i \in Incident /\ GoodProc(proc[w], incidents)
  BY HealingAssumption DEF IInv, TypeOK, Proc, Incident
<1>2. m \in Row /\ m.detectedAt = old.detectedAt /\ Loaded(m, m)
  BY <1>1, MergeGood DEF Loaded
<1>3. RowsStepGood
  BY <1>1, RowsWritten
<1>4. incidents'[i] = m
  BY <1>1 DEF IInv, TypeOK
<1> HIDE DEF i
<1>5. GoodProc(p, incidents')
  BY <1>1, <1>2, <1>4 DEF GoodProc, Onward, Handling, i
<1>6. QED
  BY <1>3, <1>5, WorkerStep DEF Onward

\* A worker commits a permitted change of the row it loaded, and goes on.
LEMMA WriteStep ==
    ASSUME IInv, NEW w \in Worker, proc[w].pc # "idle", proc[w].inc # 0,
           NEW old \in Row, NEW new, NEW next \in Onward,
           Loaded(old, incidents[proc[w].inc]), Permitted(old, new),
           Write(w, old, new, next),
           next \in Proving => /\ proc[w].pc \in Proving
                               /\ next = "verdict" => proc[w].proof > old.detectedAt,
           UNCHANGED <<started, runs, claim>>,
           job' \in Job, posts' \in [Incident -> Nat]
    PROVE  IInv'
<1> DEFINE i == proc[w].inc
           m == Merge(incidents[i], old, new)
           q == [proc[w] EXCEPT !.seen = m]
           p == Continue(q, next)
<1>1. /\ proc[w] \in Proc /\ next \in PC
      /\ GoodProc(proc[w], incidents)
      /\ i \in Incident
  BY HealingAssumption DEF IInv, TypeOK, Onward, Proc, Incident
<1>2. m \in Row
  BY <1>1, MergeGood
<1>3. incidents' = [incidents EXCEPT ![i] = m]
      /\ proc' = [proc EXCEPT ![w] = p]
  BY DEF Write
<1> HIDE DEF m
<1>4. /\ q \in Proc /\ q.run = proc[w].run /\ q.inc = i /\ q.seen = m
      /\ q.proof = proc[w].proof
  BY <1>1, <1>2 DEF Proc
<1> HIDE DEF q
<1>5. /\ p \in Proc /\ p.pc = next /\ p.run = proc[w].run
      /\ next = "reporting" => p.inc = 0
      /\ next # "reporting" => p.inc = i /\ p.seen = m /\ p.proof = proc[w].proof
  BY <1>1, <1>4, ContinueKeeps
<1> HIDE DEF p
<1>6. /\ p.pc \in Proving => p.proof \in 1 .. started
      /\ p.pc = "verdict" => p.proof > old.detectedAt
  BY <1>1, <1>5 DEF GoodProc, Proving
<1>7. m = Merge(incidents[i], old, new)
  BY DEF m
<1>8. QED
  BY <1>3, <1>5, <1>6, <1>7, CommitStep

\* What a worker that handles an incident holds, and what the row is now.
LEMMA Held ==
    ASSUME IInv, NEW w \in Worker, proc[w].pc \in Handling \/ proc[w].inc # 0
    PROVE  /\ proc[w].inc # 0
           /\ proc[w].inc \in Incident
           /\ Seen(w) \in Row
           /\ Loaded(Seen(w), incidents[proc[w].inc])
           /\ incidents[proc[w].inc] \in Row
           /\ Loaded(incidents[proc[w].inc], incidents[proc[w].inc])
<1>1. proc[w] \in Proc /\ GoodProc(proc[w], incidents)
  BY DEF IInv, TypeOK
<1>2. proc[w].inc # 0 /\ proc[w].inc \in Incident
  BY <1>1, HealingAssumption DEF GoodProc, Proc, Incident
<1>3. incidents[proc[w].inc] \in Row /\ GoodRow(incidents[proc[w].inc])
  BY <1>2 DEF IInv, TypeOK
<1>4. Seen(w) \in Row /\ Loaded(Seen(w), incidents[proc[w].inc])
  BY <1>1, <1>2 DEF GoodProc, Proc, Seen
<1>5. QED
  BY <1>2, <1>3, <1>4 DEF Loaded, GoodRow

\* record_healing_failure, of the row held or of the row as it is now.
LEMMA FailureStep ==
    ASSUME IInv, NEW w \in Worker, proc[w].pc \in Handling,
           NEW row \in {Seen(w), incidents[proc[w].inc]},
           NEW next \in {"reporting", "escalating"},
           RecordFailure(w, row, next),
           UNCHANGED <<started, runs, claim>>,
           job' \in Job, posts' \in [Incident -> Nat]
    PROVE  IInv'
<1>1. proc[w].pc # "idle"
  BY DEF Handling
<1>2. /\ proc[w].inc # 0 /\ row \in Row
      /\ Loaded(row, incidents[proc[w].inc])
  BY Held
<1> DEFINE new == [row EXCEPT !.status = "degraded"]
<1>3. CASE row.status \in Lifecycle
  <2>1. Write(w, row, new, next)
    BY <1>3 DEF RecordFailure
  <2>2. Permitted(row, new)
    <3>1. "degraded" \in Status
      BY DEF Status, Active
    <3>3. new \in Row /\ new.status = "degraded" /\ new.verRun = row.verRun
          /\ new.evidence.registered = row.evidence.registered
      BY <1>2, <3>1 DEF Row
    <3> HIDE DEF new
    <3>4. QED
      BY <1>2, <3>3 DEF Permitted, Loaded
  <2> HIDE DEF new
  <2>3. next \in Onward /\ ~ (next \in Proving)
    BY DEF Onward, Proving, PC
  <2>4. QED
    BY <1>1, <1>2, <2>1, <2>2, <2>3, WriteStep
<1>4. CASE ~ (row.status \in Lifecycle)
  BY <1>1, <1>4, RaiseStep DEF RecordFailure
<1>5. QED
  BY <1>3, <1>4

-----------------------------------------------------------------------------
(* The invariant holds initially and is kept by every action.              *)

\* With no incident and every worker at rest, the invariant holds.
LEMMA InitIInv == Init => IInv
<1> SUFFICES ASSUME Init PROVE IInv
  OBVIOUS
<1>1. TypeOK
  BY Constants, HealingAssumption
     DEF Init, TypeOK, Stamp, RunState, Job, JobState
<1>2. claim <= started
  BY DEF Init
<1>3. \A i \in Incident : GoodRow(incidents[i])
  BY DEF Init, GoodRow, NoRow, NoEvidence
<1>4. \A w \in Worker : GoodProc(proc[w], incidents)
  BY Constants DEF Init, GoodProc, Rest, Handling, Proving
<1>5. RunsAreOwned
  BY DEF Init, RunsAreOwned, Collects, Rest
<1>6. QED
  BY <1>1, <1>2, <1>3, <1>4, <1>5 DEF IInv

\* A collection started by a worker is its own: the number is new.
LEMMA StartRunFresh ==
    ASSUME IInv, StartRun
    PROVE  /\ started' \in 1 .. MaxRuns
           /\ started' = started + 1
           /\ started + 1 \in Run
           /\ runs' \in [Run -> RunState]
           /\ runs'[started + 1] = "running"
           /\ \A r \in 1 .. started : runs'[r] = runs[r]
           /\ \A row \in Row : GoodRow(row) => GoodRow(row)'
           /\ \A p \in Proc : GoodProc(p, incidents) /\ UNCHANGED incidents
                               => GoodProc(p, incidents)'
<1>1. /\ started \in 0 .. MaxRuns /\ started < MaxRuns
      /\ started' = started + 1
      /\ runs' = [runs EXCEPT ![started + 1] = "running"]
      /\ runs \in [Run -> RunState]
      /\ MaxRuns \in Nat
  BY HealingAssumption DEF IInv, TypeOK, StartRun
<1>2. /\ started' \in 1 .. MaxRuns
      /\ started + 1 \in Run
      /\ runs' \in [Run -> RunState]
      /\ runs'[started + 1] = "running"
      /\ \A r \in 1 .. started : r \in Run /\ runs'[r] = runs[r]
  BY <1>1 DEF Run, RunState
<1>3. ASSUME NEW row \in Row, GoodRow(row)
      PROVE  GoodRow(row)'
  <2>1. row.detectedAt <= started => row.detectedAt <= started'
    BY <1>1 DEF Row, Stamp
  <2>2. row.verRun # 0 => ProvenByFreshRun(row)' /\ row.verRun <= started'
    <3>1. SUFFICES ASSUME row.verRun # 0
                   PROVE  ProvenByFreshRun(row)' /\ row.verRun <= started'
      OBVIOUS
    <3>2. row.verRun \in 1 .. started
      BY <3>1, <1>1, <1>3 DEF GoodRow, ProvenByFreshRun, Run
    <3>3. QED
      BY <3>1, <3>2, <1>1, <1>2, <1>3 DEF GoodRow, ProvenByFreshRun
  <2>3. QED
    BY <1>3, <2>1, <2>2 DEF GoodRow
<1>4. ASSUME NEW p \in Proc, GoodProc(p, incidents), UNCHANGED incidents
      PROVE  GoodProc(p, incidents)'
  <2>1. /\ p.pc # "idle" => p.run \in 1 .. started'
        /\ p.pc \in Proving => p.proof \in 1 .. started'
    BY <1>1, <1>4 DEF GoodProc
  <2>2. /\ p.pc = "collecting" => runs'[p.run] = "running"
        /\ p.pc = "collecting_proof" => runs'[p.proof] = "running"
        /\ p.pc = "retrying" => runs'[p.run] = "clean"
    BY <1>2, <1>4 DEF GoodProc, Proving
  <2>3. QED
    BY <1>4, <2>1, <2>2 DEF GoodProc
<1>5. QED
  BY <1>1, <1>2, <1>3, <1>4

\* A worker that starts a collection owns the new run.
LEMMA BeginIInv ==
    ASSUME IInv, NEW w \in Worker, Begin(w)
    PROVE  IInv'
<1> DEFINE p == [Rest EXCEPT !.pc = "collecting", !.run = started + 1]
<1>1. /\ proc[w].pc = "idle" /\ StartRun
      /\ proc' = [proc EXCEPT ![w] = p]
      /\ claim' \in {claim, started + 1}
      /\ UNCHANGED <<incidents, job, posts>>
  BY DEF Begin
<1>2. /\ started' = started + 1 /\ started' \in 1 .. MaxRuns
      /\ started + 1 \in Run
      /\ runs' \in [Run -> RunState] /\ runs'[started + 1] = "running"
      /\ \A row \in Row : GoodRow(row) => GoodRow(row)'
      /\ \A q \in Proc : GoodProc(q, incidents) => GoodProc(q, incidents)'
  BY <1>1, StartRunFresh
<1>3. /\ p \in Proc /\ p.pc = "collecting" /\ p.run = started + 1 /\ p.inc = 0
  <2>1. started + 1 \in Stamp
    BY <1>2, HealingAssumption DEF Stamp, Run
  <2>2. QED
    BY <2>1, Constants DEF Proc, PC, Rest
<1> HIDE DEF p
<1>4. TypeOK'
  BY <1>1, <1>2, <1>3, HealingAssumption DEF IInv, TypeOK, Stamp
<1>5. (claim <= started)'
  BY <1>1, <1>2, HealingAssumption DEF IInv, TypeOK, Stamp
<1>6. (\A i \in Incident : GoodRow(incidents[i]))'
  BY <1>1, <1>2 DEF IInv, TypeOK
<1>7. (\A v \in Worker : GoodProc(proc[v], incidents))'
  <2> SUFFICES ASSUME NEW v \in Worker
               PROVE  GoodProc(proc[v], incidents)'
    OBVIOUS
  <2>1. CASE v = w
    BY <2>1, <1>1, <1>2, <1>3 DEF GoodProc, IInv, TypeOK, Handling, Proving
  <2>2. CASE v # w
    BY <2>2, <1>1, <1>2 DEF IInv, TypeOK
  <2>3. QED
    BY <2>1, <2>2
<1>8. RunsAreOwned'
  <2>1. \A v \in Worker, r \in Run : Collects(proc[v], r) => r <= started
    BY HealingAssumption DEF IInv, GoodProc, Collects, Proving, TypeOK
  <2>2. \A v \in Worker, r \in Run : Collects(proc'[v], r) =>
           \/ v = w /\ r = started + 1
           \/ v # w /\ proc'[v] = proc[v]
    BY <1>1, <1>3 DEF IInv, TypeOK, Collects
  <2>3. (\A u, v \in Worker : \A r \in Run :
           Collects(proc[u], r) /\ Collects(proc[v], r) => u = v)'
    <3> SUFFICES ASSUME NEW u \in Worker, NEW v \in Worker, NEW r \in Run,
                        Collects(proc'[u], r), Collects(proc'[v], r)
                 PROVE  u = v
      BY DEF Collects
    <3>1. CASE r = started + 1
      BY <3>1, <2>1, <2>2, HealingAssumption DEF IInv, TypeOK
    <3>2. CASE r # started + 1
      BY <3>2, <2>2 DEF IInv, RunsAreOwned
    <3>3. QED
      BY <3>1, <3>2
  <2>4. (\A v \in Worker : proc[v].pc = "collecting_proof"
                               => proc[v].proof # claim)'
    BY <1>1, <1>3, HealingAssumption
       DEF IInv, RunsAreOwned, GoodProc, Proving, TypeOK
  <2>5. QED
    BY <2>3, <2>4 DEF RunsAreOwned
<1>9. QED
  BY <1>4, <1>5, <1>6, <1>7, <1>8 DEF IInv

\* A worker that takes up the claimed run owns it: nobody else had it.
LEMMA ResumeIInv ==
    ASSUME IInv, NEW w \in Worker, Resume(w)
    PROVE  IInv'
<1> DEFINE p == [Rest EXCEPT !.pc = IF runs[claim] = "running" THEN "collecting"
                                                              ELSE "judging",
                             !.run = claim]
<1>1. /\ claim # 0
      /\ \A v \in Worker : ~ (proc[v].pc = "collecting" /\ proc[v].run = claim)
      /\ proc' = [proc EXCEPT ![w] = p]
      /\ UNCHANGED <<started, runs, incidents, job, claim, posts>>
  BY DEF Resume
<1>2. claim \in 1 .. started /\ claim \in Stamp
  BY <1>1, HealingAssumption DEF IInv, TypeOK, Stamp
<1>3. /\ p \in Proc /\ p.run = claim /\ p.inc = 0
      /\ p.pc \in {"collecting", "judging"}
      /\ p.pc = "collecting" => runs[claim] = "running"
  BY <1>2, Constants DEF Proc, PC, Rest
<1> HIDE DEF p
<1>4. TypeOK'
  BY <1>1, <1>3 DEF IInv, TypeOK
<1>5. (claim <= started)' /\ (\A i \in Incident : GoodRow(incidents[i]))'
  BY <1>1 DEF IInv, GoodRow, ProvenByFreshRun
<1>6. (\A v \in Worker : GoodProc(proc[v], incidents))'
  <2>1. GoodProc(p, incidents)
    BY <1>2, <1>3 DEF GoodProc, Handling, Proving
  <2>2. \A v \in Worker : GoodProc(proc'[v], incidents)
    BY <2>1, <1>1 DEF IInv, TypeOK
  <2>3. QED
    BY <2>2, <1>1 DEF GoodProc
<1>7. RunsAreOwned'
  <2>1. \A v \in Worker, r \in Run : Collects(proc'[v], r) =>
           \/ v = w /\ r = claim
           \/ v # w /\ Collects(proc[v], r)
    BY <1>1, <1>3 DEF IInv, TypeOK, Collects
  <2>2. \A v \in Worker : ~ Collects(proc[v], claim)
    BY <1>1 DEF IInv, RunsAreOwned, Collects
  <2>3. (\A u, v \in Worker : \A r \in Run :
           Collects(proc[u], r) /\ Collects(proc[v], r) => u = v)'
    <3> SUFFICES ASSUME NEW u \in Worker, NEW v \in Worker, NEW r \in Run,
                        Collects(proc'[u], r), Collects(proc'[v], r)
                 PROVE  u = v
      BY DEF Collects
    <3>1. QED
      BY <2>1, <2>2 DEF IInv, RunsAreOwned
  <2>4. (\A v \in Worker : proc[v].pc = "collecting_proof"
                               => proc[v].proof # claim)'
    BY <1>1, <1>3 DEF IInv, TypeOK, RunsAreOwned
  <2>5. QED
    BY <2>3, <2>4 DEF RunsAreOwned
<1>8. QED
  BY <1>4, <1>5, <1>6, <1>7 DEF IInv

\* The run a worker was collecting ends: nobody else relied on it.
LEMMA RunEnds ==
    ASSUME IInv, NEW w \in Worker, NEW r \in Run, Collects(proc[w], r),
           NEW o \in Outcome, runs' = [runs EXCEPT ![r] = o],
           UNCHANGED <<started, incidents, job, claim, posts>>,
           NEW next \in {"judging", "verifying", "proof_failed"}, Goto(w, next),
           next # "judging" => proc[w].pc = "collecting_proof"
    PROVE  IInv'
<1> DEFINE p == Continue(proc[w], next)
<1>1. /\ runs[r] = "running"
      /\ runs' \in [Run -> RunState]
      /\ \A x \in Run : x # r => runs'[x] = runs[x]
  BY DEF IInv, TypeOK, GoodProc, Collects, RunState
<1>2. proc' = [proc EXCEPT ![w] = p]
  BY DEF Goto
<1>3. proc[w] \in Proc /\ GoodProc(proc[w], incidents)
  BY DEF IInv, TypeOK
<1>4. /\ p \in Proc /\ p.pc = next /\ p.run = proc[w].run
      /\ p.inc = proc[w].inc /\ p.seen = proc[w].seen /\ p.proof = proc[w].proof
  <2>1. next \in PC
    BY DEF PC
  <2>2. QED
    BY <1>3, <2>1, ContinueKeeps
<1> HIDE DEF p
<1>5. TypeOK'
  BY <1>1, <1>2, <1>4 DEF IInv, TypeOK
<1>6. (claim <= started)'
  BY DEF IInv
<1>7. (\A i \in Incident : GoodRow(incidents[i]))'
  BY <1>1 DEF IInv, GoodRow, ProvenByFreshRun
<1>8. \A v \in Worker : v # w => ~ Collects(proc[v], r)
  BY DEF IInv, RunsAreOwned
<1>9. (\A v \in Worker : GoodProc(proc[v], incidents))'
  <2> SUFFICES ASSUME NEW v \in Worker
               PROVE  GoodProc(proc[v], incidents)'
    OBVIOUS
  <2>1. CASE v = w
    <3>1. proc'[v] = p
      BY <2>1, <1>2 DEF IInv, TypeOK
    <3>2. /\ next \in Handling => proc[w].pc \in Handling
          /\ next \in Proving => proc[w].pc \in Proving
          /\ proc[w].pc # "idle"
      BY DEF Handling, Proving, PC, Collects
    <3>3. /\ p.run \in 1 .. started
          /\ p.pc \in Proving => p.proof \in 1 .. started
          /\ p.pc \in Handling => p.inc # 0
          /\ p.inc # 0 => Loaded(p.seen, incidents[p.inc])
      BY <3>2, <1>3, <1>4 DEF GoodProc
    <3>4. QED
      BY <3>1, <3>3, <1>4 DEF GoodProc
  <2>2. CASE v # w
    <3>1. proc'[v] = proc[v] /\ GoodProc(proc[v], incidents)
      BY <2>2, <1>2 DEF IInv, TypeOK
    <3>2. proc[v] \in Proc /\ started \in 0 .. MaxRuns
      BY DEF IInv, TypeOK
    <3>3. /\ proc[v].pc # "idle" => proc[v].run \in Run
          /\ proc[v].pc \in Proving => proc[v].proof \in Run
      BY <3>1, <3>2, HealingAssumption DEF GoodProc, Run
    <3>4. /\ proc[v].pc = "collecting" => runs'[proc[v].run] = "running"
          /\ proc[v].pc = "collecting_proof" => runs'[proc[v].proof] = "running"
          /\ proc[v].pc = "retrying" => runs'[proc[v].run] = "clean"
      BY <3>1, <3>3, <1>1, <1>8, <2>2 DEF GoodProc, Collects, Proving
    <3>5. GoodProc(proc[v], incidents)'
      BY <3>1, <3>4 DEF GoodProc
    <3>6. QED
      BY <3>1, <3>5
  <2>3. QED
    BY <2>1, <2>2
<1>10. RunsAreOwned'
  <2>1. \A v \in Worker, x \in Run :
           Collects(proc'[v], x) => Collects(proc[v], x)
    BY <1>2, <1>4 DEF IInv, TypeOK, Collects
  <2>2. (\A u, v \in Worker : \A x \in Run :
           Collects(proc[u], x) /\ Collects(proc[v], x) => u = v)'
    <3> SUFFICES ASSUME NEW u \in Worker, NEW v \in Worker, NEW x \in Run,
                        Collects(proc'[u], x), Collects(proc'[v], x)
                 PROVE  u = v
      BY DEF Collects
    <3>1. QED
      BY <2>1 DEF IInv, RunsAreOwned
  <2>3. (\A v \in Worker : proc[v].pc = "collecting_proof"
                               => proc[v].proof # claim)'
    BY <1>2, <1>4 DEF IInv, TypeOK, RunsAreOwned
  <2>4. QED
    BY <2>2, <2>3 DEF RunsAreOwned
<1>11. QED
  BY <1>5, <1>6, <1>7, <1>9, <1>10 DEF IInv

\* A collection that ends sets the outcome of its run.
LEMMA CollectionsEndIInv ==
    ASSUME IInv, NEW w \in Worker, FinishCollection(w) \/ FinishProof(w)
    PROVE  IInv'
<1>1. proc[w].pc # "idle" => proc[w].run \in Run
  BY HealingAssumption DEF IInv, TypeOK, GoodProc, Run
<1>2. proc[w].pc = "collecting_proof" => proc[w].proof \in Run
  BY HealingAssumption DEF IInv, TypeOK, GoodProc, Run, Proving
<1>3. Outcomes \subseteq Outcome
  BY OutcomesAssumption DEF Outcome
<1>4. CASE FinishCollection(w)
  <2>1. PICK o \in Outcomes : runs' = [runs EXCEPT ![proc[w].run] = o]
    BY <1>4 DEF FinishCollection
  <2>2. Collects(proc[w], proc[w].run) /\ proc[w].run \in Run
    BY <1>1, <1>4 DEF FinishCollection, Collects
  <2>3. Goto(w, "judging") /\ UNCHANGED <<started, incidents, job, claim, posts>>
    BY <1>4 DEF FinishCollection
  <2>4. QED
    BY <1>3, <2>1, <2>2, <2>3, RunEnds
<1>5. CASE FinishProof(w)
  <2>1. PICK o \in Outcomes :
           /\ runs' = [runs EXCEPT ![proc[w].proof] = o]
           /\ Goto(w, IF o \in Succeeded THEN "verifying" ELSE "proof_failed")
    BY <1>5 DEF FinishProof
  <2>2. Collects(proc[w], proc[w].proof) /\ proc[w].proof \in Run
    BY <1>2, <1>5 DEF FinishProof, Collects
  <2>3. proc[w].pc = "collecting_proof"
        /\ UNCHANGED <<started, incidents, job, claim, posts>>
    BY <1>5 DEF FinishProof
  <2>4. QED
    BY <1>3, <2>1, <2>2, <2>3, RunEnds
<1>6. QED
  BY <1>4, <1>5

\* The fresh run that is to verify a repair.
LEMMA RecollectIInv ==
    ASSUME IInv, NEW w \in Worker, Recollect(w)
    PROVE  IInv'
<1> DEFINE p == [proc[w] EXCEPT !.pc = "collecting_proof", !.proof = started + 1]
<1>1. /\ proc[w].pc = "recollecting" /\ StartRun
      /\ UNCHANGED <<incidents, job, claim, posts>>
      /\ proc[w] \in Proc /\ GoodProc(proc[w], incidents)
  BY DEF Recollect, IInv, TypeOK
<1>2. /\ started' = started + 1 /\ started' \in 1 .. MaxRuns
      /\ started + 1 \in Run
      /\ runs' \in [Run -> RunState] /\ runs'[started + 1] = "running"
      /\ \A row \in Row : GoodRow(row) => GoodRow(row)'
      /\ \A q \in Proc : GoodProc(q, incidents) => GoodProc(q, incidents)'
  BY <1>1, StartRunFresh
<1>3. started + 1 \in Stamp
  BY <1>2, HealingAssumption DEF Stamp, Run
<1>4. proc' = [proc EXCEPT ![w] = p]
  BY <1>1 DEF Recollect, IInv, TypeOK, Proc
<1>5. /\ p \in Proc /\ p.pc = "collecting_proof" /\ p.run = proc[w].run
      /\ p.proof = started + 1 /\ p.inc = proc[w].inc /\ p.seen = proc[w].seen
  BY <1>1, <1>3 DEF Proc, PC
<1> HIDE DEF p
<1>6. TypeOK'
  BY <1>1, <1>2, <1>4, <1>5, HealingAssumption DEF IInv, TypeOK, Stamp
<1>7. (claim <= started)'
  BY <1>1, <1>2, HealingAssumption DEF IInv, TypeOK, Stamp
<1>8. (\A i \in Incident : GoodRow(incidents[i]))'
  BY <1>1, <1>2 DEF IInv, TypeOK
<1>9. (\A v \in Worker : GoodProc(proc[v], incidents))'
  <2> SUFFICES ASSUME NEW v \in Worker
               PROVE  GoodProc(proc[v], incidents)'
    OBVIOUS
  <2>1. CASE v = w
    <3>1. proc'[v] = p /\ proc[w].run \in 1 .. started /\ started \in 0 .. MaxRuns
      BY <2>1, <1>1, <1>4 DEF IInv, TypeOK, GoodProc
    <3>2. proc[w].inc # 0 /\ Loaded(proc[w].seen, incidents[proc[w].inc])
      BY <1>1 DEF GoodProc, Handling, PC
    <3>3. QED
      BY <3>1, <3>2, <1>1, <1>2, <1>5, HealingAssumption DEF GoodProc
  <2>2. CASE v # w
    BY <2>2, <1>2, <1>4 DEF IInv, TypeOK
  <2>3. QED
    BY <2>1, <2>2
<1>10. RunsAreOwned'
  <2>1. \A v \in Worker, r \in Run : Collects(proc[v], r) => r <= started
    BY HealingAssumption DEF IInv, GoodProc, Collects, Proving, TypeOK
  <2>2. \A v \in Worker, r \in Run : Collects(proc'[v], r) =>
           \/ v = w /\ r = started + 1
           \/ v # w /\ Collects(proc[v], r)
    BY <1>4, <1>5 DEF IInv, TypeOK, Collects
  <2>3. (\A u, v \in Worker : \A r \in Run :
           Collects(proc[u], r) /\ Collects(proc[v], r) => u = v)'
    <3> SUFFICES ASSUME NEW u \in Worker, NEW v \in Worker, NEW r \in Run,
                        Collects(proc'[u], r), Collects(proc'[v], r)
                 PROVE  u = v
      BY DEF Collects
    <3>1. CASE r = started + 1
      BY <3>1, <2>1, <2>2, HealingAssumption DEF IInv, TypeOK
    <3>2. CASE r # started + 1
      BY <3>2, <2>2 DEF IInv, RunsAreOwned
    <3>3. QED
      BY <3>1, <3>2
  <2>4. (\A v \in Worker : proc[v].pc = "collecting_proof"
                               => proc[v].proof # claim)'
    <3>1. claim # started + 1
      BY HealingAssumption DEF IInv, TypeOK, Stamp
    <3>2. QED
      BY <3>1, <1>1, <1>4, <1>5 DEF IInv, RunsAreOwned, TypeOK
  <2>5. QED
    BY <2>3, <2>4 DEF RunsAreOwned
<1>11. QED
  BY <1>6, <1>7, <1>8, <1>9, <1>10 DEF IInv

\* A worker at rest again, after its verdict or its death.
LEMMA RestIInv ==
    ASSUME IInv, NEW w \in Worker, Report(w) \/ Die(w)
    PROVE  IInv'
<1>1. /\ proc' = [proc EXCEPT ![w] = Rest]
      /\ claim' \in {claim, 0}
      /\ UNCHANGED <<started, runs, incidents, job, posts>>
  BY DEF Report, Die
<1>2. GoodProc(Rest, incidents')
  BY Constants DEF Rest, GoodProc, Handling, Proving
<1>3. ~ (Rest.pc \in {"collecting", "collecting_proof"})
  BY DEF Rest
<1>4. job' \in Job /\ posts' \in [Incident -> Nat]
  BY <1>1 DEF IInv, TypeOK
<1>5. QED
  BY <1>1, <1>2, <1>3, <1>4, RowsUnchanged, WorkerStep

\* The provider moves its job, and touches no row.
LEMMA ProviderIInv ==
    ASSUME IInv, Provider
    PROVE  IInv'
<1>1. UNCHANGED <<started, runs, incidents, proc, claim, posts>>
  BY DEF Provider
<1>2. job' \in Job
  <2>1. job \in Job
    BY DEF IInv, TypeOK
  <2>2. CASE \E s \in JobState : job' = [job EXCEPT !.st = s]
    BY <2>1, <2>2 DEF Job
  <2>3. CASE job' = [st |-> "gate", approved |-> FALSE, previewed |-> {}]
    BY <2>3 DEF Job, JobState
  <2>4. QED
    BY <2>2, <2>3 DEF Provider, JobState
<1>3. TypeOK'
  BY <1>1, <1>2 DEF IInv, TypeOK
<1>4. QED
  BY <1>1, <1>3 DEF IInv, GoodRow, ProvenByFreshRun, GoodProc, RunsAreOwned,
                    Collects

\* The SELECT of the active incident: what is loaded is the row as it stands.
LEMMA JudgeIInv ==
    ASSUME IInv, NEW w \in Worker, Judge(w)
    PROVE  IInv'
<1>1. PICK i \in 0 .. MaxIncidents :
        /\ Newest(i)
        /\ proc' = [proc EXCEPT ![w] = Continue(
              [@ EXCEPT !.inc = i,
                        !.seen = IF i = 0 THEN NoRow ELSE incidents[i],
                        !.result = IF runs[proc[w].run] = "clean"
                                   THEN proc[w].run ELSE 0],
              IF ~ (runs[proc[w].run] = "clean") THEN "recording"
              ELSE IF i # 0 THEN "retrying" ELSE "reporting")]
  BY DEF Judge
<1> DEFINE passed == runs[proc[w].run] = "clean"
           seen == IF i = 0 THEN NoRow ELSE incidents[i]
           q == [proc[w] EXCEPT !.inc = i, !.seen = seen,
                                !.result = IF passed THEN proc[w].run ELSE 0]
           next == IF ~ passed THEN "recording"
                   ELSE IF i # 0 THEN "retrying" ELSE "reporting"
           p == Continue(q, next)
<1>2. /\ proc[w].pc = "judging" /\ UNCHANGED <<started, runs, incidents, job, claim, posts>>
      /\ proc[w] \in Proc /\ GoodProc(proc[w], incidents)
  BY DEF Judge, IInv, TypeOK
<1>3. proc' = [proc EXCEPT ![w] = p]
  BY <1>1, <1>2 DEF IInv, TypeOK, Proc
<1>4. i # 0 => i \in Incident /\ i \in ActiveIncidents
  BY <1>1 DEF Newest, ActiveIncidents
<1>5. seen \in Row
  BY <1>4, Constants DEF IInv, TypeOK
<1>6. i # 0 => Loaded(seen, incidents[i])
  <2> SUFFICES ASSUME i # 0 PROVE Loaded(incidents[i], incidents[i])
    OBVIOUS
  <2>1. incidents[i].status # "absent" /\ GoodRow(incidents[i])
    BY <1>4 DEF IInv, ActiveIncidents, IsActive, Active, Lifecycle
  <2>2. QED
    BY <2>1 DEF Loaded, GoodRow
<1> HIDE DEF seen
<1>7. /\ q \in Proc /\ q.run = proc[w].run /\ q.inc = i /\ q.seen = seen
  <2>1. (IF passed THEN proc[w].run ELSE 0) \in Stamp
    BY <1>2, HealingAssumption DEF Proc, Stamp
  <2> HIDE DEF passed
  <2>2. QED
    BY <1>2, <1>5, <2>1 DEF Proc
<1>8. next \in PC
  BY DEF PC
<1> HIDE DEF q
<1>9. /\ p \in Proc /\ p.pc = next /\ p.run = proc[w].run
      /\ next = "reporting" => p.inc = 0
      /\ next # "reporting" => p.inc = i /\ p.seen = seen
  BY <1>7, <1>8, ContinueKeeps
<1> HIDE DEF p
<1>10. /\ next \in {"recording", "retrying", "reporting"}
       /\ next = "retrying" => passed /\ i # 0
  OBVIOUS
<1> HIDE DEF next
<1>11. GoodProc(p, incidents')
  BY <1>2, <1>6, <1>9, <1>10 DEF GoodProc, Handling, Proving
<1>12. job' \in Job /\ posts' \in [Incident -> Nat]
  BY <1>2 DEF IInv, TypeOK
<1>13. QED
  BY <1>2, <1>3, <1>9, <1>10, <1>11, <1>12, RowsUnchanged, WorkerStep

\* The INSERT of an incident: nobody holds the row it fills.
LEMMA OpenIncidentIInv ==
    ASSUME IInv, NEW w \in Worker, OpenIncident(w)
    PROVE  IInv'
<1> DEFINE o == runs[proc[w].run]
           row == [NoRow EXCEPT
                     !.status = "degraded", !.class = Classification(o),
                     !.action = Recommended(o), !.detRun = proc[w].run,
                     !.detectedAt = started,
                     !.evidence.drifted = Classification(o) = "extraction_drift"]
           next == AfterRecord(row)
<1>1. PICK i \in Incident :
         /\ incidents[i].status = "absent"
         /\ incidents' = [incidents EXCEPT ![i] = row]
         /\ proc' = [proc EXCEPT ![w] = Continue(
               [@ EXCEPT !.inc = i, !.seen = row], AfterRecord(row))]
  BY DEF OpenIncident
<1> DEFINE q == [proc[w] EXCEPT !.inc = i, !.seen = row]
           p == Continue(q, next)
<1>2. /\ proc[w].pc = "recording" /\ UNCHANGED <<started, runs, job, claim, posts>>
      /\ proc[w] \in Proc /\ GoodProc(proc[w], incidents)
  BY DEF OpenIncident, IInv, TypeOK
<1>3. proc' = [proc EXCEPT ![w] = p]
  BY <1>1 DEF IInv, TypeOK
<1>4. /\ row \in Row /\ row.status = "degraded" /\ row.verRun = 0
      /\ row.detRun = proc[w].run /\ row.detectedAt = started
      /\ row.evidence.registered = 0
  <2>1. proc[w].run \in Stamp /\ started \in Stamp
    BY <1>2 DEF Proc, IInv, TypeOK, Stamp
  <2>2. "degraded" \in Status
    BY DEF Status, Active, Lifecycle
  <2>3. NoRow.evidence \in Evidence /\ NoRow.evidence.registered = 0
        /\ NoRow.verRun = 0
    BY Constants DEF NoRow, Row, NoEvidence
  <2>4. [NoRow.evidence EXCEPT !.drifted = Classification(o) = "extraction_drift"]
            \in Evidence
    BY <2>3 DEF Evidence
  <2>5. QED
    BY <2>1, <2>2, <2>3, <2>4, Constants DEF Row, Evidence
<1>5. next \in {"observing", "reporting"}
  BY DEF AfterRecord
<1> HIDE DEF row, next
<1>6. /\ q \in Proc /\ q.run = proc[w].run /\ q.inc = i /\ q.seen = row
  <2>1. i \in 0 .. MaxIncidents
    BY HealingAssumption DEF Incident
  <2>2. QED
    BY <1>2, <1>4, <2>1 DEF Proc
<1> HIDE DEF q
<1>7. /\ p \in Proc /\ p.pc = next /\ p.run = proc[w].run
      /\ next = "reporting" => p.inc = 0
      /\ next # "reporting" => p.inc = i /\ p.seen = row
  <2>1. next \in PC
    BY <1>5 DEF PC
  <2>2. QED
    BY <1>6, <2>1, ContinueKeeps
<1> HIDE DEF p
<1>8. /\ started \in 0 .. MaxRuns
      /\ proc[w].run \in 1 .. started
  BY <1>2 DEF GoodProc, IInv, TypeOK
<1>9. GoodRow(row) /\ Loaded(row, row)
  BY <1>4, <1>8, HealingAssumption DEF GoodRow, Loaded
<1>10. RowsStepGood
  <2>1. incidents \in [Incident -> Row]
    BY DEF IInv, TypeOK
  <2>2. \A s \in Row : ~ Loaded(s, incidents[i])
    BY <1>1 DEF Loaded
  <2>3. QED
    BY <2>1, <2>2, <1>1, <1>4, <1>9 DEF RowsStepGood, IInv
<1>11. incidents'[i] = row
  BY <1>1 DEF IInv, TypeOK, row
<1>12. GoodProc(p, incidents')
  BY <1>2, <1>5, <1>7, <1>9, <1>11, HealingAssumption
     DEF GoodProc, Handling, Proving, Incident
<1>13. job' \in Job /\ posts' \in [Incident -> Nat]
  BY <1>2 DEF IInv, TypeOK
<1>14. QED
  BY <1>2, <1>3, <1>5, <1>7, <1>10, <1>12, <1>13, WorkerStep

-----------------------------------------------------------------------------
(* The commits, and the steps between them.                                *)

\* A change that closes nothing, proves nothing and registers nothing.
LEMMA HarmlessPermitted ==
    ASSUME NEW row, NEW old \in Row, NEW new \in Row, Loaded(old, row),
           new.status = old.status \/ ~ (new.status \in {"recovered", "absent"}),
           new.verRun = old.verRun,
           new.evidence.registered = old.evidence.registered
    PROVE  Permitted(old, new)
BY DEF Permitted, Loaded

\* An occurrence appended to the row seen leaves a good row.
LEMMA UpdateIncidentIInv ==
    ASSUME IInv, NEW w \in Worker, UpdateIncident(w)
    PROVE  IInv'
<1> DEFINE o == runs[proc[w].run]
           old == Seen(w)
           new == [Rediagnosed(old, o) EXCEPT
                     !.evidence.drifted = @ \/ Classification(o) = "extraction_drift"]
           next == AfterRecord(Merge(incidents[proc[w].inc], old, new))
<1>1. /\ proc[w].pc = "recording" /\ proc[w].inc # 0
      /\ Write(w, old, new, next)
      /\ UNCHANGED <<started, runs, job, claim, posts>>
  BY DEF UpdateIncident, Commit
<1>2. /\ old \in Row /\ Loaded(old, incidents[proc[w].inc])
  BY <1>1, Held
<1> HIDE DEF old
<1>3. /\ Rediagnosed(old, o) \in Row
      /\ Rediagnosed(old, o).status = old.status
      /\ Rediagnosed(old, o).verRun = old.verRun
      /\ Rediagnosed(old, o).evidence = old.evidence
  BY <1>2, Constants DEF Rediagnosed, Row
<1> DEFINE diag == Rediagnosed(old, o)
<1> HIDE DEF diag
<1>4. /\ new \in Row /\ new.status = old.status /\ new.verRun = old.verRun
      /\ new.evidence.registered = old.evidence.registered
  <2>1. diag \in Row /\ diag.status = old.status /\ diag.verRun = old.verRun
        /\ diag.evidence = old.evidence
    BY <1>3 DEF diag
  <2> DEFINE d == diag.evidence.drifted \/ Classification(o) = "extraction_drift"
  <2>2. [diag.evidence EXCEPT !.drifted = d] \in Evidence
    BY <2>1, <1>2 DEF Row, Evidence
  <2> HIDE DEF d
  <2>3. new = [diag EXCEPT !.evidence.drifted = d]
    BY <2>1 DEF diag, d, Row, Evidence
  <2> HIDE DEF new
  <2>4. QED
    BY <2>1, <2>2, <2>3, <1>2 DEF Row, Evidence
<1> HIDE DEF new
<1>5. Permitted(old, new)
  BY <1>2, <1>4, HarmlessPermitted
<1>6. next \in {"observing", "reporting"}
  BY DEF AfterRecord
<1> HIDE DEF next
<1>7. next \in Onward /\ ~ (next \in Proving)
  BY <1>6 DEF Onward, Proving, PC
<1>8. job' \in Job /\ posts' \in [Incident -> Nat]
  BY <1>1 DEF IInv, TypeOK
<1>9. QED
  BY <1>1, <1>2, <1>5, <1>7, <1>8, WriteStep

\* A row closed by a run that proves it.
LEMMA RecoveredPermitted ==
    ASSUME NEW row, NEW old \in Row, Loaded(old, row), NEW r \in 1 .. started,
           started \in 0 .. MaxRuns, runs[r] = "clean", r > old.detectedAt
    PROVE  Permitted(old, Recovered(old, r))
<1>1. r \in Run /\ r \in Stamp /\ r # 0
  BY HealingAssumption DEF Run, Stamp
<1>2. "recovered" \in Status
  BY DEF Status
<1>3. [old.evidence EXCEPT !.used = @ \cup {r}] \in Evidence
  BY <1>1 DEF Row, Evidence
<1> DEFINE new == Recovered(old, r)
<1>4. /\ new \in Row /\ new.status = "recovered" /\ new.verRun = r
      /\ new.evidence.registered = old.evidence.registered
  BY <1>1, <1>2, <1>3 DEF Recovered, Row, Evidence
<1> HIDE DEF new
<1>5. QED
  BY <1>1, <1>4 DEF Permitted, Loaded, new

\* verify_retry_recovery: the clean run started after the outage was detected.
LEMMA RetryIInv ==
    ASSUME IInv, NEW w \in Worker, Retry(w)
    PROVE  IInv'
<1> DEFINE r == proc[w].run
<1>1. /\ proc[w].pc = "retrying"
      /\ UNCHANGED <<started, runs, job, claim, posts>>
      /\ started \in 0 .. MaxRuns
      /\ GoodProc(proc[w], incidents)
      /\ job' \in Job /\ posts' \in [Incident -> Nat]
  BY DEF Retry, IInv, TypeOK
<1>2. proc[w].pc \in Handling
  BY <1>1 DEF Handling, PC
<1>3. "reporting" \in Onward /\ ~ ("reporting" \in Handling \cup Proving)
  BY DEF Onward, PC, Handling, Proving
<1>4. CASE ProvesRetry(Seen(w), r)
  <2>1. Write(w, Seen(w), Recovered(Seen(w), r), "reporting")
    BY <1>1, <1>4 DEF Retry, Commit
  <2>2. /\ r \in 1 .. started /\ runs[r] = "clean" /\ r > Seen(w).detectedAt
    BY <1>1, <1>4 DEF GoodProc, ProvesRetry
  <2>3. /\ proc[w].inc # 0 /\ Seen(w) \in Row
        /\ Loaded(Seen(w), incidents[proc[w].inc])
    BY <1>2, Held
  <2>4. Permitted(Seen(w), Recovered(Seen(w), r))
    BY <1>1, <2>2, <2>3, RecoveredPermitted
  <2>5. QED
    BY <1>1, <1>3, <2>1, <2>3, <2>4, WriteStep
<1>5. CASE ~ ProvesRetry(Seen(w), r)
  BY <1>1, <1>3, <1>5, GotoStep DEF Retry
<1>6. QED
  BY <1>4, <1>5

\* What a healing step has to show when it commits no recovery, or nothing.
LEMMA HarmlessStep ==
    ASSUME IInv, NEW w \in Worker, proc[w].pc \in Handling,
           NEW new \in Row, ~ (new.status \in {"recovered", "absent"}),
           new.verRun = Seen(w).verRun,
           new.evidence.registered = Seen(w).evidence.registered,
           NEW next \in Onward, ~ (next \in Proving),
           Commit(w, new, next),
           UNCHANGED <<started, runs, claim>>,
           job' \in Job, posts' \in [Incident -> Nat]
    PROVE  IInv'
<1>1. /\ proc[w].inc # 0 /\ Seen(w) \in Row
      /\ Loaded(Seen(w), incidents[proc[w].inc])
  BY Held
<1>2. Permitted(Seen(w), new)
  BY <1>1, HarmlessPermitted
<1>3. proc[w].pc # "idle"
  BY DEF Handling
<1>4. QED
  BY <1>1, <1>2, <1>3, WriteStep DEF Commit

\* The values that healing writes to the status column.
LEMMA Statuses ==
    /\ {"degraded", "healing", "validating", "verifying", "manual_review"}
           \subseteq Status
    /\ "escalate" \in Action
BY DEF Status, Active, Lifecycle, Action

\* The types a step needs when it leaves the job or the history alone.
LEMMA Kept ==
    ASSUME IInv
    PROVE  /\ UNCHANGED job => job' \in Job
           /\ UNCHANGED posts => posts' \in [Incident -> Nat]
           /\ started \in 0 .. MaxRuns
           /\ \A w \in Worker : TakePreview(w) => job' \in Job
           /\ NewJob => job' \in Job
           /\ OpenGate => job' \in Job
<1>1. job \in Job /\ posts \in [Incident -> Nat]
  BY DEF IInv, TypeOK
<1>2. \A w \in Worker : TakePreview(w) => job' \in Job
  BY <1>1 DEF TakePreview, Job
<1>3. NewJob => job' \in Job
  BY DEF NewJob, Job, JobState
<1>4. OpenGate => job' \in Job
  BY <1>1 DEF OpenGate, Job, JobState
<1>5. QED
  BY <1>1, <1>2, <1>3, <1>4 DEF IInv, TypeOK

\* What the invariant says of one worker.
LEMMA WorkerGood ==
    ASSUME IInv, NEW w \in Worker
    PROVE  proc[w] \in Proc /\ GoodProc(proc[w], incidents)
BY DEF IInv, TypeOK

\* The steps of healing that commit nothing, or hand the incident back.
LEMMA ObserveIInv ==
    ASSUME IInv, NEW w \in Worker, Refuse(w) \/ Observe(w)
    PROVE  IInv'
<1>1. /\ proc[w].pc = "observing"
      /\ UNCHANGED <<started, runs, claim, posts>>
  BY DEF Refuse, Observe
<1>2. /\ proc[w].pc \in Handling /\ proc[w].pc # "idle"
      /\ proc[w].inc # 0
  BY <1>1, Held DEF Handling, PC
<1>3. \A next \in {"reporting", "resuming", "rejoining", "starting"} :
          next \in Onward /\ ~ (next \in Proving)
  BY DEF Onward, PC, Proving
<1>4. job' \in Job /\ posts' \in [Incident -> Nat]
  BY <1>1, Kept DEF Refuse, Observe
<1>5. CASE \E next \in {"reporting", "resuming", "rejoining", "starting"} :
              Goto(w, next) /\ UNCHANGED incidents
  BY <1>1, <1>2, <1>3, <1>4, <1>5, GotoStep
<1>6. CASE Raise(w)
  BY <1>1, <1>2, <1>4, <1>6, RaiseStep
<1>7. CASE Abandon(w)
  BY <1>1, <1>2, <1>4, <1>7, FailureStep DEF Abandon
<1>8. QED
  BY <1>5, <1>6, <1>7 DEF Refuse, Observe

\* A repair that starts costs one attempt of the budget.
LEMMA StartIInv ==
    ASSUME IInv, NEW w \in Worker, Start(w)
    PROVE  IInv'
<1> DEFINE row == Seen(w)
<1>1. /\ proc[w].pc = "starting"
      /\ UNCHANGED <<started, runs, job, claim, posts>>
  BY DEF Start
<1>2. proc[w].pc \in Handling
  BY <1>1 DEF Handling, PC
<1>3. row \in Row
  BY <1>2, Held
<1>4. /\ "reporting" \in Onward \ Proving
      /\ "posting" \in Onward \ Proving
  BY DEF Onward, PC, Proving
<1>5. job' \in Job /\ posts' \in [Incident -> Nat]
  BY <1>1, Kept
<1>6. CASE row.attempts >= MaxAttempts
  <2>1. Commit(w, Escalated(row), "reporting")
    BY <1>6 DEF Start
  <2>2. /\ Escalated(row) \in Row
        /\ Escalated(row).status = "manual_review"
        /\ Escalated(row).verRun = row.verRun
        /\ Escalated(row).evidence = row.evidence
    BY <1>3, Statuses DEF Escalated, Row
  <2>3. QED
    BY <1>1, <1>2, <1>4, <1>5, <2>1, <2>2, HarmlessStep
<1>7. CASE ~ (row.attempts >= MaxAttempts)
  <2> DEFINE new == [row EXCEPT !.status = "healing", !.attempts = @ + 1]
  <2>1. Commit(w, new, "posting")
    BY <1>7 DEF Start
  <2>2. row.attempts + 1 \in 0 .. MaxAttempts
    BY <1>3, <1>7, HealingAssumption DEF Row
  <2>3. /\ new \in Row
        /\ new.status = "healing"
        /\ new.verRun = row.verRun
        /\ new.evidence = row.evidence
    BY <1>3, <2>2, Statuses DEF Row
  <2> HIDE DEF new
  <2>4. QED
    BY <1>1, <1>2, <1>4, <1>5, <2>1, <2>3, HarmlessStep
<1>8. QED
  BY <1>6, <1>7

\* A repair that is taken up again costs none.
LEMMA ResumeHealingIInv ==
    ASSUME IInv, NEW w \in Worker, ResumeHealing(w)
    PROVE  IInv'
<1> DEFINE new == [Seen(w) EXCEPT !.status = "healing"]
<1>1. /\ proc[w].pc \in {"resuming", "rejoining"}
      /\ UNCHANGED <<started, runs, job, claim, posts>>
      /\ \E next \in {"awaiting_gate", "registering"} : Commit(w, new, next)
  BY DEF ResumeHealing
<1>2. proc[w].pc \in Handling
  BY <1>1 DEF Handling, PC
<1>3. Seen(w) \in Row
  BY <1>2, Held
<1>4. /\ new \in Row
      /\ new.status = "healing"
      /\ new.verRun = Seen(w).verRun
      /\ new.evidence = Seen(w).evidence
  BY <1>3, Statuses DEF Row
<1> HIDE DEF new
<1>5. \A next \in {"awaiting_gate", "registering"} : next \in Onward \ Proving
  BY DEF Onward, PC, Proving
<1>6. job' \in Job /\ posts' \in [Incident -> Nat]
  BY <1>1, Kept
<1>7. QED
  BY <1>1, <1>2, <1>4, <1>5, <1>6, HarmlessStep

\* The request of a repair is sent; the row stays.
LEMMA PostIInv ==
    ASSUME IInv, NEW w \in Worker, Post(w) \/ PostFails(w)
    PROVE  IInv'
<1>1. /\ proc[w].pc = "posting"
      /\ posts' = [posts EXCEPT ![proc[w].inc] = @ + 1]
      /\ NewJob \/ UNCHANGED job
      /\ UNCHANGED <<started, runs, claim>>
  BY DEF Post, PostFails
<1>2. /\ proc[w].pc \in Handling /\ proc[w].pc # "idle"
      /\ proc[w].inc # 0
  BY <1>1, Held DEF Handling, PC
<1>3. job' \in Job
  BY <1>1, Kept
<1>4. posts' \in [Incident -> Nat]
  <2>1. posts \in [Incident -> Nat] /\ proc[w].inc \in Incident
    BY <1>2, Held DEF IInv, TypeOK
  <2>2. posts[proc[w].inc] + 1 \in Nat
    BY <2>1
  <2>3. QED
    BY <1>1, <2>1, <2>2
<1>5. CASE Post(w)
  <2>1. "awaiting_gate" \in Onward /\ ~ ("awaiting_gate" \in Proving)
    BY DEF Onward, PC, Proving
  <2>2. Goto(w, "awaiting_gate") /\ UNCHANGED incidents
    BY <1>5 DEF Post
  <2>3. QED
    BY <1>1, <1>2, <1>3, <1>4, <2>1, <2>2, GotoStep
<1>6. CASE PostFails(w)
  BY <1>1, <1>2, <1>3, <1>4, <1>6, FailureStep DEF PostFails, Abandon
<1>7. QED
  BY <1>5, <1>6

\* Waiting for the gate and for the deployment, the preflight, the two answers
\* to the gate and every way to give up.
LEMMA WaitIInv ==
    ASSUME IInv, NEW w \in Worker,
           \/ ReachGate(w) \/ GiveUpGate(w) \/ Preflight(w) \/ Reject(w)
           \/ RecordRejection(w) \/ Approve(w) \/ ApproveFails(w)
           \/ GiveUpDeployment(w) \/ RecollectFails(w) \/ ProofFails(w)
    PROVE  IInv'
<1>1. /\ proc[w].pc \in {"awaiting_gate", "preflight", "rejecting", "rejected",
                         "approving", "deploying", "recollecting", "proof_failed"}
      /\ UNCHANGED <<started, runs, claim, posts>>
  BY DEF ReachGate, GiveUpGate, Preflight, Reject, RecordRejection, Approve,
         ApproveFails, GiveUpDeployment, RecollectFails, ProofFails
<1>2. /\ proc[w].pc \in Handling /\ proc[w].pc # "idle"
      /\ proc[w].inc # 0
  BY <1>1, Held DEF Handling, PC
<1>3. job' \in Job
  <2>1. job \in Job
    BY DEF IInv, TypeOK
  <2>2. UNCHANGED job \/ TakePreview(w) \/ OpenGate
           \/ job' = [job EXCEPT !.st = "done"]
    BY DEF ReachGate, GiveUpGate, Preflight, Reject, RecordRejection, Approve,
           ApproveFails, GiveUpDeployment, RecollectFails, ProofFails
  <2>3. QED
    BY <2>1, <2>2, Kept DEF Job, JobState
<1>4. posts' \in [Incident -> Nat]
  BY <1>1, Kept
<1> DEFINE Nexts == {"registering", "approving", "rejecting", "rejected",
                     "deploying"}
<1>5. \A next \in Nexts : next \in Onward /\ ~ (next \in Proving)
  BY DEF Onward, PC, Proving
<1>6. CASE \E next \in Nexts : Goto(w, next) /\ UNCHANGED incidents
  <2> HIDE DEF Nexts
  <2>1. QED
    BY <1>1, <1>2, <1>3, <1>4, <1>5, <1>6, GotoStep
<1>7. CASE \E row \in {Seen(w), incidents[proc[w].inc]},
             next \in {"reporting", "escalating"} :
                RecordFailure(w, row, next)
  BY <1>1, <1>2, <1>3, <1>4, <1>7, FailureStep
<1>8. \/ \E next \in Nexts : Goto(w, next) /\ UNCHANGED incidents
      \/ \E row \in {Seen(w), incidents[proc[w].inc]},
            next \in {"reporting", "escalating"} :
               RecordFailure(w, row, next)
  <2>1. CASE ReachGate(w) \/ Preflight(w) \/ Reject(w) \/ Approve(w)
    BY <2>1 DEF ReachGate, Preflight, Reject, Approve, Abandon
  <2>2. CASE GiveUpGate(w) \/ ApproveFails(w) \/ GiveUpDeployment(w)
               \/ RecollectFails(w)
    BY <2>2 DEF GiveUpGate, ApproveFails, GiveUpDeployment, RecollectFails,
                Abandon
  <2>3. CASE RecordRejection(w) \/ ProofFails(w)
    BY <2>3 DEF RecordRejection, ProofFails
  <2>4. QED
    BY <2>1, <2>2, <2>3
<1>9. QED
  BY <1>6, <1>7, <1>8

\* An incident handed to a human is a good row.
LEMMA EscalateIInv ==
    ASSUME IInv, NEW w \in Worker, Escalate(w)
    PROVE  IInv'
<1> DEFINE new == Escalated(Seen(w))
<1>1. /\ proc[w].pc = "escalating" /\ Commit(w, new, "reporting")
      /\ UNCHANGED <<started, runs, job, claim, posts>>
  BY DEF Escalate
<1>2. proc[w].pc \in Handling
  BY <1>1 DEF Handling, PC
<1>3. Seen(w) \in Row
  BY <1>2, Held
<1>4. /\ new \in Row
      /\ new.status = "manual_review"
      /\ new.verRun = Seen(w).verRun
      /\ new.evidence = Seen(w).evidence
  BY <1>3, Statuses DEF Escalated, Row
<1> HIDE DEF new
<1>5. "reporting" \in Onward \ Proving
  BY DEF Onward, PC, Proving
<1>6. job' \in Job /\ posts' \in [Incident -> Nat]
  BY <1>1, Kept
<1>7. QED
  BY <1>1, <1>2, <1>4, <1>5, <1>6, HarmlessStep

\* register_repair_candidate: the stamp is no earlier than the detection.
LEMMA RegisterIInv ==
    ASSUME IInv, NEW w \in Worker, Register(w)
    PROVE  IInv'
<1> DEFINE row == Seen(w)
           new == [row EXCEPT !.status = "validating",
                              !.evidence.registered = started]
           m == Merge(incidents[proc[w].inc], row, new)
           p == [proc[w] EXCEPT !.seen = m, !.attempt = row.attempts,
                                !.pc = "preflight"]
<1>1. /\ proc[w].pc = "registering"
      /\ UNCHANGED <<started, runs, job, claim, posts>>
  BY DEF Register
<1>2. /\ proc[w].pc \in Handling /\ proc[w].pc # "idle"
  BY <1>1 DEF Handling, PC
<1>3. /\ proc[w].inc # 0 /\ proc[w].inc \in Incident /\ row \in Row
      /\ Loaded(row, incidents[proc[w].inc])
      /\ GoodRow(incidents[proc[w].inc]) /\ proc[w] \in Proc
      /\ GoodProc(proc[w], incidents)
      /\ started \in 0 .. MaxRuns
  <2>1. /\ proc[w].inc # 0 /\ proc[w].inc \in Incident /\ row \in Row
        /\ Loaded(row, incidents[proc[w].inc])
    BY <1>2, Held
  <2>2. proc[w] \in Proc /\ GoodProc(proc[w], incidents) /\ started \in 0 .. MaxRuns
    BY WorkerGood, Kept
  <2>3. QED
    BY <2>1, <2>2 DEF IInv
<1>4. job' \in Job /\ posts' \in [Incident -> Nat]
  BY <1>1, Kept
<1>5. CASE row.status = "healing"
  <2>1. /\ incidents' = [incidents EXCEPT ![proc[w].inc] = m]
        /\ proc' = [proc EXCEPT ![w] = p]
    BY <1>5, <1>3 DEF Register, IInv, TypeOK, Proc
  <2>2. /\ new \in Row /\ new.status = "validating" /\ new.verRun = row.verRun
        /\ new.evidence.registered = started
    <3>1. started \in Stamp
      BY <1>3 DEF Stamp
    <3>2. [row.evidence EXCEPT !.registered = started] \in Evidence
      BY <1>3, <3>1 DEF Row, Evidence
    <3>3. QED
      BY <1>3, <3>2, Statuses DEF Row, Evidence
  <2> HIDE DEF new
  <2>3. Permitted(row, new)
    BY <1>3, <2>2, HealingAssumption DEF Permitted, Loaded, GoodRow
  <2>4. m \in Row
    BY <1>3, <2>3, MergeGood
  <2> HIDE DEF m
  <2>5. /\ p \in Proc /\ p.pc = "preflight" /\ p.run = proc[w].run
        /\ p.inc = proc[w].inc /\ p.seen = m
    <3>1. row.attempts \in 0 .. MaxAttempts
      BY <1>3 DEF Row
    <3>2. QED
      BY <1>3, <2>4, <3>1 DEF Proc, PC
  <2> HIDE DEF p
  <2>6. p.pc \in Onward /\ ~ (p.pc \in Proving)
    BY <2>5 DEF Onward, PC, Proving
  <2>7. m = Merge(incidents[proc[w].inc], row, new)
    BY DEF m
  <2>8. /\ p.pc = "reporting" => p.inc = 0
        /\ p.pc # "reporting" => p.inc = proc[w].inc /\ p.seen = m
        /\ p.pc \in Proving => p.proof \in 1 .. started
        /\ p.pc = "verdict" => p.proof > row.detectedAt
    BY <2>5, <2>6
  <2> HIDE DEF row
  <2>9. /\ proc[w].inc # 0 /\ row \in Row /\ Loaded(row, incidents[proc[w].inc])
        /\ UNCHANGED <<started, runs, claim>>
        /\ p.run = proc[w].run /\ p.pc \in Onward /\ p \in Proc
    BY <1>1, <1>3, <2>5, <2>6
  <2>10. QED
    BY <1>2, <1>4, <2>1, <2>3, <2>7, <2>8, <2>9, CommitStep
<1>6. CASE row.status # "healing"
  BY <1>1, <1>2, <1>4, <1>6, RaiseStep DEF Register
<1>7. QED
  BY <1>5, <1>6

\* A deployment that is done hands the repair to a fresh run.
LEMMA DeployedIInv ==
    ASSUME IInv, NEW w \in Worker, Deployed(w)
    PROVE  IInv'
<1>1. /\ proc[w].pc = "deploying"
      /\ UNCHANGED <<started, runs, job, claim, posts>>
  BY DEF Deployed
<1>2. proc[w].pc \in Handling
  BY <1>1 DEF Handling, PC
<1>3. Seen(w) \in Row /\ proc[w] \in Proc
  BY <1>2, Held, WorkerGood
<1>4. job' \in Job /\ posts' \in [Incident -> Nat]
  BY <1>1, Kept
<1>5. CASE Abandon(w)
  BY <1>1, <1>2, <1>4, <1>5, FailureStep DEF Abandon
<1> DEFINE new == [Seen(w) EXCEPT !.evidence.approved = proc[w].attempt]
<1>6. CASE Commit(w, new, "recollecting")
  <2>1. [Seen(w).evidence EXCEPT !.approved = proc[w].attempt] \in Evidence
    BY <1>3 DEF Row, Evidence, Proc
  <2>2. /\ new \in Row
        /\ new.status = Seen(w).status
        /\ new.verRun = Seen(w).verRun
        /\ new.evidence.registered = Seen(w).evidence.registered
    BY <1>3, <2>1 DEF Row, Evidence
  <2> HIDE DEF new
  <2>3. /\ proc[w].inc # 0 /\ Loaded(Seen(w), incidents[proc[w].inc])
    BY <1>2, Held
  <2>4. Permitted(Seen(w), new)
    BY <1>3, <2>2, <2>3, HarmlessPermitted
  <2>5. "recollecting" \in Onward /\ ~ ("recollecting" \in Proving)
    BY DEF Onward, PC, Proving
  <2>6. QED
    BY <1>1, <1>3, <1>4, <1>6, <2>3, <2>4, <2>5, WriteStep DEF Commit
<1>7. QED
  BY <1>5, <1>6 DEF Deployed

\* begin_validation: the checks compare the fresh run with the row as it is now.
LEMMA BeginValidationIInv ==
    ASSUME IInv, NEW w \in Worker, BeginValidation(w)
    PROVE  IInv'
<1> DEFINE row == incidents[proc[w].inc]
           new == [row EXCEPT !.status = "verifying"]
<1>1. /\ proc[w].pc = "verifying"
      /\ UNCHANGED <<started, runs, job, claim, posts>>
  BY DEF BeginValidation
<1>2. /\ proc[w].pc \in Handling /\ proc[w].pc # "idle"
      /\ proc[w].pc \in Proving
  BY <1>1 DEF Handling, Proving, PC
<1>3. /\ proc[w].inc # 0 /\ proc[w].inc \in Incident /\ row \in Row
      /\ Loaded(row, row)
  BY <1>2, Held
<1>4. job' \in Job /\ posts' \in [Incident -> Nat]
  BY <1>1, Kept
<1>5. proc[w] \in Proc /\ GoodRow(row)
  BY <1>3, WorkerGood DEF IInv
<1>6. CASE /\ row.status \in {"validating", "verifying"}
           /\ Independent(row, proc[w].proof)
  <2>1. Write(w, row, new, "verdict")
    BY <1>6 DEF BeginValidation
  <2>2. proc[w].proof > row.detectedAt
    <3>1. /\ row.evidence.registered \in Nat /\ row.detectedAt \in Nat
          /\ proc[w].proof \in Nat
      BY <1>3, <1>5, HealingAssumption DEF Row, Evidence, Stamp, Proc
    <3>2. QED
      BY <1>5, <1>6, <3>1 DEF Independent, GoodRow
  <2>3. /\ new \in Row /\ new.status = "verifying" /\ new.verRun = row.verRun
        /\ new.evidence = row.evidence
    BY <1>3, Statuses DEF Row
  <2> HIDE DEF new
  <2>4. Permitted(row, new)
    BY <1>3, <2>3, HarmlessPermitted
  <2>5. "verdict" \in Onward
    BY DEF Onward, PC
  <2>6. QED
    BY <1>1, <1>2, <1>3, <1>4, <2>1, <2>2, <2>4, <2>5, WriteStep
<1>7. CASE ~ (/\ row.status \in {"validating", "verifying"}
              /\ Independent(row, proc[w].proof))
  <2>1. Raise(w)
    BY <1>7 DEF BeginValidation
  <2>2. QED
    BY <1>1, <1>2, <1>4, <2>1, RaiseStep
<1>8. QED
  BY <1>6, <1>7

\* verify_recovery: a clean fresh run closes the incident, any other does not.
LEMMA VerdictIInv ==
    ASSUME IInv, NEW w \in Worker, Verdict(w)
    PROVE  IInv'
<1> DEFINE r == proc[w].proof
           row == Seen(w)
           clean == runs[r] = "clean"
           new == IF clean THEN Recovered(row, r)
                  ELSE [row EXCEPT !.status = "degraded",
                                   !.evidence.used = @ \cup {r}]
           m == Merge(incidents[proc[w].inc], row, new)
           q == [proc[w] EXCEPT !.result = IF clean THEN r ELSE 0]
           p == Continue(q, "reporting")
<1>1. /\ proc[w].pc = "verdict"
      /\ UNCHANGED <<started, runs, job, claim, posts>>
  BY DEF Verdict
<1>2. /\ proc[w].pc \in Handling /\ proc[w].pc # "idle"
      /\ proc[w].pc \in Proving
  BY <1>1 DEF Handling, Proving, PC
<1>3. /\ proc[w].inc # 0 /\ proc[w].inc \in Incident /\ row \in Row
      /\ Loaded(row, incidents[proc[w].inc])
  BY <1>2, Held
<1>4. job' \in Job /\ posts' \in [Incident -> Nat] /\ started \in 0 .. MaxRuns
  BY <1>1, Kept
<1>5. proc[w] \in Proc /\ r \in 1 .. started /\ r > row.detectedAt
  BY <1>1, <1>2, WorkerGood DEF GoodProc, Seen
<1>6. /\ incidents' = [incidents EXCEPT ![proc[w].inc] = m]
      /\ proc' = [proc EXCEPT ![w] = p]
  BY <1>5 DEF Verdict, IInv, TypeOK, Proc
<1>7. Permitted(row, new)
  <2>1. CASE clean
    BY <2>1, <1>3, <1>4, <1>5, RecoveredPermitted
  <2>2. CASE ~ clean
    <3> DEFINE failed == [row EXCEPT !.status = "degraded",
                                     !.evidence.used = @ \cup {r}]
    <3>1. new = failed
      BY <2>2
    <3>2. r \in Run
      BY <1>4, <1>5, HealingAssumption DEF Run
    <3>3. [row.evidence EXCEPT !.used = @ \cup {r}] \in Evidence
      BY <1>3, <3>2 DEF Row, Evidence
    <3>4. /\ failed \in Row /\ failed.status = "degraded"
          /\ failed.verRun = row.verRun
          /\ failed.evidence.registered = row.evidence.registered
      BY <1>3, <3>3, Statuses DEF Row, Evidence
    <3> HIDE DEF new, failed
    <3>5. QED
      BY <1>3, <3>1, <3>4, HarmlessPermitted
  <2>3. QED
    BY <2>1, <2>2
<1>8. /\ p \in Proc /\ p.pc = "reporting" /\ p.run = proc[w].run /\ p.inc = 0
  <2>1. (IF clean THEN r ELSE 0) \in Stamp
    BY <1>4, <1>5, HealingAssumption DEF Stamp
  <2> HIDE DEF clean
  <2>2. q \in Proc /\ q.run = proc[w].run
    BY <1>5, <2>1 DEF Proc
  <2>3. "reporting" \in PC
    BY DEF PC
  <2> HIDE DEF q
  <2>4. QED
    BY <2>2, <2>3, ContinueKeeps
<1> HIDE DEF p, q, new
<1>9. m = Merge(incidents[proc[w].inc], row, new)
  OBVIOUS
<1> HIDE DEF m, row, r, clean
<1>10. /\ p.pc \in Onward
       /\ p.pc = "reporting" => p.inc = 0
       /\ p.pc # "reporting" => p.inc = proc[w].inc /\ p.seen = m
       /\ p.pc \in Proving => p.proof \in 1 .. started
       /\ p.pc = "verdict" => p.proof > row.detectedAt
       /\ p.run = proc[w].run /\ p \in Proc
  BY <1>8 DEF Onward, PC, Proving
<1>11. UNCHANGED <<started, runs, claim>>
  BY <1>1
<1>12. QED
  BY <1>2, <1>3, <1>4, <1>6, <1>7, <1>9, <1>10, <1>11, CommitStep

-----------------------------------------------------------------------------
(* The theorems.                                                           *)

\* Every step keeps the invariant.
LEMMA NextIInv ==
    ASSUME IInv, Next
    PROVE  IInv'
<1>1. CASE Provider
  BY <1>1, ProviderIInv
<1>2. CASE \E w \in Worker : Begin(w) \/ Resume(w) \/ Step(w) \/ Die(w)
  <2>1. PICK w \in Worker : Begin(w) \/ Resume(w) \/ Step(w) \/ Die(w)
    BY <1>2
  <2>2. CASE Begin(w)
    BY <2>2, BeginIInv
  <2>3. CASE Resume(w)
    BY <2>3, ResumeIInv
  <2>4. CASE FinishCollection(w) \/ FinishProof(w)
    BY <2>4, CollectionsEndIInv
  <2>5. CASE Judge(w)
    BY <2>5, JudgeIInv
  <2>6. CASE OpenIncident(w)
    BY <2>6, OpenIncidentIInv
  <2>7. CASE UpdateIncident(w)
    BY <2>7, UpdateIncidentIInv
  <2>8. CASE Retry(w)
    BY <2>8, RetryIInv
  <2>9. CASE Report(w) \/ Die(w)
    BY <2>9, RestIInv
  <2>10. CASE Refuse(w) \/ Observe(w)
    BY <2>10, ObserveIInv
  <2>11. CASE Start(w)
    BY <2>11, StartIInv
  <2>12. CASE ResumeHealing(w)
    BY <2>12, ResumeHealingIInv
  <2>13. CASE Post(w) \/ PostFails(w)
    BY <2>13, PostIInv
  <2>14. CASE \/ ReachGate(w) \/ GiveUpGate(w) \/ Preflight(w) \/ Reject(w)
              \/ RecordRejection(w) \/ Approve(w) \/ ApproveFails(w)
              \/ GiveUpDeployment(w) \/ RecollectFails(w) \/ ProofFails(w)
    BY <2>14, WaitIInv
  <2>15. CASE Register(w)
    BY <2>15, RegisterIInv
  <2>16. CASE Escalate(w)
    BY <2>16, EscalateIInv
  <2>17. CASE Deployed(w)
    BY <2>17, DeployedIInv
  <2>18. CASE Recollect(w)
    BY <2>18, RecollectIInv
  <2>19. CASE BeginValidation(w)
    BY <2>19, BeginValidationIInv
  <2>20. CASE Verdict(w)
    BY <2>20, VerdictIInv
  <2>21. QED
    BY <2>1, <2>2, <2>3, <2>4, <2>5, <2>6, <2>7, <2>8, <2>9, <2>10, <2>11,
       <2>12, <2>13, <2>14, <2>15, <2>16, <2>17, <2>18, <2>19, <2>20 DEF Step
<1>3. QED
  BY <1>1, <1>2 DEF Next

\* A step that changes nothing keeps it.
LEMMA StutterIInv ==
    ASSUME IInv, UNCHANGED vars
    PROVE  IInv'
BY DEF IInv, vars, TypeOK, GoodRow, ProvenByFreshRun, GoodProc, RunsAreOwned,
       Collects

\* The inductive invariant, for every set of workers.
THEOREM InductiveInvariant == Spec => []IInv
<1>1. Init => IInv
  BY InitIInv
<1>2. IInv /\ [Next]_vars => IInv'
  BY NextIInv, StutterIInv
<1>3. QED
  BY <1>1, <1>2, PTL DEF Spec

\* Every variable keeps its type, whatever the workers interleave.
THEOREM TypeCorrect == Spec => []TypeOK
<1>1. IInv => TypeOK
  BY DEF IInv
<1>2. QED
  BY <1>1, InductiveInvariant, PTL

\* Whoever closes an incident, and whatever the other workers wrote between
\* its SELECT and its commit, the closed row names a clean run that started
\* after the incident was detected (verify_recovery, verify_retry_recovery).
THEOREM RecoveryIsProven == Spec => []RecoveredByFreshRun
<1>1. IInv => RecoveredByFreshRun
  BY DEF IInv, GoodRow, RecoveredByFreshRun
<1>2. QED
  BY <1>1, InductiveInvariant, PTL

-----------------------------------------------------------------------------
(* What is reported as trusted.                                            *)

\* A run that was judged, and failed its checks.
FailedChecks(r) == runs[r] \notin {"running", "clean"}

\* An incident names a run that failed, and a result a clean run, whatever the
\* workers did in between.
TInv ==
    /\ \A i \in Incident : incidents[i].detRun # 0 =>
          incidents[i].detRun \in 1 .. started /\ FailedChecks(incidents[i].detRun)
    /\ \A w \in Worker :
          /\ proc[w].pc = "judging" => runs[proc[w].run] # "running"
          /\ proc[w].pc = "recording" => FailedChecks(proc[w].run)
          /\ proc[w].result # 0 => /\ proc[w].result \in 1 .. started
                                   /\ runs[proc[w].result] = "clean"

\* A run that has ended stays as it ended.
RunsKept ==
    /\ started \in Nat /\ started' \in Nat /\ started <= started'
    /\ \A r \in 1 .. started : runs[r] # "running" => runs'[r] = runs[r]

\* No UPDATE touches the run that an incident was opened for.
RowsKept == \A i \in Incident : incidents'[i].detRun = incidents[i].detRun

\* Every step keeps the runs that have ended.
LEMMA NextKeepsRuns ==
    ASSUME IInv, Next
    PROVE  RunsKept
<1>1. started \in Nat /\ started <= MaxRuns /\ runs \in [Run -> RunState]
  BY HealingAssumption DEF IInv, TypeOK
<1>2. CASE UNCHANGED <<started, runs>>
  BY <1>1, <1>2 DEF RunsKept
<1>3. CASE StartRun
  BY <1>1, <1>3 DEF RunsKept, StartRun, Run
<1>4. CASE \E r \in Run, o \in Outcomes : /\ runs[r] = "running"
                                          /\ runs' = [runs EXCEPT ![r] = o]
                                          /\ started' = started
  BY <1>1, <1>4 DEF RunsKept, Run
<1>5. CASE \E w \in Worker : FinishCollection(w) \/ FinishProof(w)
  <2>1. PICK w \in Worker : FinishCollection(w) \/ FinishProof(w)
    BY <1>5
  <2>2. GoodProc(proc[w], incidents)
    BY DEF IInv
  <2>3. \A r \in 1 .. started : r \in Run
    BY <1>1, HealingAssumption DEF Run
  <2>4. CASE FinishCollection(w)
    BY <1>4, <2>2, <2>3, <2>4 DEF FinishCollection, GoodProc
  <2>5. CASE FinishProof(w)
    BY <1>4, <2>2, <2>3, <2>5 DEF FinishProof, GoodProc, Proving
  <2>6. QED
    BY <2>1, <2>4, <2>5
<1>6. CASE Provider
  BY <1>2, <1>6 DEF Provider
<1>7. CASE \E w \in Worker : Begin(w) \/ Recollect(w)
  BY <1>3, <1>7 DEF Begin, Recollect
<1>8. CASE \E w \in Worker : Resume(w) \/ Die(w)
  BY <1>2, <1>8 DEF Resume, Die
<1>9. CASE \E w \in Worker :
              \/ Judge(w) \/ OpenIncident(w) \/ UpdateIncident(w)
              \/ Retry(w) \/ Report(w) \/ Refuse(w) \/ Observe(w) \/ Start(w)
              \/ ResumeHealing(w) \/ Post(w) \/ PostFails(w)
  BY <1>2, <1>9 DEF Judge, OpenIncident, UpdateIncident, Retry, Report, Refuse,
     Observe, Start, ResumeHealing, Post, PostFails
<1>10. CASE \E w \in Worker :
              \/ ReachGate(w) \/ GiveUpGate(w)
              \/ Register(w) \/ Preflight(w) \/ Reject(w) \/ RecordRejection(w)
              \/ Escalate(w) \/ Approve(w) \/ ApproveFails(w)
              \/ Deployed(w) \/ GiveUpDeployment(w)
              \/ RecollectFails(w) \/ ProofFails(w)
              \/ BeginValidation(w) \/ Verdict(w)
  BY <1>2, <1>10 DEF ReachGate, GiveUpGate, Register, Preflight, Reject,
     RecordRejection, Escalate, Approve, ApproveFails, Deployed,
     GiveUpDeployment, RecollectFails, ProofFails, BeginValidation, Verdict
<1>11. QED
  BY <1>5, <1>6, <1>7, <1>8, <1>9, <1>10 DEF Next, Step

\* A worker becomes p, and neither judges nor records anything.
LEMMA TrustKept ==
    ASSUME IInv, TInv, RunsKept, RowsKept,
           NEW w \in Worker, NEW p, proc' = [proc EXCEPT ![w] = p],
           p.result \in {0, proc[w].result},
           p.pc \notin {"judging", "recording"}
    PROVE  TInv'
<1>1. proc \in [Worker -> Proc] /\ incidents \in [Incident -> Row]
  BY DEF IInv, TypeOK
<1>2. \A r \in 1 .. started : /\ r \in 1 .. started'
                              /\ runs[r] # "running" => runs'[r] = runs[r]
  BY DEF RunsKept
<1>3. (\A i \in Incident : incidents[i].detRun # 0 =>
          incidents[i].detRun \in 1 .. started /\ FailedChecks(incidents[i].detRun))'
  <2> SUFFICES ASSUME NEW i \in Incident, incidents'[i].detRun # 0
               PROVE  /\ incidents'[i].detRun \in 1 .. started'
                      /\ runs'[incidents'[i].detRun] \notin {"running", "clean"}
    BY DEF FailedChecks
  <2>1. incidents'[i].detRun = incidents[i].detRun
    BY DEF RowsKept
  <2>2. QED
    BY <1>2, <2>1 DEF TInv, FailedChecks
<1>4. ASSUME NEW v \in Worker
      PROVE  (/\ proc[v].pc = "judging" => runs[proc[v].run] # "running"
              /\ proc[v].pc = "recording" => FailedChecks(proc[v].run)
              /\ proc[v].result # 0 => /\ proc[v].result \in 1 .. started
                                       /\ runs[proc[v].result] = "clean")'
  <2>1. proc[v].pc \in {"judging", "recording"} => proc[v].run \in 1 .. started
    BY DEF IInv, GoodProc
  <2>2. \/ v = w /\ proc'[v] = p
        \/ v # w /\ proc'[v] = proc[v]
    BY <1>1
  <2>3. proc'[v].result # 0 => /\ proc'[v].result \in 1 .. started'
                               /\ runs'[proc'[v].result] = "clean"
    BY <1>2, <2>2 DEF TInv
  <2>4. CASE v = w
    BY <2>2, <2>3, <2>4
  <2>5. CASE v # w
    BY <1>2, <2>1, <2>2, <2>3, <2>5 DEF TInv, FailedChecks
  <2>6. QED
    BY <2>4, <2>5
<1>5. QED
  BY <1>3, <1>4 DEF TInv

\* A worker goes on, is raised out of healing, or commits one row.
LEMMA TrustMoves ==
    ASSUME IInv, TInv, RunsKept, NEW w \in Worker,
           NEW next \in PC \ {"judging", "recording"}, NEW old, NEW new,
           \/ Goto(w, next) /\ UNCHANGED incidents
           \/ Raise(w)
           \/ proc[w].inc # 0 /\ Write(w, old, new, next)
    PROVE  TInv'
<1>1. proc \in [Worker -> Proc] /\ incidents \in [Incident -> Row]
  BY DEF IInv, TypeOK
<1>2. CASE Goto(w, next) /\ UNCHANGED incidents
  <2> DEFINE p == Continue(proc[w], next)
  <2>1. p.result = proc[w].result /\ p.pc = next
    BY <1>1, HealingAssumption DEF Continue, Rest, Proc
  <2>2. RowsKept
    BY <1>2 DEF RowsKept
  <2>3. proc' = [proc EXCEPT ![w] = p]
    BY <1>2 DEF Goto
  <2> HIDE DEF p
  <2>4. QED
    BY <2>1, <2>2, <2>3, TrustKept
<1>3. CASE Raise(w)
  <2> DEFINE p == Continue([proc[w] EXCEPT !.result = 0], "reporting")
  <2>1. p.result = 0 /\ p.pc = "reporting"
    BY <1>1 DEF Continue, Rest, Proc
  <2>2. RowsKept
    BY <1>3 DEF RowsKept, Raise
  <2>3. proc' = [proc EXCEPT ![w] = p]
    BY <1>3 DEF Raise
  <2> HIDE DEF p
  <2>4. QED
    BY <2>1, <2>2, <2>3, TrustKept
<1>4. CASE proc[w].inc # 0 /\ Write(w, old, new, next)
  <2> DEFINE m == Merge(incidents[proc[w].inc], old, new)
             p == Continue([proc[w] EXCEPT !.seen = m], next)
  <2>1. p.result = proc[w].result /\ p.pc = next
    BY <1>1 DEF Continue, Rest, Proc
  <2>2. m.detRun = incidents[proc[w].inc].detRun
    BY DEF Merge
  <2>3. proc[w].inc \in Incident
    BY <1>4, Held
  <2>4. incidents' = [incidents EXCEPT ![proc[w].inc] = m]
        /\ proc' = [proc EXCEPT ![w] = p]
    BY <1>4 DEF Write
  <2> HIDE DEF m, p
  <2>5. RowsKept
    BY <1>1, <2>2, <2>3, <2>4 DEF RowsKept
  <2>6. QED
    BY <2>1, <2>4, <2>5, TrustKept
<1>5. QED
  BY <1>2, <1>3, <1>4

\* A worker begins, resumes, or comes to rest.
LEMMA TrustRests ==
    ASSUME IInv, TInv, RunsKept, NEW w \in Worker,
           Begin(w) \/ Resume(w) \/ Report(w) \/ Die(w)
    PROVE  TInv'
<1>1. proc \in [Worker -> Proc] /\ incidents \in [Incident -> Row]
      /\ started \in 0 .. MaxRuns /\ claim \in 0 .. started
  BY HealingAssumption DEF IInv, TypeOK, Stamp
<1>2. RowsKept
  BY DEF RowsKept, Begin, Resume, Report, Die
<1>3. CASE Begin(w)
  <2> DEFINE p == [Rest EXCEPT !.pc = "collecting", !.run = started + 1]
  <2>1. p.result = 0 /\ p.pc = "collecting" /\ proc' = [proc EXCEPT ![w] = p]
    BY <1>3 DEF Begin, Rest
  <2> HIDE DEF p
  <2>2. QED
    BY <1>2, <2>1, TrustKept
<1>4. CASE Report(w) \/ Die(w)
  <2>1. Rest.result = 0 /\ Rest.pc = "idle" /\ proc' = [proc EXCEPT ![w] = Rest]
    BY <1>4 DEF Report, Die, Rest
  <2>2. QED
    BY <1>2, <2>1, TrustKept
<1>5. CASE Resume(w)
  <2> DEFINE p == [Rest EXCEPT !.pc = IF runs[claim] = "running" THEN "collecting"
                                                               ELSE "judging",
                               !.run = claim]
  <2>1. /\ p.result = 0 /\ p.run = claim /\ proc' = [proc EXCEPT ![w] = p]
        /\ p.pc = IF runs[claim] = "running" THEN "collecting" ELSE "judging"
        /\ UNCHANGED <<runs, started, incidents>>
    BY <1>5 DEF Resume, Rest
  <2> HIDE DEF p
  <2>2. \A v \in Worker : proc'[v] = IF v = w THEN p ELSE proc[v]
    BY <1>1, <2>1
  <2>3. QED
    BY <2>1, <2>2 DEF TInv, FailedChecks
<1>6. QED
  BY <1>3, <1>4, <1>5

\* The end of a collection, and its judgement.
LEMMA TrustJudges ==
    ASSUME IInv, TInv, RunsKept, NEW w \in Worker,
           FinishCollection(w) \/ Judge(w) \/ OpenIncident(w)
    PROVE  TInv'
<1>1. proc \in [Worker -> Proc] /\ incidents \in [Incident -> Row]
      /\ started \in 0 .. MaxRuns /\ runs \in [Run -> RunState]
      /\ GoodProc(proc[w], incidents)
  BY DEF IInv, TypeOK
<1>2. proc[w].run \in 1 .. started /\ proc[w].run \in Run
  <2>1. proc[w].pc # "idle"
    BY DEF FinishCollection, Judge, OpenIncident
  <2>2. proc[w].run \in 1 .. started
    BY <1>1, <2>1 DEF GoodProc
  <2>3. QED
    BY <1>1, <2>2, HealingAssumption DEF Run
<1>3. CASE FinishCollection(w)
  <2> DEFINE p == Continue(proc[w], "judging")
  <2>1. /\ p.result = proc[w].result /\ p.pc = "judging" /\ p.run = proc[w].run
    BY <1>1 DEF Continue, Proc
  <2>2. proc' = [proc EXCEPT ![w] = p] /\ UNCHANGED <<incidents, started>>
        /\ runs'[proc[w].run] # "running"
    BY <1>1, <1>2, <1>3, OutcomesAssumption DEF FinishCollection, Goto
  <2> HIDE DEF p
  <2>3. \A v \in Worker : proc'[v] = IF v = w THEN p ELSE proc[v]
    BY <1>1, <2>2
  <2>4. \A v \in Worker : proc[v].pc \in {"judging", "recording"}
                              => proc[v].run \in 1 .. started
    BY DEF IInv, GoodProc
  <2>5. QED
    BY <2>1, <2>2, <2>3, <2>4 DEF TInv, FailedChecks, RunsKept
<1>4. CASE Judge(w)
  <2>1. proc[w].pc = "judging" /\ UNCHANGED <<incidents, started, runs>>
    BY <1>4 DEF Judge
  <2>2. PICK i \in 0 .. MaxIncidents :
          proc' = [proc EXCEPT ![w] = Continue(
             [@ EXCEPT !.inc = i,
                       !.seen = IF i = 0 THEN NoRow ELSE incidents[i],
                       !.result = IF runs[proc[w].run] = "clean"
                                  THEN proc[w].run ELSE 0],
             IF ~ (runs[proc[w].run] = "clean") THEN "recording"
             ELSE IF i # 0 THEN "retrying" ELSE "reporting")]
    BY <1>4 DEF Judge
  <2> DEFINE q == [proc[w] EXCEPT !.inc = i,
                       !.seen = IF i = 0 THEN NoRow ELSE incidents[i],
                       !.result = IF runs[proc[w].run] = "clean"
                                  THEN proc[w].run ELSE 0]
             next == IF ~ (runs[proc[w].run] = "clean") THEN "recording"
                     ELSE IF i # 0 THEN "retrying" ELSE "reporting"
             p == Continue(q, next)
  <2>3. q.run = proc[w].run
        /\ q.result = IF runs[proc[w].run] = "clean" THEN proc[w].run ELSE 0
    BY <1>1 DEF Proc
  <2> HIDE DEF q
  <2>4. p.pc = next /\ p.result = q.result /\ (p.pc = "recording" => p.run = q.run)
    BY DEF Continue, Rest
  <2>5. proc' = [proc EXCEPT ![w] = p]
    BY <1>1, <2>2 DEF q
  <2> HIDE DEF p
  <2>6. \A v \in Worker : proc'[v] = IF v = w THEN p ELSE proc[v]
    BY <1>1, <2>5
  <2>7. QED
    BY <1>2, <2>1, <2>3, <2>4, <2>6 DEF TInv, FailedChecks
<1>5. CASE OpenIncident(w)
  <2>1. proc[w].pc = "recording" /\ UNCHANGED <<started, runs>>
    BY <1>5 DEF OpenIncident
  <2> DEFINE row == [NoRow EXCEPT
                     !.status = "degraded", !.class = Classification(runs[proc[w].run]),
                     !.action = Recommended(runs[proc[w].run]),
                     !.detRun = proc[w].run, !.detectedAt = started,
                     !.evidence.drifted =
                         Classification(runs[proc[w].run]) = "extraction_drift"]
  <2>2. PICK i \in Incident :
          /\ incidents' = [incidents EXCEPT ![i] = row]
          /\ proc' = [proc EXCEPT ![w] = Continue(
                 [@ EXCEPT !.inc = i, !.seen = row], AfterRecord(row))]
    BY <1>5 DEF OpenIncident
  <2>3. row.detRun = proc[w].run
    BY DEF NoRow
  <2> DEFINE q == [proc[w] EXCEPT !.inc = i, !.seen = row]
             p == Continue(q, AfterRecord(row))
  <2>4. q.result = proc[w].result
    BY <1>1 DEF Proc
  <2>5. proc' = [proc EXCEPT ![w] = p]
    BY <1>1, <2>2
  <2>6. AfterRecord(row) \in {"observing", "reporting"}
    BY DEF AfterRecord
  <2> HIDE DEF row, q
  <2>7. p.result = proc[w].result /\ p.pc \notin {"judging", "recording"}
    BY <2>4, <2>6 DEF Continue, Rest
  <2> HIDE DEF p
  <2>8. \A v \in Worker : proc'[v] = IF v = w THEN p ELSE proc[v]
    BY <1>1, <2>5
  <2>9. \A j \in Incident : incidents'[j] = IF j = i THEN row ELSE incidents[j]
    BY <1>1, <2>2
  <2>10. QED
    BY <1>2, <2>1, <2>3, <2>7, <2>8, <2>9 DEF TInv, FailedChecks
<1>6. QED
  BY <1>3, <1>4, <1>5

\* The steps that hand the verdict over, register a candidate or trigger the
\* fresh collection, each with an assignment of its own.
LEMMA TrustProves ==
    ASSUME IInv, TInv, RunsKept, NEW w \in Worker,
           Register(w) \/ Recollect(w) \/ Verdict(w)
    PROVE  TInv'
<1>1. proc \in [Worker -> Proc] /\ incidents \in [Incident -> Row]
      /\ started \in 0 .. MaxRuns /\ proc[w] \in Proc
  BY DEF IInv, TypeOK
<1>2. proc[w].pc \in Handling
  BY DEF Register, Recollect, Verdict, Handling, PC
<1>3. proc[w].inc \in Incident
  BY <1>2, Held
<1>4. CASE Register(w)
  <2>1. CASE Raise(w)
    BY <2>1, TrustMoves DEF PC
  <2> DEFINE new == [Seen(w) EXCEPT !.status = "validating",
                                    !.evidence.registered = started]
             m == Merge(incidents[proc[w].inc], Seen(w), new)
             p == [proc[w] EXCEPT !.seen = m, !.attempt = Seen(w).attempts,
                                  !.pc = "preflight"]
  <2>2. CASE /\ incidents' = [incidents EXCEPT ![proc[w].inc] = m]
             /\ proc' = [proc EXCEPT ![w].seen = m,
                                     ![w].attempt = Seen(w).attempts,
                                     ![w].pc = "preflight"]
    <3>1. m.detRun = incidents[proc[w].inc].detRun
      BY DEF Merge
    <3> HIDE DEF m
    <3>2. RowsKept
      BY <1>1, <1>3, <2>2, <3>1 DEF RowsKept
    <3>3. p.result = proc[w].result /\ p.pc = "preflight"
      BY <1>1 DEF Proc
    <3>4. proc' = [proc EXCEPT ![w] = p]
      BY <1>1, <2>2 DEF Proc
    <3> HIDE DEF p
    <3>5. QED
      BY <3>2, <3>3, <3>4, TrustKept
  <2>3. QED
    BY <1>4, <2>1, <2>2 DEF Register
<1>5. CASE Recollect(w)
  <2> DEFINE p == [proc[w] EXCEPT !.pc = "collecting_proof", !.proof = started + 1]
  <2>1. p.result = proc[w].result /\ p.pc = "collecting_proof"
    BY <1>1 DEF Proc
  <2>2. proc' = [proc EXCEPT ![w] = p] /\ UNCHANGED incidents
    BY <1>1, <1>5 DEF Recollect, Proc
  <2> HIDE DEF p
  <2>3. QED
    BY <2>1, <2>2, TrustKept DEF RowsKept
<1>6. CASE Verdict(w)
  <2> DEFINE r == proc[w].proof
             clean == runs[r] = "clean"
             new == IF clean THEN Recovered(Seen(w), r)
                    ELSE [Seen(w) EXCEPT !.status = "degraded",
                                         !.evidence.used = @ \cup {r}]
             m == Merge(incidents[proc[w].inc], Seen(w), new)
             q == [proc[w] EXCEPT !.result = IF clean THEN r ELSE 0]
             p == Continue(q, "reporting")
  <2>1. /\ incidents' = [incidents EXCEPT ![proc[w].inc] = m]
        /\ proc' = [proc EXCEPT ![w] = p]
        /\ UNCHANGED <<started, runs>>
    BY <1>1, <1>6 DEF Verdict
  <2>2. m.detRun = incidents[proc[w].inc].detRun
    BY DEF Merge
  <2> HIDE DEF new, m
  <2>3. RowsKept
    BY <1>1, <1>3, <2>1, <2>2 DEF RowsKept
  <2>4. r \in 1 .. started
    BY <1>6, WorkerGood DEF Verdict, GoodProc, Proving
  <2>5. p.pc = "reporting" /\ p.result = IF clean THEN r ELSE 0
    BY <1>1 DEF Continue, Rest, Proc
  <2> HIDE DEF p, q
  <2>6. \A v \in Worker : proc'[v] = IF v = w THEN p ELSE proc[v]
    BY <1>1, <2>1
  <2>7. \A v \in Worker : proc[v].pc \in {"judging", "recording"}
                              => proc[v].run \in 1 .. started
    BY DEF IInv, GoodProc
  <2>8. QED
    BY <2>1, <2>3, <2>4, <2>5, <2>6, <2>7 DEF TInv, FailedChecks, RowsKept
<1>7. QED
  BY <1>4, <1>5, <1>6

\* Every other step of a worker only goes on, is raised, or commits.
LEMMA TrustSteps ==
    ASSUME IInv, TInv, RunsKept, NEW w \in Worker,
           \/ UpdateIncident(w) \/ Retry(w)
           \/ Refuse(w) \/ Observe(w) \/ Start(w) \/ ResumeHealing(w)
           \/ Post(w) \/ PostFails(w) \/ ReachGate(w) \/ GiveUpGate(w)
           \/ Preflight(w) \/ Reject(w) \/ RecordRejection(w)
           \/ Escalate(w) \/ Approve(w) \/ ApproveFails(w)
           \/ Deployed(w) \/ GiveUpDeployment(w)
           \/ RecollectFails(w) \/ FinishProof(w) \/ ProofFails(w)
           \/ BeginValidation(w)
    PROVE  TInv'
<1> DEFINE Others == PC \ {"judging", "recording"}
           Moves == \E next \in Others :
                       \/ Goto(w, next) /\ UNCHANGED incidents
                       \/ Raise(w)
                       \/ \E old, new : proc[w].inc # 0 /\ Write(w, old, new, next)
<1>1. Moves => TInv'
  BY TrustMoves
<1>2. proc[w].pc \in Handling => proc[w].inc # 0
  BY Held
<1>3. {"reporting", "escalating", "observing", "starting", "resuming",
       "rejoining", "posting", "awaiting_gate", "registering", "approving",
       "rejecting", "rejected", "deploying", "recollecting", "verifying",
       "proof_failed", "verdict"} \subseteq Others
  BY DEF PC
<1> HIDE DEF Others
<1>4. ASSUME NEW row, NEW next \in Others, proc[w].pc \in Handling,
             RecordFailure(w, row, next)
      PROVE  Moves
  BY <1>2, <1>4 DEF RecordFailure
<1>5. Abandon(w) /\ proc[w].pc \in Handling => Moves
  BY <1>3, <1>4 DEF Abandon
<1>6. CASE UpdateIncident(w) \/ Retry(w)
  <2>1. \A row : AfterRecord(row) \in Others
    BY <1>3 DEF AfterRecord
  <2>2. Moves
    BY <1>2, <1>3, <1>6, <2>1 DEF UpdateIncident, Retry, Commit, Handling, PC
  <2>3. QED
    BY <1>1, <2>2
<1>7. CASE Refuse(w) \/ Observe(w) \/ Start(w) \/ ResumeHealing(w)
  <2>1. proc[w].pc \in Handling
    BY <1>7 DEF Refuse, Observe, Start, ResumeHealing, Handling, PC
  <2>2. CASE Refuse(w) \/ Observe(w)
    BY <1>1, <1>3, <1>5, <2>1, <2>2 DEF Refuse, Observe
  <2>3. CASE Start(w) \/ ResumeHealing(w)
    BY <1>1, <1>2, <1>3, <2>1, <2>3 DEF Start, ResumeHealing, Commit
  <2>4. QED
    BY <1>7, <2>2, <2>3
<1>8. CASE \/ Post(w) \/ PostFails(w) \/ ReachGate(w) \/ GiveUpGate(w)
           \/ Preflight(w) \/ Reject(w)
  <2>1. proc[w].pc \in Handling
    BY <1>8 DEF Post, PostFails, ReachGate, GiveUpGate, Preflight, Reject,
       Handling, PC
  <2>2. QED
    BY <1>1, <1>3, <1>5, <1>8, <2>1 DEF Post, PostFails, ReachGate, GiveUpGate,
       Preflight, Reject
<1>9. CASE \/ Approve(w) \/ ApproveFails(w) \/ GiveUpDeployment(w)
           \/ RecollectFails(w) \/ FinishProof(w)
  <2>1. proc[w].pc \in Handling
    BY <1>9 DEF Approve, ApproveFails, GiveUpDeployment, RecollectFails,
       FinishProof, Handling, PC
  <2>2. QED
    BY <1>1, <1>3, <1>5, <1>9, <2>1 DEF Approve, ApproveFails, GiveUpDeployment,
       RecollectFails, FinishProof
<1>10. CASE \/ RecordRejection(w) \/ ProofFails(w) \/ Escalate(w) \/ Deployed(w)
            \/ BeginValidation(w)
  <2>1. proc[w].pc \in Handling
    BY <1>10 DEF RecordRejection, ProofFails, Escalate, Deployed,
       BeginValidation, Handling, PC
  <2>2. CASE RecordRejection(w) \/ ProofFails(w)
    BY <1>1, <1>3, <1>4, <2>1, <2>2 DEF RecordRejection, ProofFails
  <2>3. CASE Escalate(w) \/ Deployed(w) \/ BeginValidation(w)
    BY <1>1, <1>2, <1>3, <1>5, <2>1, <2>3
       DEF Escalate, Deployed, BeginValidation, Commit
  <2>4. QED
    BY <1>10, <2>2, <2>3
<1>11. QED
  BY <1>6, <1>7, <1>8, <1>9, <1>10

\* However many workers judge and heal at once, a run that an invocation may
\* report as trusted passed every check, no incident is open at that moment,
\* and the run is none that an incident was opened for (_trusted_run_id).
THEOREM TrustIsProven == Spec => []TrustedIsProven
<1>1. Init => TInv
  BY HealingAssumption DEF Init, TInv, NoRow, Rest
<1>2. IInv /\ TInv /\ [Next]_vars => TInv'
  <2> SUFFICES ASSUME IInv, TInv, [Next]_vars
               PROVE  TInv'
    OBVIOUS
  <2>1. CASE UNCHANGED vars
    BY <2>1 DEF TInv, FailedChecks, vars
  <2>2. CASE Next
    <3>1. RunsKept
      BY <2>2, NextKeepsRuns
    <3>2. CASE Provider
      BY <3>2 DEF Provider, TInv, FailedChecks
    <3>3. CASE \E w \in Worker : Begin(w) \/ Resume(w) \/ Step(w) \/ Die(w)
      BY <3>1, <3>3, TrustRests, TrustJudges, TrustProves, TrustSteps DEF Step
    <3>4. QED
      BY <2>2, <3>2, <3>3 DEF Next
  <2>3. QED
    BY <2>1, <2>2
<1>3. IInv /\ TInv => TrustedIsProven
  <2> SUFFICES ASSUME IInv, TInv, NEW w \in Worker,
                      proc[w].pc = "reporting", Trusts(w) # 0
               PROVE  /\ runs[Trusts(w)] = "clean"
                      /\ ActiveIncidents = {}
                      /\ \A i \in Incident : incidents[i].detRun # Trusts(w)
    BY DEF TrustedIsProven
  <2>1. ActiveIncidents = {} /\ Trusts(w) = proc[w].result
    BY DEF Trusts, Healthy
  <2>2. runs[Trusts(w)] = "clean" /\ Trusts(w) \in 1 .. started
    BY <2>1 DEF TInv
  <2>3. \A i \in Incident : incidents[i].detRun # Trusts(w)
    BY <2>2 DEF TInv, FailedChecks
  <2>4. QED
    BY <2>1, <2>2, <2>3
<1>4. QED
  BY <1>1, <1>2, <1>3, InductiveInvariant, PTL DEF Spec

=============================================================================
