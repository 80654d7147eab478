----------------------- MODULE HealingHistory_proofs -----------------------
(***************************************************************************)
(* Proofs about HealingHistory, for every set of workers, every budget and *)
(* every number of runs and incidents, deaths included: as long as no two  *)
(* invocations have decided at once, one active incident, drift closed by a*)
(* verified repair only, requests within the budget, no request on a live  *)
(* repair, approvals of what was reviewed, no repair left behind but by a  *)
(* death; and the implementation of IncidentLifecycle.  No fairness is     *)
(* used, nor any assumption beyond those of Healing.                       *)
(***************************************************************************)
EXTENDS Healing_proofs, HealingHistory

-----------------------------------------------------------------------------
(* The inductive invariant, up to the first overlap.                       *)

\* A repair is under way in the worker's hands: its attempt is counted and not
\* reviewed, or its candidate is registered and not judged by a fresh run.
Posted == {"posting", "awaiting_gate", "registering"}
Reviewed == {"preflight", "approving", "rejecting", "rejected", "deploying",
             "recollecting", "collecting_proof", "proof_failed", "verifying"}
Driving == Posted \cup Reviewed \cup {"verdict"}
Repairing == Driving \cup {"observing", "starting", "resuming", "rejoining",
                           "escalating"}

\* The pcs at which the provider's job stands at the gate the worker saw.
AtGate == {"rejoining", "registering", "preflight", "approving", "rejecting"}

\* What a row says of its repairs; sent: the requests sent for it.
GoodRepair(row, sent) ==
    /\ row.status = "absent" => row.attempts = 0
    /\ sent <= row.attempts
    /\ row.status = "recovered" /\ row.class = "extraction_drift"
           => RepairVerified(row)
    /\ row.evidence.registered <= started
    /\ \A r \in row.evidence.used : r <= started

\* Incidents are opened one after the other, the earlier ones being closed.
InOrder ==
    \A i, j \in Incident :
        j < i /\ incidents[i].status # "absent"
            => /\ incidents[j].status = "recovered"
               /\ incidents[j].verRun <= incidents[i].detectedAt

\* No incident is in flight but by a death.
NoneInRepair == InFlight \subseteq orphaned

\* What worker w holds, being p: the row as it is, at the point of its repair
\* that its program counter tells.
InHand(w, p) ==
    /\ p.pc \in {"idle", "collecting", "judging", "reporting"} => p.inc = 0
    /\ p.inc # 0 => p.seen = incidents[p.inc] /\ p.seen.status \in Active
    /\ p.pc = "recording" /\ p.inc = 0 => Healthy
    /\ p.pc \in Repairing => p.seen.action = "request_heal"
    /\ p.pc = "starting" => p.seen.status = "degraded"
    /\ p.pc \in {"resuming", "rejoining"}
           => p.seen.status \in Resumable /\ p.seen.attempts >= 1
    /\ p.pc \in Posted => p.seen.status = "healing"
    /\ p.pc = "posting" => posts[p.inc] < p.seen.attempts
    /\ p.pc \in Reviewed => p.seen.status = "validating"
    /\ p.pc = "verdict" => p.seen.status = "verifying"
    /\ p.pc \in Reviewed => p.attempt = p.seen.attempts
    /\ p.pc \in Reviewed \cup {"verdict"} => p.seen.evidence.registered # 0
    /\ p.pc = "escalating" => /\ p.seen.status = "degraded"
                              /\ p.seen.attempts = MaxAttempts
    /\ p.pc \in Proving \cup {"recollecting"}
           => p.seen.evidence.approved = p.seen.attempts
    /\ p.pc \in Proving => /\ p.proof > p.seen.evidence.registered
                           /\ p.proof \notin p.seen.evidence.used
    /\ p.pc \in {"starting", "posting"} => job.st \notin Live
    /\ p.pc \in AtGate => job.st = "gate" /\ w \in job.previewed

\* Worker w alone is in charge of what is in flight.
Custody(w) == proc[w].pc \notin Driving => NoneInRepair

RowsGood == \A i \in Incident : GoodRepair(incidents[i], posts[i])

\* What the one worker that decides relies on.
AInv(w) ==
    /\ RowsGood
    /\ InOrder
    /\ InHand(w, proc[w])
    /\ Custody(w)

\* What holds while nobody overlaps anybody.
Orderly ==
    /\ RowsGood
    /\ InOrder
    /\ \A w \in Worker : InHand(w, proc[w])
    /\ (\A w \in Worker : proc[w].pc \notin Driving) => NoneInRepair
    /\ ~ Overlap

HInv ==
    /\ overlapped \in BOOLEAN
    /\ ~ overlapped => Orderly

-----------------------------------------------------------------------------
(* How one row may change.                                                 *)

\* The attempts of an incident and its detection stay.
Kindred(old, new) ==
    new.attempts = old.attempts /\ new.detectedAt = old.detectedAt

\* One row of an active incident changes, as the lifecycle sees it.
Noted(old, new) ==
    /\ Kindred(old, new) /\ new.action = old.action
    /\ new.status = old.status \/ {old.status, new.status} \subseteq Lifecycle
Reclassified(old, new) ==
    /\ Kindred(old, new)
    /\ old.status = "degraded" /\ new.status = "degraded"
Attempted(old, new) ==
    /\ new.detectedAt = old.detectedAt
    /\ old.action = "request_heal" /\ new.action = old.action
    /\ old.status = "degraded" /\ new.status = "healing"
    /\ old.attempts < MaxAttempts /\ new.attempts = old.attempts + 1
TakenUp(old, new) ==
    /\ Kindred(old, new)
    /\ old.action = "request_heal" /\ new.action = old.action
    /\ old.status = "degraded" /\ new.status = "healing"
    /\ old.attempts >= 1
HandedBack(old, new) ==
    /\ Kindred(old, new) /\ new.action = old.action
    /\ old.status \in Lifecycle /\ new.status = "degraded"
HandedOver(old, new) ==
    /\ Kindred(old, new)
    /\ old.status = "degraded" /\ old.attempts = MaxAttempts
    /\ new.status = "manual_review" /\ new.action = "escalate"
Closed(old, new) ==
    /\ new.detectedAt = old.detectedAt
    /\ \/ old.status \in Lifecycle
       \/ old.status = "degraded" /\ old.action = "retry"
    /\ new.status = "recovered"
    /\ new.verRun \in Run /\ new.verRun > old.detectedAt

Changes(old, new) ==
    \/ Noted(old, new) \/ Reclassified(old, new) \/ Attempted(old, new)
    \/ TakenUp(old, new) \/ HandedBack(old, new) \/ HandedOver(old, new)
    \/ Closed(old, new)

\* The one incident of a healthy collector.
Opens(i, new) ==
    /\ Healthy
    /\ incidents[i].status = "absent"
    /\ \A j \in Incident : j < i => incidents[j].status # "absent"
    /\ new.status = "degraded" /\ new.attempts = 0
    /\ new.detectedAt \in 1 .. MaxRuns

Moved ==
    \/ UNCHANGED incidents
    \/ \E i \in Incident, new \in Row :
          /\ incidents' = [incidents EXCEPT ![i] = new]
          /\ \/ IsActive(i) /\ Changes(incidents[i], new)
             \/ Opens(i, new)

-----------------------------------------------------------------------------
(* Lemmas about one step of the worker.                                    *)

\* The values the rows, the counters and the worker take.
LEMMA Typed ==
    ASSUME IInv, NEW w \in Worker
    PROVE  /\ started \in Nat /\ started <= MaxRuns
           /\ incidents \in [Incident -> Row]
           /\ proc \in [Worker -> Proc] /\ proc[w] \in Proc
           /\ posts \in [Incident -> Nat]
           /\ job \in Job
           /\ proc[w].inc # 0 => proc[w].inc \in Incident
BY HealingAssumption DEF IInv, TypeOK, Proc, Incident

\* Collections may start, the rows as they were.
LEMMA RowsStay ==
    ASSUME IInv, RowsGood, InOrder, UNCHANGED <<incidents, posts>>,
           started' \in Nat, started <= started'
    PROVE  RowsGood' /\ InOrder'
<1>1. RowsGood'
  <2> SUFFICES ASSUME NEW i \in Incident
               PROVE  GoodRepair(incidents[i], posts[i])'
    BY DEF RowsGood
  <2>1. GoodRepair(incidents[i], posts[i]) /\ incidents[i] \in Row
        /\ started \in Nat
    BY HealingAssumption DEF RowsGood, IInv, TypeOK
  <2>2. /\ incidents[i].evidence.registered \in Nat
        /\ \A r \in incidents[i].evidence.used : r \in Nat
    BY <2>1, HealingAssumption DEF Row, Evidence, Stamp, Run
  <2>3. QED
    BY <2>1, <2>2 DEF GoodRepair, RepairVerified
<1>2. InOrder'
  BY DEF InOrder
<1>3. QED
  BY <1>1, <1>2

\* A step that leaves the rows alone.
LEMMA RowsAlone ==
    ASSUME IInv, NEW w \in Worker, AInv(w), UNCHANGED <<incidents, posts>>,
           started' \in Nat, started <= started', InHand(w, proc[w])',
           Custody(w)'
    PROVE  AInv(w)' /\ Moved
BY RowsStay DEF AInv, Moved

\* What is in flight by a death stays so.
LEMMA OrphansStay ==
    ASSUME Remember, NoneInRepair, InFlight' \subseteq InFlight
    PROVE  NoneInRepair'
BY DEF Remember, NoneInRepair

\* A worker that drove nothing, or goes on driving, the rows as they were.
LEMMA CustodyStays ==
    ASSUME Remember, NEW w \in Worker, Custody(w), UNCHANGED incidents,
           proc[w].pc \notin Driving \/ proc'[w].pc \in Driving
    PROVE  Custody(w)'
<1>1. InFlight' = InFlight
  BY DEF InFlight
<1>2. QED
  BY <1>1, OrphansStay DEF Custody

\* With the row in hand as it is, a commit writes what the worker wants.
LEMMA MergeCurrent ==
    ASSUME NEW old \in Row, NEW new \in Row,
           new.detRun = old.detRun, new.detectedAt = old.detectedAt
    PROVE  Merge(old, old, new) = new
BY DEF Merge, Column, Row

\* The open incident's row is replaced.
LEMMA RowReplaced ==
    ASSUME IInv, NEW w \in Worker, AInv(w), NEW i \in Incident, IsActive(i),
           NEW new \in Row, new.status # "absent",
           new.detectedAt = incidents[i].detectedAt,
           incidents' = [incidents EXCEPT ![i] = new],
           UNCHANGED started,
           \A j \in Incident : j # i => posts'[j] = posts[j],
           GoodRepair(new, posts'[i])
    PROVE  /\ incidents'[i] = new
           /\ RowsGood'
           /\ InOrder'
           /\ new.status \notin Lifecycle => NoneInRepair'
<1>1. \A j \in Incident : incidents'[j] = IF j = i THEN new ELSE incidents[j]
  BY Typed
<1>2. incidents[i].status \notin {"absent", "recovered"}
  BY DEF IsActive, Active, Lifecycle
<1>3. RowsGood'
  <2>1. \A j \in Incident : GoodRepair(incidents'[j], posts'[j])
    BY <1>1 DEF AInv, RowsGood
  <2>2. QED
    BY <2>1 DEF GoodRepair, RepairVerified, RowsGood
<1>4. InOrder'
  BY <1>1, <1>2 DEF AInv, InOrder
<1>5. \A j \in Incident : j # i => incidents[j].status \in {"absent", "recovered"}
  <2> SUFFICES ASSUME NEW j \in Incident, j # i, incidents[j].status # "absent"
               PROVE  incidents[j].status = "recovered"
    OBVIOUS
  <2>1. i < j \/ j < i
    BY DEF Incident
  <2>2. QED
    BY <1>2, <2>1 DEF AInv, InOrder
<1>6. new.status \notin Lifecycle => NoneInRepair'
  BY <1>1, <1>5 DEF NoneInRepair, InFlight, Lifecycle
<1>7. QED
  BY <1>1, <1>3, <1>4, <1>6

\* A worker that holds no incident.
LEMMA HoldsNone ==
    ASSUME NEW w \in Worker,
           proc'[w].pc \in {"idle", "collecting", "judging", "reporting"},
           proc'[w].inc = 0
    PROVE  InHand(w, proc[w])'
BY DEF InHand, Repairing, Driving, Posted, Reviewed, AtGate, Proving

\* The row in the hands of a worker.
LEMMA RowInHand ==
    ASSUME IInv, NEW w \in Worker, AInv(w), proc[w].inc # 0
    PROVE  /\ proc[w].inc \in Incident
           /\ Seen(w) = incidents[proc[w].inc]
           /\ Seen(w) \in Row
           /\ Seen(w).status \in Active /\ IsActive(proc[w].inc)
           /\ GoodRepair(Seen(w), posts[proc[w].inc])
           /\ GoodRow(Seen(w))
<1>1. proc[w].inc \in Incident /\ incidents[proc[w].inc] \in Row
  BY Typed
<1>2. proc[w].seen = incidents[proc[w].inc] /\ proc[w].seen.status \in Active
  BY DEF AInv, InHand
<1>3. QED
  BY <1>1, <1>2 DEF Seen, IsActive, AInv, RowsGood, IInv

\* record_healing_failure, or another commit, after which the worker reports.
LEMMA CommitEnds ==
    ASSUME IInv, NEW w \in Worker, AInv(w), proc[w].inc # 0,
           NEW new \in Row, new.status # "absent",
           new.status \in Lifecycle => NoneInRepair',
           new.detRun = Seen(w).detRun, new.detectedAt = Seen(w).detectedAt,
           Commit(w, new, "reporting"),
           UNCHANGED started,
           \A j \in Incident : j # proc[w].inc => posts'[j] = posts[j],
           GoodRepair(new, posts'[proc[w].inc]),
           Changes(Seen(w), new)
    PROVE  AInv(w)' /\ Moved
<1>1. /\ proc[w].inc \in Incident /\ Seen(w) = incidents[proc[w].inc]
      /\ Seen(w) \in Row /\ IsActive(proc[w].inc)
  BY RowInHand
<1>2. incidents' = [incidents EXCEPT ![proc[w].inc] = new]
  BY <1>1, MergeCurrent DEF Commit, Write
<1>3. /\ RowsGood'
      /\ InOrder' /\ NoneInRepair'
  BY <1>1, <1>2, RowReplaced
<1>4. proc'[w].pc = "reporting" /\ proc'[w].inc = 0
  BY Typed DEF Commit, Write, Continue, Rest
<1>5. InHand(w, proc[w])'
  BY <1>4, HoldsNone
<1>6. QED
  BY <1>1, <1>2, <1>3, <1>5 DEF AInv, Custody, Moved

\* A commit after which the worker goes on with the row it wrote.
LEMMA CommitGoes ==
    ASSUME IInv, NEW w \in Worker, AInv(w), proc[w].inc # 0,
           NEW new \in Row, new.status \in Active,
           new.detRun = Seen(w).detRun, new.detectedAt = Seen(w).detectedAt,
           NEW next \in PC \ {"reporting"},
           Commit(w, new, next),
           UNCHANGED <<started, posts>>,
           GoodRepair(new, posts[proc[w].inc]),
           Changes(Seen(w), new)
    PROVE  /\ RowsGood'
           /\ InOrder' /\ Moved
           /\ new.status \notin Lifecycle => NoneInRepair'
           /\ proc'[w].pc = next /\ proc'[w].inc = proc[w].inc
           /\ proc'[w].seen = new /\ proc'[w].attempt = proc[w].attempt
           /\ proc'[w].proof = proc[w].proof
           /\ incidents'[proc[w].inc] = new
<1>1. /\ proc[w].inc \in Incident /\ Seen(w) = incidents[proc[w].inc]
      /\ Seen(w) \in Row /\ IsActive(proc[w].inc)
  BY RowInHand
<1>2. /\ incidents' = [incidents EXCEPT ![proc[w].inc] = new]
      /\ proc' = [proc EXCEPT ![w] = Continue([@ EXCEPT !.seen = new], next)]
  BY <1>1, MergeCurrent DEF Commit, Write
<1>3. new.status # "absent"
  BY DEF Active, Lifecycle
<1>4. /\ incidents'[proc[w].inc] = new
      /\ RowsGood'
      /\ InOrder'
      /\ new.status \notin Lifecycle => NoneInRepair'
  BY <1>1, <1>2, <1>3, RowReplaced
<1>5. proc'[w] = [proc[w] EXCEPT !.seen = new, !.pc = next]
  BY <1>2, Typed DEF Continue, Proc
<1>6. /\ proc'[w].pc = next /\ proc'[w].inc = proc[w].inc
      /\ proc'[w].seen = new /\ proc'[w].attempt = proc[w].attempt
      /\ proc'[w].proof = proc[w].proof
  BY <1>5, Typed DEF Proc
<1>7. Moved
  BY <1>1, <1>2 DEF Moved
<1>8. QED
  BY <1>4, <1>6, <1>7

-----------------------------------------------------------------------------
(* Each action keeps the invariant and moves the lifecycle.                *)

\* A worker begins or resumes, a collection ends, a worker comes to rest.
LEMMA RestsAlone ==
    ASSUME IInv, Remember, NEW w \in Worker, AInv(w),
           Begin(w) \/ Resume(w) \/ FinishCollection(w) \/ Report(w) \/ Die(w)
    PROVE  AInv(w)' /\ Moved
<1>1. /\ UNCHANGED <<incidents, posts>>
      /\ started' \in Nat /\ started <= started'
  BY Typed DEF Begin, Resume, FinishCollection, Report, Die, StartRun
<1>2. /\ proc'[w].pc \in {"idle", "collecting", "judging", "reporting"}
      /\ proc'[w].inc = 0
  <2>1. CASE FinishCollection(w)
    <3>1. proc'[w] = [proc[w] EXCEPT !.pc = "judging"] /\ proc[w].pc = "collecting"
      BY <2>1, Typed DEF FinishCollection, Goto, Continue
    <3>2. proc[w].inc = 0
      BY <3>1 DEF AInv, InHand
    <3>3. QED
      BY <3>1, <3>2, Typed DEF Proc
  <2>2. CASE Begin(w) \/ Resume(w)
    <3>1. PICK pc \in {"collecting", "judging"}, r \in {started + 1, claim} :
             proc' = [proc EXCEPT ![w] = [Rest EXCEPT !.pc = pc, !.run = r]]
      BY <2>2 DEF Begin, Resume
    <3>2. proc'[w] = [Rest EXCEPT !.pc = pc, !.run = r]
      BY <3>1, Typed
    <3>3. QED
      BY <3>2 DEF Rest
  <2>3. CASE Report(w) \/ Die(w)
    BY <2>3, Typed DEF Report, Die, Rest
  <2>4. QED
    BY <2>1, <2>2, <2>3
<1>3. Custody(w)'
  <2>1. CASE proc[w].pc \notin Driving
    BY <1>1, <2>1, CustodyStays DEF AInv
  <2>2. CASE proc[w].pc \in Driving
    <3>1. Die(w) /\ proc[w].pc # "reporting" /\ proc'[w].pc = "idle"
      BY <2>2, Typed DEF Begin, Resume, FinishCollection, Report, Die, Rest,
         Driving, Posted, Reviewed
    <3>2. proc[w].inc # 0
      BY <2>2 DEF IInv, GoodProc, Handling, PC, Driving, Posted, Reviewed
    <3>3. InFlight \subseteq {proc[w].inc}
      <4> SUFFICES ASSUME NEW i \in InFlight
                   PROVE  i = proc[w].inc
        OBVIOUS
      <4>1. IsActive(proc[w].inc) /\ proc[w].inc \in Incident
        BY <3>2, RowInHand
      <4>2. i \in Incident /\ IsActive(i)
        BY DEF InFlight, IsActive, Active
      <4>3. ~ (i < proc[w].inc) /\ ~ (proc[w].inc < i)
        BY <4>1, <4>2 DEF AInv, InOrder, IsActive, Active, Lifecycle
      <4>4. QED
        BY <4>1, <4>2, <4>3 DEF Incident
    <3>4. proc[w].inc \in Dropped
      BY <3>1 DEF Dropped
    <3>5. InFlight' = InFlight
      BY <1>1 DEF InFlight
    <3>6. NoneInRepair'
      BY <3>3, <3>4, <3>5 DEF NoneInRepair, Remember
    <3>7. QED
      BY <3>6 DEF Custody
  <2>3. QED
    BY <2>1, <2>2
<1>4. QED
  BY <1>1, <1>2, <1>3, HoldsNone, RowsAlone

\* The provider moves its job, which no repair at its gate depends on.
LEMMA ProviderOrderly ==
    ASSUME IInv, Remember, ~ Overlap', Orderly, Provider
    PROVE  Orderly' /\ UNCHANGED incidents
<1>1. /\ UNCHANGED <<started, incidents, posts, proc>>
      /\ job.st \in {"running", "deploying"}
  BY DEF Provider
<1>2. \A w \in Worker : InHand(w, proc[w])'
  <2> SUFFICES ASSUME NEW w \in Worker
               PROVE  InHand(w, proc[w])'
    OBVIOUS
  <2>1. /\ proc[w].pc \notin {"starting", "posting"}
        /\ proc[w].pc \notin AtGate
    BY <1>1 DEF Orderly, InHand, Live
  <2>2. QED
    BY <1>1, <2>1 DEF Orderly, InHand, Healthy, ActiveIncidents, IsActive
<1>3. RowsGood' /\ InOrder'
  BY <1>1, RowsStay, HealingAssumption DEF Orderly, IInv, TypeOK
<1>4. InFlight' = InFlight
  BY <1>1 DEF InFlight
<1>5. (\A w \in Worker : proc[w].pc \notin Driving)' => NoneInRepair'
  BY <1>1, <1>4, OrphansStay DEF Orderly
<1>6. QED
  BY <1>1, <1>2, <1>3, <1>5 DEF Orderly

\* The checks of a run, and the SELECT of the open incident.
LEMMA JudgeAlone ==
    ASSUME IInv, Remember, NEW w \in Worker, AInv(w), Judge(w)
    PROVE  AInv(w)' /\ Moved
<1>1. proc[w].pc = "judging" /\ UNCHANGED <<started, incidents, posts, job>>
  BY DEF Judge
<1>2. Custody(w)'
  BY <1>1, CustodyStays DEF AInv, Driving, Posted, Reviewed
<1> DEFINE passed == runs[proc[w].run] = "clean"
           next(i) == IF ~ passed THEN "recording"
                      ELSE IF i # 0 THEN "retrying" ELSE "reporting"
           seen(i) == IF i = 0 THEN NoRow ELSE incidents[i]
           q(i) == [proc[w] EXCEPT !.inc = i, !.seen = seen(i),
                                   !.result = IF passed THEN proc[w].run ELSE 0]
<1>3. PICK i \in 0 .. MaxIncidents :
         Newest(i) /\ proc' = [proc EXCEPT ![w] = Continue(q(i), next(i))]
  BY Typed DEF Judge
<1>4. q(i).inc = i /\ q(i).seen = seen(i)
  BY Typed DEF Proc
<1>5. proc'[w] = Continue(q(i), next(i))
  BY <1>3, Typed
<1> HIDE DEF q, passed
<1>6. CASE next(i) = "reporting"
  <2>1. proc'[w].pc = "reporting" /\ proc'[w].inc = 0
    BY <1>5, <1>6 DEF Continue, Rest
  <2>2. QED
    BY <1>1, <1>2, <2>1, Typed, HoldsNone, RowsAlone
<1>7. CASE next(i) # "reporting"
  <2>1. proc'[w] = [q(i) EXCEPT !.pc = next(i)]
    BY <1>5, <1>7 DEF Continue
  <2>2. q(i) \in [pc : PC, run : Stamp, inc : 0 .. MaxIncidents,
                  seen : {seen(i)}, attempt : 0 .. MaxAttempts,
                  proof : Stamp, result : Stamp]
    <3>1. proc[w].run \in Stamp /\ 0 \in Stamp
      BY Typed, HealingAssumption DEF Proc, Stamp
    <3>2. QED
      BY <3>1, Typed DEF q, Proc
  <2>3. /\ proc'[w].pc = next(i) /\ proc'[w].inc = i /\ proc'[w].seen = seen(i)
        /\ next(i) \in {"recording", "retrying"}
        /\ next(i) = "retrying" => i # 0
    BY <1>4, <1>7, <2>1, <2>2
  <2>4. i # 0 => i \in ActiveIncidents /\ incidents'[i] = incidents[i]
    BY <1>1, <1>3 DEF Newest, Healthy
  <2>5. i = 0 => Healthy'
    BY <1>1, <1>3 DEF Newest, Healthy, ActiveIncidents, IsActive, Incident
  <2>6. i # 0 => seen(i) = incidents'[i] /\ seen(i).status \in Active
    BY <2>4 DEF ActiveIncidents, IsActive
  <2>7. InHand(w, proc[w])'
    BY <2>3, <2>5, <2>6 DEF InHand, Repairing, Driving, Posted, Reviewed,
       AtGate, Proving
  <2>8. QED
    BY <1>1, <1>2, <2>7, Typed, RowsAlone
<1>8. QED
  BY <1>6, <1>7

\* A worker goes on without a commit.
LEMMA GoesOn ==
    ASSUME IInv, NEW w \in Worker, NEW next \in PC, Goto(w, next)
    PROVE  /\ proc'[w].pc = next
           /\ next = "reporting" => proc'[w].inc = 0
           /\ next # "reporting" =>
                 /\ proc'[w].inc = proc[w].inc /\ proc'[w].seen = proc[w].seen
                 /\ proc'[w].attempt = proc[w].attempt
                 /\ proc'[w].proof = proc[w].proof
<1>1. proc'[w] = Continue(proc[w], next)
  BY Typed DEF Goto
<1>2. CASE next = "reporting"
  BY <1>1, <1>2 DEF Continue, Rest
<1>3. CASE next # "reporting"
  <2>1. proc'[w] = [proc[w] EXCEPT !.pc = next]
    BY <1>1, <1>3 DEF Continue
  <2>2. QED
    BY <1>3, <2>1, Typed DEF Proc
<1>4. QED
  BY <1>2, <1>3

\* A worker that drives nothing reports, the rows as they were.
LEMMA ReportsAlone ==
    ASSUME IInv, Remember, NEW w \in Worker, AInv(w), proc[w].pc \notin Driving,
           Goto(w, "reporting") \/ Raise(w),
           UNCHANGED <<started, incidents, posts>>
    PROVE  AInv(w)' /\ Moved
<1>1. proc'[w].pc = "reporting" /\ proc'[w].inc = 0
  <2>1. CASE Goto(w, "reporting")
    BY <2>1, GoesOn DEF PC
  <2>2. CASE Raise(w)
    BY <2>2, Typed DEF Raise, Continue, Rest
  <2>3. QED
    BY <2>1, <2>2
<1>2. Custody(w)'
  <2>1. UNCHANGED incidents
    OBVIOUS
  <2>2. QED
    BY <2>1, CustodyStays DEF AInv
<1>3. QED
  BY <1>1, <1>2, Typed, HoldsNone, RowsAlone

\* A row that stays open, with the same attempts, candidate and used runs.
LEMMA StaysGood ==
    ASSUME NEW old, NEW new, NEW sent, GoodRepair(old, sent),
           new.status \in Active, new.attempts = old.attempts,
           new.evidence.registered = old.evidence.registered,
           new.evidence.used = old.evidence.used
    PROVE  GoodRepair(new, sent)
BY DEF GoodRepair, Active, Lifecycle

\* record_healing_failure hands the incident back.
LEMMA FailAlone ==
    ASSUME IInv, NEW w \in Worker, AInv(w), proc[w].inc # 0,
           Seen(w).status \in Lifecycle, Abandon(w), UNCHANGED started,
           \A j \in Incident : j # proc[w].inc => posts'[j] = posts[j],
           posts'[proc[w].inc] <= Seen(w).attempts
    PROVE  AInv(w)' /\ Moved
<1> DEFINE new == [Seen(w) EXCEPT !.status = "degraded"]
<1>1. Seen(w) \in Row /\ GoodRepair(Seen(w), posts[proc[w].inc])
  BY RowInHand
<1>2. Commit(w, new, "reporting")
  BY DEF Abandon, RecordFailure, Commit
<1>3. /\ new \in Row /\ new.status = "degraded"
      /\ new.action = Seen(w).action /\ new.attempts = Seen(w).attempts
      /\ new.detRun = Seen(w).detRun /\ new.detectedAt = Seen(w).detectedAt
      /\ new.evidence = Seen(w).evidence
  BY <1>1, Statuses DEF Row
<1> HIDE DEF new
<1>4. HandedBack(Seen(w), new)
  BY <1>3 DEF HandedBack, Kindred
<1>5. GoodRepair(new, posts'[proc[w].inc])
  BY <1>1, <1>3 DEF GoodRepair
<1>6. new.status \notin Lifecycle /\ new.status # "absent"
  BY <1>3 DEF Lifecycle
<1>7. QED
  BY <1>2, <1>3, <1>4, <1>5, <1>6, CommitEnds DEF Changes

\* The INSERT of an incident: the collector was healthy.
LEMMA OpenIncidentAlone ==
    ASSUME IInv, NEW w \in Worker, AInv(w), OpenIncident(w)
    PROVE  AInv(w)' /\ Moved
<1> DEFINE o == runs[proc[w].run]
           row == [NoRow EXCEPT
                     !.status = "degraded", !.class = Classification(o),
                     !.action = Recommended(o), !.detRun = proc[w].run,
                     !.detectedAt = started,
                     !.evidence.drifted = Classification(o) = "extraction_drift"]
<1>1. /\ proc[w].pc = "recording" /\ proc[w].inc = 0
      /\ UNCHANGED <<started, runs, posts>>
  BY DEF OpenIncident
<1>2. PICK i \in Incident :
         /\ incidents[i].status = "absent"
         /\ \A j \in Incident : j < i => incidents[j].status # "absent"
         /\ incidents' = [incidents EXCEPT ![i] = row]
         /\ proc' = [proc EXCEPT ![w] = Continue(
               [@ EXCEPT !.inc = i, !.seen = row], AfterRecord(row))]
  BY DEF OpenIncident
<1>3. Healthy /\ NoneInRepair
  <2>1. Healthy
    BY <1>1 DEF AInv, InHand
  <2>2. QED
    BY <2>1 DEF Healthy, ActiveIncidents, IsActive, Active, NoneInRepair, InFlight
<1>4. started \in 1 .. MaxRuns /\ proc[w].run \in 1 .. started
  BY <1>1, Typed DEF IInv, GoodProc
<1>5. /\ row \in Row /\ row.status = "degraded" /\ row.attempts = 0
      /\ row.detectedAt = started /\ row.action = Recommended(o)
      /\ row.evidence.registered = 0 /\ row.evidence.used = {}
  <2>1. proc[w].run \in Stamp /\ started \in Stamp
    BY <1>4, Typed, HealingAssumption DEF Stamp
  <2>2. /\ NoRow \in Row /\ NoRow.attempts = 0
        /\ NoRow.evidence \in Evidence
        /\ NoRow.evidence.registered = 0 /\ NoRow.evidence.used = {}
    BY Constants DEF NoRow, NoEvidence, Row
  <2>3. [NoRow.evidence EXCEPT !.drifted = Classification(o) = "extraction_drift"]
           \in Evidence
    BY <2>2 DEF Evidence
  <2>4. QED
    BY <2>1, <2>2, <2>3, Constants, Statuses DEF Row, Evidence
<1> HIDE DEF row
<1>6. \A j \in Incident : incidents'[j] = IF j = i THEN row ELSE incidents[j]
  BY <1>2, Typed
<1>7. RowsGood'
  <2>1. GoodRepair(row, posts[i])
    BY <1>2, <1>4, <1>5 DEF AInv, RowsGood, GoodRepair
  <2>2. \A j \in Incident : GoodRepair(incidents'[j], posts[j])
    BY <1>6, <2>1 DEF AInv, RowsGood
  <2>3. QED
    BY <1>1, <2>2 DEF GoodRepair, RepairVerified, RowsGood
<1>8. InOrder'
  <2>1. \A j \in Incident : j < i => incidents[j].status = "recovered"
                                     /\ incidents[j].verRun <= started
    <3> SUFFICES ASSUME NEW j \in Incident, j < i
                 PROVE  incidents[j].status = "recovered"
                        /\ incidents[j].verRun <= started
      OBVIOUS
    <3>1. incidents[j].status \in Status \ (Active \cup {"absent"})
      BY <1>2, <1>3, Typed DEF Row, Healthy, ActiveIncidents, IsActive
    <3>2. GoodRow(incidents[j])
      BY DEF IInv
    <3>3. QED
      BY <3>1, <3>2 DEF Status, GoodRow
  <2>2. \A k \in Incident : i < k => incidents[k].status = "absent"
    BY <1>2 DEF AInv, InOrder
  <2>3. QED
    BY <1>5, <1>6, <2>1, <2>2, <1>2 DEF AInv, InOrder
<1>9. NoneInRepair'
  <2>1. \A j \in Incident : incidents[j].status \notin Lifecycle
    BY <1>3 DEF Healthy, ActiveIncidents, IsActive, Active
  <2>2. QED
    BY <1>5, <1>6, <2>1 DEF NoneInRepair, InFlight, Lifecycle
<1>10. InHand(w, proc[w])'
  <2> DEFINE q == [proc[w] EXCEPT !.inc = i, !.seen = row]
  <2>1. proc'[w] = Continue(q, AfterRecord(row))
    BY <1>2, Typed
  <2>2. q \in Proc /\ q.inc = i /\ q.seen = row
    <3>1. i \in 0 .. MaxIncidents
      BY HealingAssumption DEF Incident
    <3>2. QED
      BY <1>5, <3>1, Typed DEF Proc
  <2> HIDE DEF q
  <2>3. CASE AfterRecord(row) = "reporting"
    <3>1. proc'[w].pc = "reporting" /\ proc'[w].inc = 0
      BY <2>1, <2>3 DEF Continue, Rest
    <3>2. QED
      BY <3>1, HoldsNone
  <2>4. CASE AfterRecord(row) = "observing" /\ row.action = "request_heal"
    <3>1. /\ proc'[w].pc = "observing" /\ proc'[w].inc = i
          /\ proc'[w].seen = row
      BY <2>1, <2>2, <2>4 DEF Continue, Proc
    <3>2. row = incidents'[i] /\ row.status \in Active
      BY <1>5, <1>6 DEF Active
    <3>3. QED
      BY <2>4, <3>1, <3>2 DEF InHand, Repairing, Driving, Posted, Reviewed,
         AtGate, Proving
  <2>5. QED
    BY <2>3, <2>4 DEF AfterRecord
<1>11. Moved
  BY <1>2, <1>3, <1>4, <1>5 DEF Moved, Opens
<1>12. QED
  BY <1>7, <1>8, <1>9, <1>10, <1>11 DEF AInv, Custody

\* The run a worker judges was started.
LEMMA RunIsStarted ==
    ASSUME IInv, NEW w \in Worker, proc[w].pc # "idle"
    PROVE  /\ proc[w].run \in Nat /\ 1 <= proc[w].run /\ proc[w].run <= started
           /\ proc[w].run \in Run /\ proc[w].run \in Stamp
<1>1. proc[w].run \in 1 .. started
  BY DEF IInv, GoodProc
<1>2. QED
  BY <1>1, Typed, HealingAssumption DEF Run, Stamp

\* The occurrence of a repeat failure.
LEMMA UpdateIncidentAlone ==
    ASSUME IInv, Remember, NEW w \in Worker, AInv(w), UpdateIncident(w)
    PROVE  AInv(w)' /\ Moved
<1> DEFINE o == runs[proc[w].run]
           old == Seen(w)
           new == [Rediagnosed(old, o) EXCEPT
                     !.evidence.drifted = @ \/ Classification(o) = "extraction_drift"]
<1>1. /\ proc[w].pc = "recording" /\ proc[w].inc # 0
      /\ UNCHANGED <<started, posts>>
      /\ Commit(w, new, AfterRecord(Merge(incidents[proc[w].inc], old, new)))
  BY DEF UpdateIncident
<1>2. /\ old = incidents[proc[w].inc] /\ old \in Row /\ old.status \in Active
      /\ GoodRepair(old, posts[proc[w].inc])
  BY <1>1, RowInHand
<1>3. /\ new \in Row /\ new.status = old.status /\ new.attempts = old.attempts
      /\ new.detRun = old.detRun /\ new.detectedAt = old.detectedAt
      /\ new.evidence.registered = old.evidence.registered
      /\ new.evidence.used = old.evidence.used
      /\ old.status \in Lifecycle \cup {"manual_review"} => new.action = old.action
  <2> DEFINE r == Rediagnosed(old, o)
  <2>1. /\ r \in Row /\ r.status = old.status /\ r.attempts = old.attempts
        /\ r.detRun = old.detRun /\ r.detectedAt = old.detectedAt
        /\ r.evidence = old.evidence
        /\ old.status \in Lifecycle \cup {"manual_review"} => r.action = old.action
    <3>1. Classification(o) \in Class /\ Recommended(o) \in Action
      BY Constants
    <3>2. QED
      BY <1>2, <3>1 DEF Rediagnosed, Row
  <2> DEFINE e == [r.evidence EXCEPT
                     !.drifted = @ \/ Classification(o) = "extraction_drift"]
  <2>2. e \in Evidence /\ e.registered = old.evidence.registered
        /\ e.used = old.evidence.used
    BY <1>2, <2>1 DEF Row, Evidence
  <2>3. new = [r EXCEPT !.evidence = e]
    OBVIOUS
  <2> HIDE DEF r, e, new
  <2>4. QED
    BY <2>1, <2>2, <2>3 DEF Row
<1> HIDE DEF new
<1>4. Merge(incidents[proc[w].inc], old, new) = new
  BY <1>2, <1>3, MergeCurrent
<1>5. GoodRepair(new, posts[proc[w].inc])
  BY <1>2, <1>3, StaysGood
<1>6. Changes(old, new)
  BY <1>2, <1>3 DEF Changes, Noted, Reclassified, Kindred, Active
<1>7. new.status \in Lifecycle => NoneInRepair'
  <2>1. NoneInRepair
    BY <1>1 DEF AInv, Custody, Driving, Posted, Reviewed
  <2>2. incidents' = [incidents EXCEPT ![proc[w].inc] = new]
    BY <1>1, <1>4 DEF Commit, Write
  <2>3. InFlight' \subseteq InFlight
    BY <1>2, <1>3, <2>2, Typed DEF InFlight
  <2>4. QED
    BY <2>1, <2>3, OrphansStay
<1>8. CASE AfterRecord(new) = "reporting"
  <2>1. new.status # "absent"
    BY <1>2, <1>3 DEF Active, Lifecycle
  <2>2. QED
    BY <1>1, <1>2, <1>3, <1>4, <1>5, <1>6, <1>7, <1>8, <2>1, CommitEnds
<1>9. CASE AfterRecord(new) = "observing" /\ new.action = "request_heal"
  <2>1. Commit(w, new, "observing") /\ "observing" \in PC \ {"reporting"}
    BY <1>1, <1>4, <1>9 DEF PC
  <2>2. /\ RowsGood'
        /\ InOrder' /\ Moved
        /\ new.status \notin Lifecycle => NoneInRepair'
        /\ proc'[w].pc = "observing" /\ proc'[w].inc = proc[w].inc
        /\ proc'[w].seen = new /\ incidents'[proc[w].inc] = new
    BY <1>1, <1>2, <1>3, <1>5, <1>6, <2>1, CommitGoes
  <2>3. InHand(w, proc[w])'
    BY <1>2, <1>3, <1>9, <2>2 DEF InHand, Repairing, Driving, Posted,
       Reviewed, AtGate, Proving
  <2>4. QED
    BY <1>7, <2>2, <2>3 DEF AInv, Custody
<1>10. QED
  BY <1>8, <1>9 DEF AfterRecord

\* What closing an incident does to what is known of its repairs.
LEMMA ClosedGood ==
    ASSUME NEW old \in Row, NEW sent, GoodRepair(old, sent), old.status \in Active,
           NEW r \in Run, r <= started,
           old.class = "extraction_drift" =>
               RepairVerified(Recovered(old, r))
    PROVE  /\ Recovered(old, r) \in Row
           /\ Recovered(old, r).status = "recovered"
           /\ Recovered(old, r).detRun = old.detRun
           /\ Recovered(old, r).detectedAt = old.detectedAt
           /\ Recovered(old, r).verRun = r
           /\ GoodRepair(Recovered(old, r), sent)
<1>1. [old.evidence EXCEPT !.used = @ \cup {r}] \in Evidence
  BY DEF Row, Evidence
<1>2. "recovered" \in Status /\ r \in Stamp
  BY HealingAssumption DEF Status, Run, Stamp
<1>3. /\ Recovered(old, r) \in Row
      /\ Recovered(old, r).status = "recovered"
      /\ Recovered(old, r).detRun = old.detRun
      /\ Recovered(old, r).detectedAt = old.detectedAt
      /\ Recovered(old, r).verRun = r
      /\ Recovered(old, r).class = old.class
      /\ Recovered(old, r).attempts = old.attempts
      /\ Recovered(old, r).evidence.registered = old.evidence.registered
      /\ Recovered(old, r).evidence.used = old.evidence.used \cup {r}
  BY <1>1, <1>2 DEF Recovered, Row, Evidence
<1>4. GoodRepair(Recovered(old, r), sent)
  BY <1>3 DEF GoodRepair
<1>5. QED
  BY <1>3, <1>4

\* verify_retry_recovery: an outage is closed, or nothing.
LEMMA RetryAlone ==
    ASSUME IInv, Remember, NEW w \in Worker, AInv(w), Retry(w)
    PROVE  AInv(w)' /\ Moved
<1> DEFINE r == proc[w].run
<1>1. proc[w].pc = "retrying" /\ UNCHANGED <<started, posts>>
  BY DEF Retry
<1>2. proc[w].inc # 0
  BY <1>1 DEF IInv, GoodProc, Handling, PC
<1>3. /\ Seen(w) \in Row /\ Seen(w).status \in Active
      /\ GoodRepair(Seen(w), posts[proc[w].inc])
  BY <1>2, RowInHand
<1>4. r \in Run /\ r <= started
  BY <1>1, RunIsStarted
<1>5. CASE ProvesRetry(Seen(w), r)
  <2> DEFINE new == Recovered(Seen(w), r)
  <2>1. Commit(w, new, "reporting")
    BY <1>5 DEF Retry
  <2>2. Seen(w).class = "outage" /\ Seen(w).status = "degraded"
        /\ Seen(w).action = "retry" /\ r > Seen(w).detectedAt
    BY <1>5 DEF ProvesRetry
  <2>3. /\ new \in Row /\ new.status = "recovered"
        /\ new.detRun = Seen(w).detRun /\ new.detectedAt = Seen(w).detectedAt
        /\ new.verRun = r /\ GoodRepair(new, posts[proc[w].inc])
    BY <1>3, <1>4, <2>2, ClosedGood
  <2> HIDE DEF new
  <2>4. Changes(Seen(w), new)
    BY <1>4, <2>2, <2>3 DEF Changes, Closed
  <2>5. new.status \notin Lifecycle /\ new.status # "absent"
    BY <2>3 DEF Lifecycle
  <2>6. QED
    BY <1>1, <1>2, <2>1, <2>3, <2>4, <2>5, CommitEnds
<1>6. CASE ~ ProvesRetry(Seen(w), r)
  <2>1. Goto(w, "reporting") /\ UNCHANGED incidents
    BY <1>6 DEF Retry
  <2>2. proc[w].pc \notin Driving
    BY <1>1 DEF Driving, Posted, Reviewed
  <2>3. QED
    BY <1>1, <2>1, <2>2, ReportsAlone
<1>7. QED
  BY <1>5, <1>6

\* The provider's status decides what is done about an open incident.
LEMMA ObserveAlone ==
    ASSUME IInv, Remember, NEW w \in Worker, AInv(w), Refuse(w) \/ Observe(w)
    PROVE  AInv(w)' /\ Moved
<1>1. proc[w].pc = "observing" /\ UNCHANGED <<started, posts>>
  BY DEF Refuse, Observe
<1>2. proc[w].inc # 0 /\ proc[w].pc \notin Driving
  BY <1>1 DEF IInv, GoodProc, Handling, PC, Driving, Posted, Reviewed
<1>3. /\ Seen(w) = incidents[proc[w].inc] /\ Seen(w).status \in Active
      /\ GoodRepair(Seen(w), posts[proc[w].inc])
      /\ Seen(w).action = "request_heal"
  BY <1>1, <1>2, RowInHand DEF AInv, InHand, Repairing, Seen
<1>4. CASE (Goto(w, "reporting") \/ Raise(w)) /\ UNCHANGED incidents
  BY <1>1, <1>2, <1>4, ReportsAlone
<1>5. CASE /\ Abandon(w) /\ Seen(w).status \in Lifecycle
  BY <1>1, <1>2, <1>3, <1>5, Typed, RowInHand, FailAlone DEF GoodRepair
<1>6. CASE /\ UNCHANGED incidents
           /\ \/ /\ Goto(w, "resuming")
                 /\ Seen(w).status \in Resumable /\ Seen(w).attempts >= 1
              \/ /\ Goto(w, "rejoining") /\ TakePreview(w)
                 /\ Seen(w).status \in Resumable /\ Seen(w).attempts >= 1
              \/ /\ Goto(w, "starting") /\ UNCHANGED job
                 /\ Seen(w).status = "degraded" /\ Reading \notin ActiveProvider
  <2>1. /\ proc'[w].pc \in {"resuming", "rejoining", "starting"}
        /\ proc'[w].inc = proc[w].inc /\ proc'[w].seen = proc[w].seen
    <3>1. "resuming" \in PC /\ "rejoining" \in PC /\ "starting" \in PC
      BY DEF PC
    <3>2. QED
      BY <1>6, <3>1, GoesOn
  <2>2. proc'[w].pc \in {"resuming", "rejoining"}
           => Seen(w).status \in Resumable /\ Seen(w).attempts >= 1
    BY <1>6, GoesOn DEF PC
  <2>3. proc'[w].pc = "rejoining" => job'.st = "gate" /\ w \in job'.previewed
    <3>1. proc'[w].pc = "rejoining" => TakePreview(w)
      BY <1>6, GoesOn DEF PC
    <3>2. Reading = "gate" => job.st = "gate"
      BY Typed DEF Reading
    <3>3. QED
      BY <3>1, <3>2, Typed DEF TakePreview, Job
  <2>4. proc'[w].pc = "starting"
           => Seen(w).status = "degraded" /\ job'.st \notin Live
    <3>1. proc'[w].pc = "starting"
             => /\ Seen(w).status = "degraded" /\ UNCHANGED job
                /\ Reading \notin ActiveProvider
      BY <1>6, GoesOn DEF PC
    <3>2. Reading \notin ActiveProvider => job.st \notin Live
      BY DEF Reading, ActiveProvider, Live
    <3>3. QED
      BY <3>1, <3>2
  <2>5. Custody(w)'
    BY <1>2, <1>6, CustodyStays DEF AInv
  <2>6. InHand(w, proc[w])'
    BY <1>3, <1>6, <2>1, <2>2, <2>3, <2>4 DEF InHand, Repairing, Driving,
       Posted, Reviewed, AtGate, Proving, Seen
  <2>7. QED
    BY <1>1, <1>6, <2>5, <2>6, Typed, RowsAlone
<1>7. QED
  BY <1>1, <1>4, <1>5, <1>6 DEF Refuse, Observe, Raise

-----------------------------------------------------------------------------
(* The steps of a repair.                                                  *)

\* A repair under way is in flight, and its row is in the worker's hands.
LEMMA RepairInHand ==
    ASSUME IInv, NEW w \in Worker, AInv(w), proc[w].pc \in Repairing
    PROVE  /\ proc[w].inc # 0 /\ proc[w].inc \in Incident
           /\ Seen(w) = incidents[proc[w].inc] /\ Seen(w) = proc[w].seen
           /\ Seen(w) \in Row /\ Seen(w).status \in Active
           /\ Seen(w).action = "request_heal"
           /\ Seen(w).attempts \in 0 .. MaxAttempts
           /\ GoodRepair(Seen(w), posts[proc[w].inc]) /\ GoodRow(Seen(w))
           /\ posts[proc[w].inc] \in Nat
           /\ proc[w].pc \in Driving => Seen(w).status \in Lifecycle
           /\ started \in Nat /\ 1 <= started /\ started \in Stamp
<1>1. proc[w].inc # 0
  BY DEF IInv, GoodProc, Handling, PC, Repairing, Driving, Posted, Reviewed
<1>2. proc[w].pc \in Driving => Seen(w).status \in Lifecycle
  BY DEF AInv, InHand, Driving, Lifecycle, Seen
<1>3. Seen(w).action = "request_heal"
  BY DEF AInv, InHand, Seen
<1>4. started \in Nat /\ 1 <= started /\ started \in Stamp
  <2>1. proc[w].pc # "idle"
    BY DEF Repairing, Driving, Posted, Reviewed
  <2>2. QED
    BY <2>1, RunIsStarted, Typed, HealingAssumption DEF Stamp
<1>5. Seen(w) \in Row
  BY <1>1, RowInHand
<1>6. QED
  BY <1>1, <1>2, <1>3, <1>4, <1>5, RowInHand, Typed DEF Row, Seen

\* Every way out of a repair that hands the incident back.
LEMMA AbandonAlone ==
    ASSUME IInv, NEW w \in Worker, AInv(w), proc[w].pc \in Driving,
           Abandon(w), UNCHANGED <<started, posts>>
    PROVE  AInv(w)' /\ Moved
<1>1. proc[w].pc \in Repairing
  BY DEF Repairing
<1>2. posts[proc[w].inc] <= Seen(w).attempts /\ Seen(w).status \in Lifecycle
      /\ proc[w].inc # 0
  BY <1>1, RepairInHand DEF GoodRepair
<1>3. QED
  BY <1>2, FailAlone

\* A row whose status alone changes.
LEMMA Restated ==
    ASSUME NEW old \in Row, NEW sent, GoodRepair(old, sent), NEW s \in Active,
           NEW new, new = [old EXCEPT !.status = s]
    PROVE  /\ new \in Row /\ new.status = s /\ new.attempts = old.attempts
           /\ new.action = old.action /\ new.class = old.class
           /\ new.detRun = old.detRun /\ new.detectedAt = old.detectedAt
           /\ new.evidence = old.evidence
           /\ GoodRepair(new, sent)
<1>1. s \in Status
  BY DEF Status
<1>2. /\ new \in Row /\ new.status = s /\ new.attempts = old.attempts
      /\ new.action = old.action /\ new.class = old.class
      /\ new.detRun = old.detRun /\ new.detectedAt = old.detectedAt
      /\ new.evidence = old.evidence
  BY <1>1 DEF Row
<1>3. QED
  BY <1>2, StaysGood

\* escalate: the budget is spent.
LEMMA EscalationAlone ==
    ASSUME IInv, NEW w \in Worker, AInv(w), proc[w].pc \in Repairing,
           Seen(w).status = "degraded", Seen(w).attempts = MaxAttempts,
           Commit(w, Escalated(Seen(w)), "reporting"), UNCHANGED <<started, posts>>
    PROVE  AInv(w)' /\ Moved
<1> DEFINE new == Escalated(Seen(w))
<1>1. /\ new \in Row /\ new.status = "manual_review" /\ new.action = "escalate"
      /\ new.attempts = Seen(w).attempts /\ new.detRun = Seen(w).detRun
      /\ new.detectedAt = Seen(w).detectedAt /\ new.evidence = Seen(w).evidence
  BY RepairInHand, Statuses DEF Escalated, Row
<1> HIDE DEF new
<1>2. new.status \in Active /\ new.status \notin Lifecycle /\ new.status # "absent"
  BY <1>1 DEF Active, Lifecycle
<1>3. GoodRepair(new, posts[proc[w].inc])
  BY <1>1, <1>2, RepairInHand, StaysGood
<1>4. HandedOver(Seen(w), new)
  BY <1>1 DEF HandedOver, Kindred
<1>5. Commit(w, new, "reporting")
  BY DEF new
<1>6. QED
  BY <1>1, <1>2, <1>3, <1>4, <1>5, RepairInHand, CommitEnds DEF Changes

\* start_healing: an attempt of the budget, or none is left.
LEMMA StartAlone ==
    ASSUME IInv, NEW w \in Worker, AInv(w), Start(w)
    PROVE  AInv(w)' /\ Moved
<1>1. /\ proc[w].pc = "starting" /\ proc[w].pc \in Repairing
      /\ UNCHANGED <<started, posts, job>>
  BY DEF Start, Repairing
<1>2. Seen(w).status = "degraded" /\ job.st \notin Live
  BY <1>1 DEF AInv, InHand, Seen
<1>3. CASE Seen(w).attempts >= MaxAttempts
  <2>1. Seen(w).attempts = MaxAttempts
    BY <1>1, <1>3, RepairInHand, HealingAssumption
  <2>2. Commit(w, Escalated(Seen(w)), "reporting")
    BY <1>3 DEF Start
  <2>3. QED
    BY <1>1, <1>2, <2>1, <2>2, EscalationAlone
<1>4. CASE ~ (Seen(w).attempts >= MaxAttempts)
  <2> DEFINE new == [Seen(w) EXCEPT !.status = "healing", !.attempts = @ + 1]
  <2>1. Commit(w, new, "posting")
    BY <1>4 DEF Start
  <2>2. /\ new \in Row /\ new.status = "healing"
        /\ new.attempts = Seen(w).attempts + 1 /\ new.action = Seen(w).action
        /\ new.detRun = Seen(w).detRun /\ new.detectedAt = Seen(w).detectedAt
        /\ new.evidence = Seen(w).evidence
    <3>1. Seen(w).attempts + 1 \in 0 .. MaxAttempts
      BY <1>1, <1>4, RepairInHand, HealingAssumption
    <3>2. QED
      BY <1>1, <3>1, RepairInHand, Statuses DEF Row
  <2> HIDE DEF new
  <2>3. new.status \in Active /\ "posting" \in PC \ {"reporting"}
    BY <2>2 DEF Active, Lifecycle, PC
  <2>4. GoodRepair(new, posts[proc[w].inc])
        /\ posts[proc[w].inc] < new.attempts
    BY <1>1, <2>2, RepairInHand DEF GoodRepair
  <2>5. Attempted(Seen(w), new)
    BY <1>1, <1>2, <1>4, <2>2, RepairInHand, HealingAssumption DEF Attempted
  <2>6. /\ RowsGood'
        /\ InOrder' /\ Moved
        /\ proc'[w].pc = "posting" /\ proc'[w].inc = proc[w].inc
        /\ proc'[w].seen = new /\ incidents'[proc[w].inc] = new
    BY <1>1, <2>1, <2>2, <2>3, <2>4, <2>5, RepairInHand, CommitGoes DEF Changes
  <2>7. InHand(w, proc[w])'
    BY <1>1, <1>2, <2>2, <2>3, <2>4, <2>6, RepairInHand
       DEF InHand, Repairing, Driving, Posted, Reviewed, AtGate, Proving
  <2>8. QED
    BY <2>6, <2>7 DEF AInv, Custody, Driving, Posted, Reviewed
<1>5. QED
  BY <1>3, <1>4

\* resume_healing: the attempt that was counted goes on.
LEMMA ResumeHealingAlone ==
    ASSUME IInv, NEW w \in Worker, AInv(w), ResumeHealing(w)
    PROVE  AInv(w)' /\ Moved
<1> DEFINE new == [Seen(w) EXCEPT !.status = "healing"]
<1>1. /\ proc[w].pc \in {"resuming", "rejoining"} /\ proc[w].pc \in Repairing
      /\ UNCHANGED <<started, posts, job>>
  BY DEF ResumeHealing, Repairing
<1>2. Seen(w).status \in Resumable /\ Seen(w).attempts >= 1
  BY <1>1 DEF AInv, InHand, Seen
<1>3. PICK next \in {"awaiting_gate", "registering"} :
         /\ Commit(w, new, next)
         /\ next = "registering" => proc[w].pc = "rejoining"
  BY DEF ResumeHealing
<1>4. next = "registering" => job'.st = "gate" /\ w \in job'.previewed
  BY <1>1, <1>3 DEF AInv, InHand, AtGate
<1>5. /\ new \in Row /\ new.status = "healing" /\ new.attempts = Seen(w).attempts
      /\ new.action = Seen(w).action
      /\ new.detRun = Seen(w).detRun /\ new.detectedAt = Seen(w).detectedAt
      /\ GoodRepair(new, posts[proc[w].inc])
  <2>1. "healing" \in Active
    BY DEF Active, Lifecycle
  <2>2. QED
    BY <1>1, <2>1, RepairInHand, Restated
<1> HIDE DEF new
<1>6. new.status \in Active /\ next \in PC \ {"reporting"}
  BY <1>5 DEF Active, Lifecycle, PC
<1>7. Changes(Seen(w), new)
  BY <1>1, <1>2, <1>5, RepairInHand
     DEF Changes, Noted, TakenUp, Kindred, Resumable, Lifecycle
<1>8. /\ RowsGood'
      /\ InOrder' /\ Moved
      /\ proc'[w].pc = next /\ proc'[w].inc = proc[w].inc
      /\ proc'[w].seen = new /\ incidents'[proc[w].inc] = new
  BY <1>1, <1>3, <1>5, <1>6, <1>7, RepairInHand, CommitGoes
<1>9. InHand(w, proc[w])'
  BY <1>1, <1>4, <1>5, <1>6, <1>8, RepairInHand
     DEF InHand, Repairing, Driving, Posted, Reviewed, AtGate, Proving
<1>10. QED
  BY <1>8, <1>9 DEF AInv, Custody, Driving, Posted, Reviewed

\* request_healing, accepted or not.
LEMMA PostAlone ==
    ASSUME IInv, NEW w \in Worker, AInv(w), Post(w) \/ PostFails(w)
    PROVE  AInv(w)' /\ Moved
<1> DEFINE i == proc[w].inc
<1>1. /\ proc[w].pc = "posting" /\ proc[w].pc \in Repairing
      /\ proc[w].pc \in Driving /\ UNCHANGED started
      /\ posts' = [posts EXCEPT ![i] = @ + 1]
  BY DEF Post, PostFails, Repairing, Driving, Posted
<1>2. posts[i] < Seen(w).attempts /\ Seen(w).status = "healing"
  BY <1>1 DEF AInv, InHand, Seen, Posted
<1>3. /\ posts'[i] = posts[i] + 1
      /\ \A j \in Incident : j # i => posts'[j] = posts[j]
  BY <1>1, Typed, RepairInHand
<1>4. posts'[i] <= Seen(w).attempts
  BY <1>1, <1>2, <1>3, RepairInHand
<1>5. CASE PostFails(w)
  <2>1. Abandon(w) /\ Seen(w).status \in Lifecycle /\ proc[w].inc # 0
    BY <1>1, <1>5, RepairInHand DEF PostFails
  <2>2. QED
    BY <1>1, <1>3, <1>4, <2>1, FailAlone
<1>6. CASE Post(w)
  <2>1. Goto(w, "awaiting_gate") /\ UNCHANGED incidents
    BY <1>6 DEF Post
  <2>2. /\ proc'[w].pc = "awaiting_gate"
        /\ proc'[w].inc = i /\ proc'[w].seen = Seen(w)
    BY <2>1, GoesOn DEF PC, Seen
  <2>3. RowsGood'
    <3>1. \A j \in Incident : GoodRepair(incidents[j], posts'[j])
      <4> SUFFICES ASSUME NEW j \in Incident
                   PROVE  GoodRepair(incidents[j], posts'[j])
        OBVIOUS
      <4>1. GoodRepair(incidents[j], posts[j])
        BY DEF AInv, RowsGood
      <4>2. CASE j = i
        BY <1>1, <1>4, <4>1, <4>2, RepairInHand DEF GoodRepair
      <4>3. QED
        BY <1>3, <4>1, <4>2
    <3>2. QED
      BY <1>1, <2>1, <3>1 DEF GoodRepair, RepairVerified, RowsGood
  <2>4. InHand(w, proc[w])'
    BY <1>1, <1>2, <2>1, <2>2, RepairInHand
       DEF InHand, Repairing, Driving, Posted, Reviewed, AtGate, Proving
  <2>5. QED
    BY <2>1, <2>2, <2>3, <2>4 DEF AInv, Custody, Driving, Posted, InOrder, Moved
<1>7. QED
  BY <1>5, <1>6

\* A step on the way, the row and its attempt as they were.
LEMMA OnTheWay ==
    ASSUME IInv, NEW w \in Worker, AInv(w),
           NEW next \in {"registering", "approving", "rejecting", "rejected",
                         "deploying", "verifying", "proof_failed"},
           Goto(w, next), UNCHANGED <<started, incidents, posts>>,
           proc[w].pc \in Driving,
           next = "registering" => proc[w].pc = "awaiting_gate",
           next # "registering" => proc[w].pc \in Reviewed,
           next \in AtGate => job'.st = "gate" /\ w \in job'.previewed,
           next \in Proving => proc[w].pc = "collecting_proof"
    PROVE  AInv(w)' /\ Moved
<1>1. next \in PC /\ next # "reporting" /\ next \in Driving
  BY DEF PC, Driving, Posted, Reviewed
<1>2. /\ proc'[w].pc = next /\ proc'[w].inc = proc[w].inc
      /\ proc'[w].seen = proc[w].seen /\ proc'[w].attempt = proc[w].attempt
      /\ proc'[w].proof = proc[w].proof
  BY <1>1, GoesOn
<1>3. proc[w].inc # 0 /\ proc[w].seen = incidents[proc[w].inc]
      /\ proc[w].seen.status \in Active /\ proc[w].seen.action = "request_heal"
  BY RepairInHand DEF Repairing, Seen
<1>4. next = "registering" => proc[w].seen.status = "healing"
  BY DEF AInv, InHand, Posted
<1>5. next # "registering" =>
          /\ proc[w].seen.status = "validating"
          /\ proc[w].attempt = proc[w].seen.attempts
          /\ proc[w].seen.evidence.registered # 0
  BY DEF AInv, InHand
<1>6. next \in Proving =>
          /\ proc[w].seen.evidence.approved = proc[w].seen.attempts
          /\ proc[w].proof > proc[w].seen.evidence.registered
          /\ proc[w].proof \notin proc[w].seen.evidence.used
  BY DEF AInv, InHand, Proving
<1>7. InHand(w, proc[w])'
  BY <1>1, <1>2, <1>3, <1>4, <1>5, <1>6
     DEF InHand, Repairing, Driving, Posted, Reviewed, AtGate, Proving
<1>8. Custody(w)'
  BY <1>1, <1>2 DEF Custody
<1>9. QED
  BY <1>7, <1>8, Typed, RowsAlone

\* Waiting for the gate, and the preview that comes with it.
LEMMA GateAlone ==
    ASSUME IInv, NEW w \in Worker, AInv(w),
           ReachGate(w) \/ GiveUpGate(w) \/ Preflight(w) \/ Reject(w)
    PROVE  AInv(w)' /\ Moved
<1>1. /\ proc[w].pc \in {"awaiting_gate", "preflight", "rejecting"}
      /\ proc[w].pc \in Driving /\ UNCHANGED <<started, posts>>
  BY DEF ReachGate, GiveUpGate, Preflight, Reject, Driving, Posted, Reviewed
<1>2. CASE Abandon(w)
  BY <1>1, <1>2, AbandonAlone
<1>3. CASE ReachGate(w) /\ ~ Abandon(w)
  <2>1. /\ proc[w].pc = "awaiting_gate" /\ TakePreview(w)
        /\ Goto(w, "registering") /\ UNCHANGED incidents
    BY <1>3 DEF ReachGate
  <2>2. job'.st = "gate" /\ w \in job'.previewed
    <3>1. job.st = "gate"
      BY <2>1, Typed DEF TakePreview, Reading
    <3>2. QED
      BY <2>1, <3>1, Typed DEF TakePreview, Job
  <2>3. QED
    BY <1>1, <2>1, <2>2, OnTheWay DEF Proving
<1>4. CASE Preflight(w)
  <2>1. PICK verdict \in {"approving", "rejecting"} : Goto(w, verdict)
    BY <1>4 DEF Preflight
  <2>2. /\ proc[w].pc = "preflight" /\ UNCHANGED <<incidents, job>>
        /\ job.st = "gate" /\ w \in job.previewed
    BY <1>4 DEF Preflight, AInv, InHand, AtGate
  <2>3. QED
    BY <1>1, <2>1, <2>2, OnTheWay DEF Proving, Reviewed
<1>5. CASE Reject(w)
  <2>1. /\ proc[w].pc = "rejecting" /\ Goto(w, "rejected") /\ UNCHANGED incidents
    BY <1>5 DEF Reject
  <2>2. QED
    BY <1>1, <2>1, OnTheWay DEF Proving, Reviewed, AtGate
<1>6. QED
  BY <1>2, <1>3, <1>4, <1>5 DEF GiveUpGate

\* register_repair_candidate: always from HEALING, with the row as it is.
LEMMA RegisterAlone ==
    ASSUME IInv, NEW w \in Worker, AInv(w), Register(w)
    PROVE  AInv(w)' /\ Moved
<1> DEFINE i == proc[w].inc
           new == [Seen(w) EXCEPT !.status = "validating",
                                  !.evidence.registered = started]
<1>1. /\ proc[w].pc = "registering" /\ proc[w].pc \in Repairing
      /\ proc[w].pc \in Driving /\ UNCHANGED <<started, posts, job>>
  BY DEF Register, Repairing, Driving, Posted
<1>2. /\ Seen(w).status = "healing"
      /\ job.st = "gate" /\ w \in job.previewed
  BY <1>1 DEF AInv, InHand, Seen, Posted, AtGate
<1>3. /\ new \in Row /\ new.status = "validating"
      /\ new.attempts = Seen(w).attempts /\ new.action = Seen(w).action
      /\ new.detRun = Seen(w).detRun /\ new.detectedAt = Seen(w).detectedAt
      /\ new.evidence.registered = started
      /\ new.evidence.used = Seen(w).evidence.used
  <2>1. [Seen(w).evidence EXCEPT !.registered = started] \in Evidence
    BY <1>1, RepairInHand DEF Row, Evidence
  <2>2. QED
    BY <1>1, <2>1, RepairInHand, Statuses DEF Row, Evidence
<1>4. /\ incidents' = [incidents EXCEPT ![i] = Merge(incidents[i], Seen(w), new)]
      /\ proc' = [proc EXCEPT ![w].seen = Merge(incidents[i], Seen(w), new),
                              ![w].attempt = Seen(w).attempts,
                              ![w].pc = "preflight"]
  BY <1>2 DEF Register
<1> HIDE DEF new
<1>5. Merge(incidents[i], Seen(w), new) = new
  BY <1>1, <1>3, RepairInHand, MergeCurrent
<1>6. new.status # "absent" /\ new.status \in Active /\ IsActive(i)
  BY <1>1, <1>3, RepairInHand, RowInHand DEF Active, Lifecycle
<1>7. GoodRepair(new, posts[i])
  BY <1>1, <1>3, RepairInHand DEF GoodRepair
<1>8. /\ incidents'[i] = new
      /\ RowsGood'
      /\ InOrder'
  BY <1>1, <1>3, <1>4, <1>5, <1>6, <1>7, RepairInHand, RowReplaced
<1>9. /\ proc'[w].pc = "preflight" /\ proc'[w].inc = i
      /\ proc'[w].seen = new /\ proc'[w].attempt = new.attempts
  BY <1>3, <1>4, <1>5, Typed DEF Proc
<1>10. Noted(Seen(w), new)
  BY <1>2, <1>3 DEF Noted, Kindred, Lifecycle
<1>11. Moved
  BY <1>1, <1>3, <1>4, <1>5, <1>6, <1>10, RepairInHand DEF Moved, Changes
<1>12. InHand(w, proc[w])'
  BY <1>1, <1>2, <1>3, <1>6, <1>8, <1>9, RepairInHand
     DEF InHand, Repairing, Driving, Posted, Reviewed, AtGate, Proving
<1>13. QED
  BY <1>8, <1>9, <1>11, <1>12 DEF AInv, Custody, Driving, Reviewed

\* The refused candidate is recorded, and the incident handed back or over.
LEMMA RejectionAlone ==
    ASSUME IInv, NEW w \in Worker, AInv(w), RecordRejection(w) \/ Escalate(w)
    PROVE  AInv(w)' /\ Moved
<1>1. /\ proc[w].pc \in {"rejected", "escalating"} /\ proc[w].pc \in Repairing
      /\ UNCHANGED <<started, posts>>
  BY DEF RecordRejection, Escalate, Repairing, Driving, Reviewed
<1>2. CASE Escalate(w)
  <2>1. Seen(w).status = "degraded" /\ Seen(w).attempts = MaxAttempts
    BY <1>2 DEF Escalate, AInv, InHand, Seen
  <2>2. QED
    BY <1>1, <1>2, <2>1, EscalationAlone DEF Escalate
<1>3. CASE RecordRejection(w)
  <2>1. /\ proc[w].pc = "rejected" /\ proc[w].pc \in Driving
        /\ Seen(w).status = "validating" /\ Seen(w).status \in Lifecycle
        /\ proc[w].attempt = Seen(w).attempts
    BY <1>3 DEF RecordRejection, AInv, InHand, Seen, Reviewed, Driving, Lifecycle
  <2>2. CASE ~ (proc[w].attempt >= MaxAttempts)
    <3>1. Abandon(w)
      BY <1>3, <2>2 DEF RecordRejection, Abandon
    <3>2. QED
      BY <1>1, <2>1, <3>1, AbandonAlone
  <2>3. CASE proc[w].attempt >= MaxAttempts
    <3> DEFINE new == [Seen(w) EXCEPT !.status = "degraded"]
    <3>1. Commit(w, new, "escalating")
      BY <1>3, <2>1, <2>3 DEF RecordRejection, RecordFailure, Commit
    <3>2. /\ new \in Row /\ new.status = "degraded"
          /\ new.attempts = Seen(w).attempts /\ new.action = Seen(w).action
          /\ new.detRun = Seen(w).detRun /\ new.detectedAt = Seen(w).detectedAt
          /\ GoodRepair(new, posts[proc[w].inc])
      <4>1. "degraded" \in Active
        BY DEF Active
      <4>2. QED
        BY <1>1, <4>1, RepairInHand, Restated
    <3> HIDE DEF new
    <3>3. new.status \in Active /\ new.status \notin Lifecycle
          /\ "escalating" \in PC \ {"reporting"}
      BY <3>2 DEF Active, Lifecycle, PC
    <3>4. new.attempts = MaxAttempts
      BY <1>1, <2>1, <2>3, <3>2, RepairInHand, HealingAssumption
    <3>5. HandedBack(Seen(w), new)
      BY <2>1, <3>2 DEF HandedBack, Kindred
    <3>6. /\ RowsGood'
          /\ InOrder' /\ Moved /\ NoneInRepair'
          /\ proc'[w].pc = "escalating" /\ proc'[w].inc = proc[w].inc
          /\ proc'[w].seen = new /\ incidents'[proc[w].inc] = new
      BY <1>1, <3>1, <3>2, <3>3, <3>5, RepairInHand, CommitGoes DEF Changes
    <3>7. InHand(w, proc[w])'
      BY <1>1, <3>2, <3>3, <3>4, <3>6, RepairInHand
         DEF InHand, Repairing, Driving, Posted, Reviewed, AtGate, Proving
    <3>8. QED
      BY <3>6, <3>7 DEF AInv, Custody
  <2>4. QED
    BY <2>2, <2>3
<1>4. QED
  BY <1>2, <1>3

\* approve_healing, accepted or not.
LEMMA ApproveAlone ==
    ASSUME IInv, NEW w \in Worker, AInv(w), Approve(w) \/ ApproveFails(w)
    PROVE  AInv(w)' /\ Moved
<1>1. /\ proc[w].pc = "approving" /\ proc[w].pc \in Driving
      /\ UNCHANGED <<started, posts>>
  BY DEF Approve, ApproveFails, Driving, Reviewed
<1>2. CASE Approve(w)
  <2>1. Goto(w, "deploying") /\ UNCHANGED incidents
    BY <1>2 DEF Approve
  <2>2. QED
    BY <1>1, <2>1, OnTheWay DEF Proving, Reviewed, AtGate
<1>3. CASE ApproveFails(w)
  BY <1>1, <1>3, AbandonAlone DEF ApproveFails
<1>4. QED
  BY <1>2, <1>3

\* The approved job ends, or the patience of the worker does.
LEMMA DeployedAlone ==
    ASSUME IInv, NEW w \in Worker, AInv(w), Deployed(w) \/ GiveUpDeployment(w)
    PROVE  AInv(w)' /\ Moved
<1> DEFINE new == [Seen(w) EXCEPT !.evidence.approved = proc[w].attempt]
<1>1. /\ proc[w].pc = "deploying" /\ proc[w].pc \in Repairing
      /\ proc[w].pc \in Driving /\ UNCHANGED <<started, posts>>
  BY DEF Deployed, GiveUpDeployment, Repairing, Driving, Reviewed
<1>2. CASE Abandon(w)
  BY <1>1, <1>2, AbandonAlone
<1>3. CASE Commit(w, new, "recollecting")
  <2>1. /\ Seen(w).status = "validating"
        /\ proc[w].attempt = Seen(w).attempts
        /\ Seen(w).evidence.registered # 0
    BY <1>1 DEF AInv, InHand, Seen, Reviewed
  <2>2. /\ new \in Row /\ new.status = "validating"
        /\ new.attempts = Seen(w).attempts /\ new.action = Seen(w).action
        /\ new.detRun = Seen(w).detRun /\ new.detectedAt = Seen(w).detectedAt
        /\ new.evidence.registered = Seen(w).evidence.registered
        /\ new.evidence.used = Seen(w).evidence.used
        /\ new.evidence.approved = new.attempts
    <3>1. proc[w].attempt \in 0 .. MaxAttempts
      BY Typed DEF Proc
    <3>2. [Seen(w).evidence EXCEPT !.approved = proc[w].attempt] \in Evidence
      BY <1>1, <3>1, RepairInHand DEF Row, Evidence
    <3>3. QED
      BY <1>1, <2>1, <3>2, RepairInHand DEF Row, Evidence
  <2> HIDE DEF new
  <2>3. new.status \in Active /\ "recollecting" \in PC \ {"reporting"}
    BY <2>2 DEF Active, Lifecycle, PC
  <2>4. GoodRepair(new, posts[proc[w].inc])
    BY <1>1, <2>2, <2>3, RepairInHand, StaysGood
  <2>5. Noted(Seen(w), new)
    BY <2>1, <2>2 DEF Noted, Kindred
  <2>6. /\ RowsGood'
        /\ InOrder' /\ Moved
        /\ proc'[w].pc = "recollecting" /\ proc'[w].inc = proc[w].inc
        /\ proc'[w].seen = new /\ incidents'[proc[w].inc] = new
        /\ proc'[w].attempt = proc[w].attempt
    BY <1>1, <1>3, <2>2, <2>3, <2>4, <2>5, RepairInHand, CommitGoes DEF Changes
  <2>7. InHand(w, proc[w])'
    BY <1>1, <2>1, <2>2, <2>3, <2>6, RepairInHand
       DEF InHand, Repairing, Driving, Posted, Reviewed, AtGate, Proving
  <2>8. QED
    BY <2>6, <2>7 DEF AInv, Custody, Driving, Posted, Reviewed
<1>4. QED
  BY <1>2, <1>3 DEF Deployed, GiveUpDeployment

\* The fresh collection starts, later than what the row knows.
LEMMA RecollectAlone ==
    ASSUME IInv, NEW w \in Worker, AInv(w), Recollect(w) \/ RecollectFails(w)
    PROVE  AInv(w)' /\ Moved
<1>1. /\ proc[w].pc = "recollecting" /\ proc[w].pc \in Repairing
      /\ proc[w].pc \in Driving /\ UNCHANGED posts
  BY DEF Recollect, RecollectFails, Repairing, Driving, Reviewed
<1>2. CASE RecollectFails(w)
  BY <1>1, <1>2, AbandonAlone DEF RecollectFails
<1>3. CASE Recollect(w)
  <2>1. /\ UNCHANGED incidents /\ started' = started + 1
        /\ proc' = [proc EXCEPT ![w].pc = "collecting_proof",
                                ![w].proof = started + 1]
    BY <1>3 DEF Recollect, StartRun
  <2>2. /\ proc'[w].pc = "collecting_proof" /\ proc'[w].inc = proc[w].inc
        /\ proc'[w].seen = Seen(w) /\ proc'[w].attempt = proc[w].attempt
        /\ proc'[w].proof = started + 1
    BY <2>1, Typed DEF Proc, Seen
  <2>3. /\ Seen(w).status = "validating"
        /\ proc[w].attempt = Seen(w).attempts
        /\ Seen(w).evidence.registered # 0
        /\ Seen(w).evidence.approved = Seen(w).attempts
    BY <1>1 DEF AInv, InHand, Seen, Reviewed
  <2>4. started + 1 > Seen(w).evidence.registered
        /\ started + 1 \notin Seen(w).evidence.used
    <3>1. /\ Seen(w).evidence.registered <= started
          /\ \A r \in Seen(w).evidence.used : r <= started
      BY <1>1, RepairInHand DEF GoodRepair
    <3>2. Seen(w).evidence.registered \in Nat
      BY <1>1, RepairInHand, HealingAssumption DEF Row, Evidence, Stamp
    <3>3. QED
      BY <1>1, <3>1, <3>2, RepairInHand
  <2>5. InHand(w, proc[w])'
    BY <1>1, <2>1, <2>2, <2>3, <2>4, RepairInHand
       DEF InHand, Repairing, Driving, Posted, Reviewed, AtGate, Proving
  <2>6. started' \in Nat /\ started <= started'
    BY <2>1, Typed
  <2>7. Custody(w)'
    BY <2>2 DEF Custody, Driving, Reviewed
  <2>8. QED
    BY <1>1, <2>1, <2>5, <2>6, <2>7, RowsAlone
<1>4. QED
  BY <1>2, <1>3

\* The fresh collection ends; a failed one hands the incident back.
LEMMA ProofAlone ==
    ASSUME IInv, NEW w \in Worker, AInv(w), FinishProof(w) \/ ProofFails(w)
    PROVE  AInv(w)' /\ Moved
<1>1. /\ proc[w].pc \in {"collecting_proof", "proof_failed"}
      /\ proc[w].pc \in Driving /\ proc[w].pc \in Repairing
      /\ UNCHANGED <<started, posts>>
  BY DEF FinishProof, ProofFails, Driving, Reviewed, Repairing
<1>2. CASE FinishProof(w)
  <2>1. PICK next \in {"verifying", "proof_failed"} : Goto(w, next)
    BY <1>2 DEF FinishProof
  <2>2. proc[w].pc = "collecting_proof" /\ UNCHANGED incidents
    BY <1>2 DEF FinishProof
  <2>3. QED
    BY <1>1, <2>1, <2>2, OnTheWay DEF Reviewed, AtGate
<1>3. CASE ProofFails(w)
  <2>1. Abandon(w)
    BY <1>1, <1>3, RepairInHand DEF ProofFails, Abandon
  <2>2. QED
    BY <1>1, <2>1, AbandonAlone
<1>4. QED
  BY <1>2, <1>3

\* begin_validation: with nobody else deciding the fresh run qualifies.
LEMMA BeginValidationAlone ==
    ASSUME IInv, NEW w \in Worker, AInv(w), BeginValidation(w)
    PROVE  AInv(w)' /\ Moved
<1> DEFINE new == [Seen(w) EXCEPT !.status = "verifying"]
<1>1. /\ proc[w].pc = "verifying" /\ proc[w].pc \in Repairing
      /\ proc[w].pc \in Driving /\ UNCHANGED <<started, posts>>
  BY DEF BeginValidation, Repairing, Driving, Reviewed
<1>2. /\ Seen(w).status = "validating"
      /\ Seen(w).evidence.registered # 0
      /\ Seen(w).evidence.approved = Seen(w).attempts
      /\ proc[w].proof > Seen(w).evidence.registered
      /\ proc[w].proof \notin Seen(w).evidence.used
  BY <1>1 DEF AInv, InHand, Seen, Reviewed, Proving
<1>3. Independent(Seen(w), proc[w].proof)
  <2>1. /\ Seen(w).detRun <= Seen(w).detectedAt
        /\ Seen(w).evidence.registered >= Seen(w).detectedAt
    BY <1>1, <1>2, RepairInHand DEF GoodRow
  <2>2. /\ Seen(w).detRun \in Nat /\ Seen(w).detectedAt \in Nat
        /\ Seen(w).evidence.registered \in Nat /\ proc[w].proof \in Nat
    BY <1>1, RepairInHand, Typed, HealingAssumption DEF Row, Evidence, Proc, Stamp
  <2>3. QED
    BY <1>2, <2>1, <2>2 DEF Independent
<1>4. Commit(w, new, "verdict")
  BY <1>1, <1>2, <1>3, RepairInHand DEF BeginValidation, Commit
<1>5. /\ new \in Row /\ new.status = "verifying"
      /\ new.attempts = Seen(w).attempts /\ new.action = Seen(w).action
      /\ new.detRun = Seen(w).detRun /\ new.detectedAt = Seen(w).detectedAt
      /\ new.evidence = Seen(w).evidence
      /\ GoodRepair(new, posts[proc[w].inc])
  <2>1. "verifying" \in Active
    BY DEF Active, Lifecycle
  <2>2. QED
    BY <1>1, <2>1, RepairInHand, Restated
<1> HIDE DEF new
<1>6. new.status \in Active /\ "verdict" \in PC \ {"reporting"}
  BY <1>5 DEF Active, Lifecycle, PC
<1>7. Noted(Seen(w), new)
  BY <1>2, <1>5 DEF Noted, Kindred, Lifecycle
<1>8. /\ RowsGood'
      /\ InOrder' /\ Moved
      /\ proc'[w].pc = "verdict" /\ proc'[w].inc = proc[w].inc
      /\ proc'[w].seen = new /\ incidents'[proc[w].inc] = new
      /\ proc'[w].proof = proc[w].proof
  BY <1>1, <1>4, <1>5, <1>6, <1>7, RepairInHand, CommitGoes DEF Changes
<1>9. InHand(w, proc[w])'
  BY <1>1, <1>2, <1>5, <1>6, <1>8, RepairInHand
     DEF InHand, Repairing, Driving, Posted, Reviewed, AtGate, Proving
<1>10. QED
  BY <1>8, <1>9 DEF AInv, Custody, Driving, Posted, Reviewed

\* The fresh run closes the incident, or hands it back.
LEMMA VerdictAlone ==
    ASSUME IInv, NEW w \in Worker, AInv(w), Verdict(w)
    PROVE  AInv(w)' /\ Moved
<1> DEFINE i == proc[w].inc
           r == proc[w].proof
           clean == runs[r] = "clean"
           new == IF clean THEN Recovered(Seen(w), r)
                  ELSE [Seen(w) EXCEPT !.status = "degraded",
                                       !.evidence.used = @ \cup {r}]
           merged == Merge(incidents[i], Seen(w), new)
<1>1. /\ proc[w].pc = "verdict" /\ proc[w].pc \in Repairing
      /\ proc[w].pc \in Driving /\ proc[w].pc \in Proving
      /\ UNCHANGED <<started, posts>>
      /\ incidents' = [incidents EXCEPT ![i] = merged]
      /\ proc' = [proc EXCEPT ![w] = Continue(
            [@ EXCEPT !.result = IF clean THEN r ELSE 0], "reporting")]
  BY DEF Verdict, Repairing, Driving, Proving
<1>2. /\ Seen(w).status = "verifying" /\ Seen(w).status \in Active
      /\ Seen(w).status \in Lifecycle
      /\ Seen(w).evidence.registered # 0
      /\ Seen(w).evidence.approved = Seen(w).attempts
      /\ r > Seen(w).evidence.registered
  BY <1>1 DEF AInv, InHand, Seen, Proving, Active, Lifecycle
<1>3. r \in Run /\ r <= started /\ r > Seen(w).detectedAt
  <2>1. r \in 1 .. started /\ r > Seen(w).detectedAt
    BY <1>1 DEF IInv, GoodProc, Seen
  <2>2. QED
    BY <2>1, Typed, HealingAssumption DEF Run
<1>4. /\ new \in Row /\ new.status \in {"recovered", "degraded"}
      /\ new.detRun = Seen(w).detRun /\ new.detectedAt = Seen(w).detectedAt
      /\ GoodRepair(new, posts[i])
      /\ Changes(Seen(w), new)
  <2>1. CASE clean
    <3>1. RepairVerified(Recovered(Seen(w), r))
      BY <1>1, <1>2, RepairInHand DEF RepairVerified, Recovered, Row, Evidence
    <3>2. /\ new \in Row /\ new.status = "recovered"
          /\ new.detRun = Seen(w).detRun /\ new.detectedAt = Seen(w).detectedAt
          /\ new.verRun = r /\ GoodRepair(new, posts[i])
      BY <1>1, <1>2, <1>3, <2>1, <3>1, RepairInHand, ClosedGood
    <3>3. Closed(Seen(w), new)
      BY <1>2, <1>3, <3>2 DEF Closed
    <3>4. QED
      BY <3>2, <3>3 DEF Changes
  <2>2. CASE ~ clean
    <3> DEFINE back == [Seen(w) EXCEPT !.status = "degraded",
                                       !.evidence.used = @ \cup {r}]
    <3>1. /\ back \in Row /\ back.status = "degraded"
          /\ back.attempts = Seen(w).attempts /\ back.action = Seen(w).action
          /\ back.detRun = Seen(w).detRun /\ back.detectedAt = Seen(w).detectedAt
          /\ back.evidence.registered = Seen(w).evidence.registered
          /\ back.evidence.used = Seen(w).evidence.used \cup {r}
      <4>1. [Seen(w).evidence EXCEPT !.used = @ \cup {r}] \in Evidence
        BY <1>1, <1>3, RepairInHand DEF Row, Evidence
      <4>2. QED
        BY <1>1, <4>1, RepairInHand, Statuses DEF Row, Evidence
    <3> HIDE DEF back
    <3>2. GoodRepair(back, posts[i])
      BY <1>1, <1>3, <3>1, RepairInHand DEF GoodRepair
    <3>3. HandedBack(Seen(w), back)
      BY <1>2, <3>1 DEF HandedBack, Kindred
    <3>4. new = back
      BY <2>2 DEF back
    <3>5. QED
      BY <3>1, <3>2, <3>3, <3>4 DEF Changes
  <2>3. QED
    BY <2>1, <2>2
<1> HIDE DEF new
<1>5. merged = new
  BY <1>1, <1>4, RepairInHand, MergeCurrent
<1>6. new.status # "absent" /\ new.status \notin Lifecycle /\ IsActive(i)
  BY <1>1, <1>4, RepairInHand, RowInHand DEF Lifecycle
<1>7. /\ RowsGood'
      /\ InOrder' /\ NoneInRepair'
  BY <1>1, <1>4, <1>5, <1>6, RepairInHand, RowReplaced
<1>8. proc'[w].pc = "reporting" /\ proc'[w].inc = 0
  BY <1>1, Typed DEF Continue, Rest
<1>9. InHand(w, proc[w])'
  BY <1>8, HoldsNone
<1>10. Moved
  BY <1>1, <1>4, <1>5, <1>6, RepairInHand DEF Moved
<1>11. QED
  BY <1>7, <1>9, <1>10 DEF AInv, Custody

-----------------------------------------------------------------------------
(* The theorems.                                                           *)

\* Whatever step the worker in charge takes.
LEMMA StepAlone ==
    ASSUME IInv, Remember, NEW w \in Worker, AInv(w),
           Begin(w) \/ Resume(w) \/ Step(w) \/ Die(w)
    PROVE  AInv(w)' /\ Moved
<1>1. CASE Begin(w) \/ Resume(w) \/ FinishCollection(w) \/ Report(w) \/ Die(w)
  BY <1>1, RestsAlone
<1>2. CASE Judge(w)
  BY <1>2, JudgeAlone
<1>3. CASE OpenIncident(w)
  BY <1>3, OpenIncidentAlone
<1>4. CASE UpdateIncident(w)
  BY <1>4, UpdateIncidentAlone
<1>5. CASE Retry(w)
  BY <1>5, RetryAlone
<1>6. CASE Refuse(w) \/ Observe(w)
  BY <1>6, ObserveAlone
<1>7. CASE Start(w)
  BY <1>7, StartAlone
<1>8. CASE ResumeHealing(w)
  BY <1>8, ResumeHealingAlone
<1>9. CASE Post(w) \/ PostFails(w)
  BY <1>9, PostAlone
<1>10. CASE ReachGate(w) \/ GiveUpGate(w) \/ Preflight(w) \/ Reject(w)
  BY <1>10, GateAlone
<1>11. CASE Register(w)
  BY <1>11, RegisterAlone
<1>12. CASE RecordRejection(w) \/ Escalate(w)
  BY <1>12, RejectionAlone
<1>13. CASE Approve(w) \/ ApproveFails(w)
  BY <1>13, ApproveAlone
<1>14. CASE Deployed(w) \/ GiveUpDeployment(w)
  BY <1>14, DeployedAlone
<1>15. CASE Recollect(w) \/ RecollectFails(w)
  BY <1>15, RecollectAlone
<1>16. CASE FinishProof(w) \/ ProofFails(w)
  BY <1>16, ProofAlone
<1>17. CASE BeginValidation(w)
  BY <1>17, BeginValidationAlone
<1>18. CASE Verdict(w)
  BY <1>18, VerdictAlone
<1>19. QED
  BY <1>1, <1>2, <1>3, <1>4, <1>5, <1>6, <1>7, <1>8, <1>9, <1>10, <1>11, <1>12,
     <1>13, <1>14, <1>15, <1>16, <1>17, <1>18 DEF Step

\* A worker's step is its own.
LEMMA OthersStay ==
    ASSUME IInv, NEW w \in Worker, Begin(w) \/ Resume(w) \/ Step(w) \/ Die(w)
    PROVE  \A v \in Worker : v # w => proc'[v] = proc[v]
<1>1. CASE \/ Begin(w) \/ Resume(w) \/ Die(w) \/ FinishCollection(w) \/ Judge(w)
           \/ OpenIncident(w) \/ UpdateIncident(w) \/ Retry(w) \/ Report(w)
  BY <1>1, Typed DEF Begin, Resume, Die, FinishCollection, Judge, OpenIncident,
     UpdateIncident, Retry, Report, Goto, Commit, Write
<1>2. CASE \/ Refuse(w) \/ Observe(w) \/ Start(w) \/ ResumeHealing(w)
           \/ Post(w) \/ PostFails(w) \/ ReachGate(w) \/ GiveUpGate(w)
  BY <1>2, Typed DEF Refuse, Observe, Start, ResumeHealing, Post, PostFails, ReachGate,
     GiveUpGate, Goto, Commit, Write, Raise, Abandon, RecordFailure
<1>3. CASE \/ Register(w) \/ Preflight(w) \/ Reject(w) \/ RecordRejection(w)
           \/ Escalate(w) \/ Approve(w) \/ ApproveFails(w) \/ Deployed(w)
           \/ GiveUpDeployment(w)
  BY <1>3, Typed DEF Register, Preflight, Reject, RecordRejection, Escalate, Approve,
     ApproveFails, Deployed, GiveUpDeployment, Goto, Commit, Write, Raise, Abandon,
     RecordFailure
<1>4. CASE \/ Recollect(w) \/ RecollectFails(w) \/ FinishProof(w) \/ ProofFails(w)
           \/ BeginValidation(w) \/ Verdict(w)
  BY <1>4, Typed DEF Recollect, RecollectFails, FinishProof, ProofFails, BeginValidation,
     Verdict, Goto, Commit, Write, Raise, Abandon, RecordFailure
<1>5. QED
  BY <1>1, <1>2, <1>3, <1>4 DEF Step

\* What a worker that decides nothing does beside one that does.
LEMMA Bystands ==
    ASSUME IInv, NEW w \in Worker, ~ Deciding(w), ~ Deciding(w)', InHand(w, proc[w]),
           Begin(w) \/ Resume(w) \/ Step(w) \/ Die(w)
    PROVE  /\ UNCHANGED <<incidents, posts, job>>
           /\ started' \in Nat /\ started <= started'
           /\ proc'[w].pc \in {"idle", "collecting", "judging", "reporting"}
           /\ proc'[w].inc = 0
<1>1. proc[w].pc \in {"idle", "collecting", "judging", "reporting"}
      /\ proc'[w].pc \in {"idle", "collecting", "judging", "reporting"}
  BY DEF Deciding
<1>2. proc[w].inc = 0
  BY <1>1 DEF InHand
<1>3. \/ Begin(w) \/ Resume(w) \/ Die(w) \/ FinishCollection(w) \/ Judge(w)
      \/ Report(w)
  BY <1>1 DEF Step, OpenIncident, UpdateIncident, Retry, Refuse, Observe, Start,
     ResumeHealing, Post, PostFails, ReachGate, GiveUpGate, Register, Preflight,
     Reject, RecordRejection, Escalate, Approve, ApproveFails, Deployed,
     GiveUpDeployment, Recollect, RecollectFails, FinishProof, ProofFails,
     BeginValidation, Verdict
<1>4. /\ UNCHANGED <<incidents, posts, job>>
      /\ started' \in Nat /\ started <= started'
  <2>1. UNCHANGED <<incidents, posts, job>>
    BY <1>3 DEF Begin, Resume, Die, FinishCollection, Judge, Report
  <2>2. started' \in {started, started + 1}
    BY <1>3 DEF Begin, Resume, Die, FinishCollection, Judge, Report, StartRun
  <2>3. QED
    BY <2>1, <2>2, Typed
<1>5. proc'[w].inc = 0
  <2>1. CASE Begin(w) \/ Resume(w)
    <3>1. PICK pc \in {"collecting", "judging"}, r \in {started + 1, claim} :
             proc' = [proc EXCEPT ![w] = [Rest EXCEPT !.pc = pc, !.run = r]]
      BY <2>1 DEF Begin, Resume
    <3>2. QED
      BY <3>1, Typed DEF Rest
  <2>2. CASE Die(w) \/ Report(w)
    BY <2>2, Typed DEF Die, Report, Rest
  <2>3. CASE FinishCollection(w)
    BY <1>2, <2>3, GoesOn DEF FinishCollection, PC
  <2>4. CASE Judge(w)
    <3> DEFINE q(i) == [proc[w] EXCEPT
                          !.inc = i, !.seen = IF i = 0 THEN NoRow ELSE incidents[i],
                          !.result = IF runs[proc[w].run] = "clean"
                                     THEN proc[w].run ELSE 0]
    <3>1. PICK i \in 0 .. MaxIncidents,
               next \in {"recording", "retrying", "reporting"} :
             proc' = [proc EXCEPT ![w] = Continue(q(i), next)]
      BY <2>4, Typed DEF Judge
    <3>2. proc'[w] = Continue(q(i), next)
      BY <3>1, Typed
    <3>3. next = "reporting"
      <4>1. CASE next # "reporting"
        <5>1. proc'[w] = [q(i) EXCEPT !.pc = next]
          BY <3>2, <4>1 DEF Continue
        <5>2. proc'[w].pc = next
          BY <5>1, Typed DEF Proc
        <5>3. QED
          BY <1>1, <4>1, <5>2
      <4>2. QED
        BY <4>1
    <3>4. QED
      BY <3>2, <3>3 DEF Continue, Rest
  <2>5. QED
    BY <1>3, <2>1, <2>2, <2>3, <2>4
<1>6. QED
  BY <1>1, <1>4, <1>5

\* A worker's step, while nobody overlaps anybody.
LEMMA WorkerOrderly ==
    ASSUME IInv, Remember, ~ Overlap', Orderly, NEW w \in Worker,
           Begin(w) \/ Resume(w) \/ Step(w) \/ Die(w)
    PROVE  Orderly' /\ Moved
<1>1. \A v \in Worker : v # w => proc'[v] = proc[v]
  BY OthersStay
<1>2. CASE \A v \in Worker : v # w => ~ Deciding(v)
  <2>1. AInv(w)
    BY <1>2 DEF Orderly, AInv, Custody, Deciding, Driving, Posted, Reviewed
  <2>2. AInv(w)' /\ Moved
    BY <2>1, StepAlone
  <2>3. \A v \in Worker : InHand(v, proc[v])'
    <3> SUFFICES ASSUME NEW v \in Worker, v # w
                 PROVE  InHand(v, proc[v])'
      BY <2>2 DEF AInv
    <3>1. proc[v].pc \in {"idle", "collecting", "judging", "reporting"}
      BY <1>2 DEF Deciding
    <3>2. proc[v].inc = 0
      BY <3>1 DEF Orderly, InHand
    <3>3. QED
      BY <1>1, <3>1, <3>2, HoldsNone
  <2>4. QED
    BY <2>2, <2>3 DEF AInv, Custody, Orderly
<1>3. CASE \E v \in Worker : v # w /\ Deciding(v)
  <2>1. PICK v \in Worker : v # w /\ Deciding(v)
    BY <1>3
  <2>2. ~ Deciding(w) /\ ~ Deciding(w)'
    <3>1. Deciding(v)'
      BY <1>1, <2>1 DEF Deciding
    <3>2. QED
      BY <2>1, <3>1 DEF Orderly, Overlap
  <2>3. /\ UNCHANGED <<incidents, posts, job>>
        /\ started' \in Nat /\ started <= started'
        /\ proc'[w].pc \in {"idle", "collecting", "judging", "reporting"}
        /\ proc'[w].inc = 0
    BY <2>2, Bystands DEF Orderly
  <2>4. \A u \in Worker : InHand(u, proc[u])'
    <3>1. InHand(w, proc[w])'
      BY <2>3, HoldsNone
    <3>2. ASSUME NEW u \in Worker, u # w
          PROVE  InHand(u, proc[u])'
      BY <1>1, <2>3, <3>2 DEF Orderly, InHand, Healthy, ActiveIncidents, IsActive
    <3>3. QED
      BY <3>1, <3>2
  <2>5. RowsGood' /\ InOrder'
    BY <2>3, RowsStay DEF Orderly
  <2>6. (\A u \in Worker : proc[u].pc \notin Driving)' => NoneInRepair'
    <3> SUFFICES ASSUME \A u \in Worker : proc'[u].pc \notin Driving
                 PROVE  NoneInRepair'
      OBVIOUS
    <3>1. proc[w].pc \notin Driving
      BY <2>2 DEF Deciding, Driving, Posted, Reviewed
    <3>2. NoneInRepair
      BY <1>1, <3>1 DEF Orderly
    <3>3. InFlight' = InFlight
      BY <2>3 DEF InFlight
    <3>4. QED
      BY <3>2, <3>3, OrphansStay
  <2>7. QED
    BY <2>3, <2>4, <2>5, <2>6 DEF Orderly, Moved
<1>4. QED
  BY <1>2, <1>3

\* The invariant is inductive, and up to the first overlap every step moves
\* the open incident as the lifecycle allows.
LEMMA NextOrderly ==
    ASSUME IInv, HInv, HistoryNext
    PROVE  /\ HInv'
           /\ ~ overlapped' => Orderly /\ Orderly' /\ Moved
<1> SUFFICES ASSUME ~ overlapped'
             PROVE  Orderly /\ Orderly' /\ Moved
  BY DEF HInv, HistoryNext, Remember
<1>1. Next /\ Remember
  BY DEF HistoryNext
<1>2. ~ overlapped /\ ~ Overlap'
  BY <1>1 DEF Remember
<1>3. Orderly
  BY <1>2 DEF HInv
<1>4. CASE Provider
  BY <1>1, <1>2, <1>3, <1>4, ProviderOrderly DEF Moved
<1>5. CASE \E w \in Worker : Begin(w) \/ Resume(w) \/ Step(w) \/ Die(w)
  BY <1>1, <1>2, <1>3, <1>5, WorkerOrderly
<1>6. QED
  BY <1>1, <1>3, <1>4, <1>5 DEF Next

\* Nothing is known of a healthy collector.
LEMMA InitOrderly ==
    ASSUME HistoryInit
    PROVE  HInv
<1> SUFFICES Orderly
  BY DEF HInv, HistoryInit
<1>1. RowsGood
  BY DEF HistoryInit, Init, RowsGood, GoodRepair, NoRow, NoEvidence
<1>2. InOrder /\ NoneInRepair
  BY DEF HistoryInit, Init, InOrder, NoneInRepair, InFlight, NoRow, Lifecycle
<1>3. \A w \in Worker : proc[w].pc = "idle" /\ proc[w].inc = 0
  BY DEF HistoryInit, Init, Rest
<1>4. \A w \in Worker : InHand(w, proc[w])
  BY <1>3 DEF InHand, Repairing, Driving, Posted, Reviewed, AtGate, Proving
<1>5. ~ Overlap
  BY <1>3 DEF Overlap, Deciding
<1>6. QED
  BY <1>1, <1>2, <1>4, <1>5 DEF Orderly

\* The history variables observe: what the program does with them it does
\* without.
THEOREM HistoryObserves == HistorySpec => Spec
<1>1. HistoryInit => Init
  BY DEF HistoryInit
<1>2. [HistoryNext]_historyVars => [Next]_vars
  BY DEF HistoryNext, historyVars
<1>3. QED
  BY <1>1, <1>2, PTL DEF HistorySpec, Spec

\* Up to the first overlap: what a worker that decides holds is the row as it
\* is, the incidents are opened one after the other, and no repair outlives
\* the worker that drives it but by its death.
THEOREM OrderlyInvariant == HistorySpec => [](IInv /\ HInv)
<1>1. IInv /\ HInv /\ [HistoryNext]_historyVars => HInv'
  <2> SUFFICES ASSUME IInv, HInv, [HistoryNext]_historyVars
               PROVE  HInv'
    OBVIOUS
  <2>1. CASE UNCHANGED historyVars
    BY <2>1 DEF historyVars, history, vars, HInv, Orderly, RowsGood, GoodRepair,
       RepairVerified, InOrder, InHand, NoneInRepair, InFlight, Overlap, Deciding,
       Healthy, ActiveIncidents, IsActive
  <2>2. CASE HistoryNext
    BY <2>2, NextOrderly
  <2>3. QED
    BY <2>1, <2>2
<1>2. HistoryInit => HInv
  BY InitOrderly
<1>3. QED
  BY <1>1, <1>2, HistoryObserves, InductiveInvariant, PTL DEF HistorySpec

\* A collector has at most one open incident, however its runs fail, whoever
\* judges them and wherever a worker dies, unless two invocations decided at
\* once (active_incident).
THEOREM OneIncidentIsOpen == HistorySpec => []OneActiveIncident
<1>1. IInv /\ HInv => OneActiveIncident
  <2> SUFFICES ASSUME Orderly, NEW i \in Incident, NEW j \in Incident,
                      IsActive(i), IsActive(j)
               PROVE  i = j
    BY DEF HInv, OneActiveIncident
  <2>1. incidents[i].status \notin {"absent", "recovered"}
        /\ incidents[j].status \notin {"absent", "recovered"}
    BY DEF IsActive, Active, Lifecycle
  <2>2. ~ (i < j) /\ ~ (j < i)
    BY <2>1 DEF Orderly, InOrder
  <2>3. QED
    BY <2>2 DEF Incident
<1>2. QED
  BY <1>1, OrderlyInvariant, PTL

\* An incident closed as drift was closed by a run newer than its candidate,
\* in an attempt whose candidate was approved, unless a commit of overlapping
\* decisions lost the events that say so (verify_recovery).
THEOREM DriftIsRepaired == HistorySpec => []DriftVerifiedByRepair
<1>1. HInv => DriftVerifiedByRepair
  BY DEF HInv, Orderly, RowsGood, GoodRepair, DriftVerifiedByRepair
<1>2. QED
  BY <1>1, OrderlyInvariant, PTL

\* The provider is never asked for more repairs of an incident than attempts
\* were counted, deaths and lost answers included, unless two decisions that
\* overlap counted the same attempt (start_healing, request_healing).
THEOREM BudgetIsKept == HistorySpec => []TriggersWithinBudget
<1>1. HInv => TriggersWithinBudget
  BY DEF HInv, Orderly, RowsGood, GoodRepair, TriggersWithinBudget
<1>2. QED
  BY <1>1, OrderlyInvariant, PTL

\* An incident in flight is in the hands of a worker, or was when its worker
\* died: every other way out of a repair hands it back, unless two decisions
\* overlapped (resume_or_execute_healing_attempt).
THEOREM RepairsAreHandedBack == HistorySpec => []InFlightIsDriven
<1>1. IInv /\ HInv => InFlightIsDriven
  <2> SUFFICES ASSUME IInv, Orderly, NEW i \in InFlight \ orphaned
               PROVE  \E w \in Worker : proc[w].inc = i
    BY DEF HInv, InFlightIsDriven
  <2>1. PICK w \in Worker : proc[w].pc \in Driving
    BY DEF Orderly, NoneInRepair
  <2>2. proc[w].inc # 0
    BY <2>1 DEF IInv, GoodProc, Handling, PC, Driving, Posted, Reviewed
  <2>3. proc[w].inc \in Incident /\ IsActive(proc[w].inc)
    BY <2>2, Typed DEF Orderly, InHand, IsActive
  <2>4. i \in Incident /\ IsActive(i)
    BY DEF InFlight, IsActive, Active
  <2>5. ~ (i < proc[w].inc) /\ ~ (proc[w].inc < i)
    BY <2>3, <2>4 DEF Orderly, InOrder, IsActive, Active, Lifecycle
  <2>6. QED
    BY <2>3, <2>4, <2>5 DEF Incident
<1>2. QED
  BY <1>1, OrderlyInvariant, PTL

\* The steps that leave the requests and the provider's job alone.
LEMMA JobLeftAlone ==
    ASSUME NEW w \in Worker,
           \/ Begin(w) \/ Resume(w) \/ Die(w) \/ FinishCollection(w) \/ Judge(w)
           \/ OpenIncident(w) \/ UpdateIncident(w) \/ Retry(w) \/ Report(w)
           \/ Refuse(w) \/ Start(w) \/ ResumeHealing(w) \/ GiveUpGate(w)
           \/ Register(w) \/ Preflight(w) \/ RecordRejection(w) \/ Escalate(w)
           \/ Deployed(w) \/ GiveUpDeployment(w) \/ Recollect(w)
           \/ RecollectFails(w) \/ FinishProof(w) \/ ProofFails(w)
           \/ BeginValidation(w) \/ Verdict(w)
    PROVE  UNCHANGED <<posts, job>>
<1>1. CASE \/ Begin(w) \/ Resume(w) \/ Die(w) \/ FinishCollection(w) \/ Judge(w)
           \/ OpenIncident(w) \/ UpdateIncident(w) \/ Retry(w) \/ Report(w)
  BY <1>1 DEF Begin, Resume, Die, FinishCollection, Judge, OpenIncident,
     UpdateIncident, Retry, Report
<1>2. CASE \/ Refuse(w) \/ Start(w) \/ ResumeHealing(w) \/ GiveUpGate(w)
           \/ Register(w) \/ Preflight(w) \/ RecordRejection(w) \/ Escalate(w)
  BY <1>2 DEF Refuse, Start, ResumeHealing, GiveUpGate, Register, Preflight,
     RecordRejection, Escalate
<1>3. CASE \/ Deployed(w) \/ GiveUpDeployment(w) \/ Recollect(w)
           \/ RecollectFails(w) \/ FinishProof(w) \/ ProofFails(w)
           \/ BeginValidation(w) \/ Verdict(w)
  BY <1>3 DEF Deployed, GiveUpDeployment, Recollect, RecollectFails, FinishProof,
     ProofFails, BeginValidation, Verdict
<1>4. QED
  BY <1>1, <1>2, <1>3

\* Who moves the provider's job.
LEMMA JobMovers ==
    ASSUME Next, job' # job
    PROVE  \/ Provider
           \/ \E w \in Worker : \/ Observe(w) \/ Post(w) \/ PostFails(w)
                               \/ ReachGate(w) \/ Reject(w)
                               \/ Approve(w) \/ ApproveFails(w)
<1>1. CASE Provider
  BY <1>1
<1>2. CASE \E w \in Worker : Begin(w) \/ Resume(w) \/ Step(w) \/ Die(w)
  BY <1>2, JobLeftAlone DEF Step
<1>3. QED
  BY <1>1, <1>2 DEF Next

\* Who asks the provider for a repair.
LEMMA OnlyPostAsks ==
    ASSUME Next, posts' # posts
    PROVE  \E w \in Worker : Post(w) \/ PostFails(w)
<1>1. ~ Provider
  BY DEF Provider
<1>2. PICK w \in Worker : Begin(w) \/ Resume(w) \/ Step(w) \/ Die(w)
  BY <1>1 DEF Next
<1>3. CASE \/ Observe(w) \/ ReachGate(w) \/ Reject(w) \/ Approve(w)
           \/ ApproveFails(w)
  BY <1>3 DEF Observe, ReachGate, Reject, Approve, ApproveFails
<1>4. QED
  BY <1>2, <1>3, JobLeftAlone DEF Step

\* No repair is requested on top of a live one, whoever left it running: the
\* provider is asked first, and nobody else asks it meanwhile unless two
\* decisions overlap (_observe_provider_repair).
THEOREM LiveRepairsAreRejoined == HistorySpec => NoTriggerOnLiveRepair
<1>1. IInv /\ HInv /\ [HistoryNext]_historyVars
        => [posts' # posts /\ ~ overlapped => job.st \notin Live]_historyVars
  <2> SUFFICES ASSUME Orderly, Next, posts' # posts
               PROVE  job.st \notin Live
    BY DEF historyVars, vars, HistoryNext, HInv
  <2>1. PICK w \in Worker : Post(w) \/ PostFails(w)
    BY OnlyPostAsks
  <2>2. QED
    BY <2>1 DEF Post, PostFails, Orderly, InHand
<1>2. QED
  BY <1>1, OrderlyInvariant, PTL DEF HistorySpec, NoTriggerOnLiveRepair

\* The gate an approval opens is that of the job whose preview the worker
\* reviewed, unless two decisions overlap: approve_healing names no candidate.
THEOREM ApprovalsAreReviewed == HistorySpec => ApprovesWhatItReviewed
<1>1. IInv /\ HInv /\ [HistoryNext]_historyVars
        => [job'.approved /\ ~ job.approved /\ ~ overlapped
               => \E w \in Worker : /\ proc[w].pc = "approving"
                                    /\ w \in job.previewed]_historyVars
  <2> SUFFICES ASSUME IInv, Orderly, Next, job'.approved, ~ job.approved
               PROVE  \E w \in Worker : /\ proc[w].pc = "approving"
                                        /\ w \in job.previewed
    BY DEF historyVars, vars, HistoryNext, HInv
  <2>1. job \in Job
    BY DEF IInv, TypeOK
  <2>2. ~ Provider
    BY <2>1 DEF Provider, Job
  <2>3. PICK w \in Worker : Approve(w) \/ ApproveFails(w)
    <3>1. \A w \in Worker : ~ (Reject(w) \/ Post(w) \/ PostFails(w)
                               \/ Observe(w) \/ ReachGate(w))
      BY <2>1 DEF Reject, Post, PostFails, NewJob, Observe, ReachGate,
         TakePreview, Job
    <3>2. job' # job
      OBVIOUS
    <3>3. QED
      BY <2>2, <3>1, <3>2, JobMovers
  <2>4. QED
    BY <2>3 DEF Approve, ApproveFails, Orderly, InHand, AtGate
<1>2. QED
  BY <1>1, OrderlyInvariant, PTL DEF HistorySpec, ApprovesWhatItReviewed

-----------------------------------------------------------------------------
(* The refinement.                                                         *)

\* The row of the one open incident, before a step.
LEMMA OpenRowIs ==
    ASSUME ~ overlapped, NEW i \in Incident, IsActive(i),
           \A j \in Incident : IsActive(j) => j = i
    PROVE  OpenRow = incidents[i]
<1>1. ActiveIncidents = {i}
  BY DEF ActiveIncidents
<1>2. QED
  BY <1>1 DEF OpenRow

\* The row of the one open incident, after a step.
LEMMA OpenRowBecomes ==
    ASSUME ~ overlapped', NEW i \in Incident, IsActive(i)',
           \A j \in Incident : IsActive(j)' => j = i
    PROVE  OpenRow' = incidents'[i]
<1>1. ActiveIncidents' = {i}
  BY DEF ActiveIncidents
<1>2. QED
  BY <1>1 DEF OpenRow

\* The last of the first k incidents.
LEMMA LastOf ==
    ASSUME NEW k \in Nat, k # 0
    PROVE  (CHOOSE i \in 1 .. k : \A j \in 1 .. k : j <= i) = k
<1>1. \E i \in 1 .. k : \A j \in 1 .. k : j <= i
  OBVIOUS
<1>2. QED
  BY <1>1

\* The run that closed the last incident, when the first k are closed.
LEMMA LifeProofIs ==
    ASSUME ~ overlapped, NEW k \in Nat,
           {i \in Incident : incidents[i].status = "recovered"} = 1 .. k
    PROVE  LifeProof = IF k = 0 THEN 0 ELSE incidents[k].verRun
BY LastOf DEF LifeProof

\* The same after a step.
LEMMA LifeProofBecomes ==
    ASSUME ~ overlapped', NEW k \in Nat,
           {i \in Incident : incidents'[i].status = "recovered"} = 1 .. k
    PROVE  LifeProof' = IF k = 0 THEN 0 ELSE incidents'[k].verRun
BY LastOf DEF LifeProof

\* An incident is opened: Detect.
LEMMA OpeningSeen ==
    ASSUME ~ overlapped, ~ overlapped',
           IInv, NEW i \in Incident, NEW new \in Row, InOrder, InOrder',
           incidents' = [incidents EXCEPT ![i] = new], Opens(i, new)
    PROVE  Life!Next
<1>1. \A j \in Incident : incidents'[j] = IF j = i THEN new ELSE incidents[j]
  BY Typed DEF IInv, TypeOK
<1>2. /\ new.status = "degraded" /\ new.attempts = 0
      /\ new.detectedAt \in 1 .. MaxRuns /\ incidents[i].status = "absent"
  BY DEF Opens
<1>3. \A j \in Incident :
         /\ j < i => incidents[j].status = "recovered"
         /\ i < j => incidents[j].status = "absent"
  <2>1. \A j \in Incident : incidents[j].status \in {"absent", "recovered"}
    BY DEF Opens, Healthy, ActiveIncidents, IsActive, IInv, TypeOK, Row, Status
  <2>2. \A j \in Incident : j < i => incidents[j].status # "absent"
    BY DEF Opens
  <2>3. \A j \in Incident : i < j => incidents[j].status = "absent"
    BY <1>2 DEF InOrder
  <2>4. QED
    BY <2>1, <2>2, <2>3
<1>4. OpenRow = NoRow
  BY DEF Opens, Healthy, OpenRow
<1>5. OpenRow' = new
  <2>1. IsActive(i)' /\ \A j \in Incident : IsActive(j)' => j = i
    <3>1. new.status \in Active
      BY <1>2 DEF Active
    <3>2. \A j \in Incident : j # i => incidents[j].status \notin Active
      BY <1>3 DEF Active, Lifecycle, Incident
    <3>3. QED
      BY <1>1, <3>1, <3>2 DEF IsActive
  <2>2. QED
    BY <1>1, <2>1, OpenRowBecomes
<1>6. LifeProof' = LifeProof
  <2> DEFINE k == i - 1
  <2>1. k \in Nat /\ (k # 0 => k \in Incident /\ k # i)
    BY HealingAssumption DEF Incident
  <2>2. {j \in Incident : incidents[j].status = "recovered"} = 1 .. k
    BY <1>2, <1>3, HealingAssumption DEF Incident
  <2>3. {j \in Incident : incidents'[j].status = "recovered"} = 1 .. k
    BY <1>1, <1>2, <2>2
  <2>4. LifeProof = IF k = 0 THEN 0 ELSE incidents[k].verRun
    BY <2>1, <2>2, LifeProofIs
  <2>5. LifeProof' = IF k = 0 THEN 0 ELSE incidents'[k].verRun
    BY <2>1, <2>3, LifeProofBecomes
  <2>6. QED
    BY <1>1, <2>1, <2>4, <2>5
<1>7. LifeState = "healthy" /\ LifeState' = "degraded" /\ LifeAdvice' \in Life!Advice
  BY <1>2, <1>4, <1>5 DEF LifeState, LifeAdvice, Life!Advice, NoRow, Lifecycle
<1>8. Life!Detect
  BY <1>2, <1>5, <1>6, <1>7 DEF Life!Detect
<1>9. QED
  BY <1>8 DEF Life!Next

\* The states of the lifecycle, by the open incident's row.
LEMMA LifeIs ==
    ASSUME ~ overlapped, NEW row, OpenRow = row, row.status \in Active
    PROVE  /\ LifeState = IF row.status \in Lifecycle THEN "in_repair" ELSE row.status
           /\ LifeAdvice = IF row.action \in {"retry", "request_heal"}
                           THEN row.action ELSE "other"
BY DEF LifeState, LifeAdvice, Active, Lifecycle

\* The same after a step.
LEMMA LifeBecomes ==
    ASSUME ~ overlapped', NEW row, OpenRow' = row, row.status \in Active
    PROVE  /\ LifeState' = IF row.status \in Lifecycle THEN "in_repair" ELSE row.status
           /\ LifeAdvice' = IF row.action \in {"retry", "request_heal"}
                            THEN row.action ELSE "other"
BY DEF LifeState, LifeAdvice, Active, Lifecycle

\* The open incident's row changes and stays open.
LEMMA ChangeSeen ==
    ASSUME ~ overlapped, ~ overlapped',
           NEW old \in Row, NEW new \in Row, old.status \in Active,
           OpenRow = old, OpenRow' = new, LifeProof' = LifeProof,
           Changes(old, new), ~ Closed(old, new)
    PROVE  Life!Next \/ UNCHANGED Life!lifeVars
<1>1. new.status \in Active
  BY DEF Changes, Noted, Reclassified, Attempted, TakenUp, HandedBack, HandedOver,
     Active, Lifecycle
<1>2. /\ LifeState = IF old.status \in Lifecycle THEN "in_repair" ELSE old.status
      /\ LifeAdvice = IF old.action \in {"retry", "request_heal"}
                      THEN old.action ELSE "other"
      /\ LifeState' = IF new.status \in Lifecycle THEN "in_repair" ELSE new.status
      /\ LifeAdvice' = IF new.action \in {"retry", "request_heal"}
                       THEN new.action ELSE "other"
      /\ LifeAdvice' \in Life!Advice
  BY <1>1, LifeIs, LifeBecomes DEF Life!Advice
<1>3. CASE Noted(old, new)
  BY <1>2, <1>3 DEF Noted, Kindred, Life!lifeVars
<1>4. CASE Reclassified(old, new)
  BY <1>2, <1>4 DEF Reclassified, Kindred, Lifecycle, Life!Next, Life!Rediagnose
<1>5. CASE Attempted(old, new)
  BY <1>2, <1>5 DEF Attempted, Lifecycle, Life!Next, Life!Attempt
<1>6. CASE TakenUp(old, new)
  BY <1>2, <1>6 DEF TakenUp, Kindred, Lifecycle, Life!Next, Life!TakeUp
<1>7. CASE HandedBack(old, new)
  BY <1>2, <1>7 DEF HandedBack, Kindred, Lifecycle, Life!Next, Life!HandBack
<1>8. CASE HandedOver(old, new)
  BY <1>2, <1>8 DEF HandedOver, Kindred, Lifecycle, Life!Next, Life!Escalate
<1>9. QED
  BY <1>3, <1>4, <1>5, <1>6, <1>7, <1>8 DEF Changes

\* The open incident moves: a step of the lifecycle, or none.
LEMMA MoveSeen ==
    ASSUME ~ overlapped, ~ overlapped',
           IInv, NEW i \in Incident, NEW new \in Row, InOrder, InOrder',
           incidents' = [incidents EXCEPT ![i] = new],
           IsActive(i), Changes(incidents[i], new)
    PROVE  Life!Next \/ UNCHANGED Life!lifeVars
<1> DEFINE old == incidents[i]
           k == i - 1
<1>1. \A j \in Incident : incidents'[j] = IF j = i THEN new ELSE incidents[j]
  BY DEF IInv, TypeOK
<1>2. old \in Row /\ old.status \in Active /\ old.status \notin {"absent", "recovered"}
  <2>1. old \in Row /\ old.status \in Active
    BY DEF IInv, TypeOK, IsActive
  <2>2. QED
    BY <2>1 DEF Active, Lifecycle
<1>3. \A j \in Incident :
         /\ j < i => incidents[j].status = "recovered"
         /\ i < j => incidents[j].status = "absent"
  BY <1>2 DEF InOrder
<1>4. k \in Nat /\ (k # 0 => k \in Incident /\ k # i /\ k < i)
  BY HealingAssumption DEF Incident
<1>5. OpenRow = old
  <2>1. \A j \in Incident : IsActive(j) => j = i
    BY <1>3 DEF IsActive, Active, Lifecycle, Incident
  <2>2. QED
    BY <2>1, OpenRowIs
<1>6. LifeProof = IF k = 0 THEN 0 ELSE incidents[k].verRun
  <2>1. {j \in Incident : incidents[j].status = "recovered"} = 1 .. k
    BY <1>2, <1>3, HealingAssumption DEF Incident
  <2>2. QED
    BY <1>4, <2>1, LifeProofIs
<1>7. CASE ~ Closed(old, new)
  <2>1. new.status \in Active
    BY <1>2, <1>7 DEF Changes, Noted, Reclassified, Attempted, TakenUp, HandedBack,
       HandedOver, Active, Lifecycle
  <2>2. new.status # "recovered"
    BY <2>1 DEF Active, Lifecycle
  <2>3. OpenRow' = new
    <3>1. IsActive(i)' /\ \A j \in Incident : IsActive(j)' => j = i
      BY <1>1, <1>3, <2>1 DEF IsActive, Active, Lifecycle, Incident
    <3>2. QED
      BY <1>1, <3>1, OpenRowBecomes
  <2>4. LifeProof' = LifeProof
    <3>1. {j \in Incident : incidents'[j].status = "recovered"} = 1 .. k
      BY <1>1, <1>3, <2>2, HealingAssumption DEF Incident
    <3>2. LifeProof' = IF k = 0 THEN 0 ELSE incidents'[k].verRun
      BY <1>4, <3>1, LifeProofBecomes
    <3>3. QED
      BY <1>1, <1>4, <1>6, <3>2
  <2>5. QED
    BY <1>2, <1>5, <1>7, <2>3, <2>4, ChangeSeen
<1>8. CASE Closed(old, new)
  <2>1. /\ new.status = "recovered" /\ new.verRun \in Run
        /\ new.verRun > old.detectedAt
        /\ \/ old.status \in Lifecycle
           \/ old.status = "degraded" /\ old.action = "retry"
    BY <1>8 DEF Closed
  <2>2. OpenRow' = NoRow
    <3>1. ActiveIncidents' = {}
      BY <1>1, <1>3, <2>1 DEF ActiveIncidents, IsActive, Active, Lifecycle, Incident
    <3>2. QED
      BY <3>1 DEF OpenRow
  <2>3. LifeProof' = new.verRun
    <3>1. {j \in Incident : incidents'[j].status = "recovered"} = 1 .. i
      BY <1>1, <1>3, <2>1, HealingAssumption DEF Incident
    <3>2. i \in Nat /\ i # 0
      BY DEF Incident
    <3>3. QED
      BY <1>1, <3>1, <3>2, LifeProofBecomes
  <2>4. LifeProof' # LifeProof
    <3>1. k # 0 => incidents[k].verRun <= old.detectedAt
      BY <1>2, <1>4 DEF InOrder
    <3>2. old.detectedAt \in Nat /\ new.verRun \in Nat
          /\ (k # 0 => incidents[k].verRun \in Nat)
      BY <1>2, <1>4, HealingAssumption DEF Row, Stamp, IInv, TypeOK
    <3>3. QED
      BY <1>6, <2>1, <2>3, <3>1, <3>2
  <2>5. LifeProof' \in (OpenRow.detectedAt + 1) .. MaxRuns
    <3>1. old.detectedAt \in Nat
      BY <1>2, HealingAssumption DEF Row, Stamp
    <3>2. QED
      BY <1>5, <2>1, <2>3, <3>1, HealingAssumption DEF Run
  <2>6. LifeState' = "healthy" /\ LifeAdvice' = "other"
        /\ OpenRow'.attempts = 0 /\ OpenRow'.detectedAt = 0
    BY <2>2 DEF LifeState, LifeAdvice, NoRow, Lifecycle
  <2>7. \/ LifeState = "in_repair"
        \/ LifeState = "degraded" /\ LifeAdvice = "retry"
    BY <1>2, <1>5, <2>1, LifeIs DEF Lifecycle
  <2>8. Life!Recover
    BY <2>4, <2>5, <2>6, <2>7 DEF Life!Recover
  <2>9. QED
    BY <2>8 DEF Life!Next
<1>9. QED
  BY <1>7, <1>8

\* Whatever the invocations do: an incident opens on a healthy collector, each
\* attempt at its repair is counted, a human keeps what is handed over, and it
\* is closed by a proof newer than itself and never used before, until two
\* decisions overlap and the collector is contended.
THEOREM LifecycleImplemented == HistorySpec => ImplementsLifecycle
<1>1. HistoryInit => Life!Init
  <2> SUFFICES ASSUME HistoryInit
               PROVE  Life!Init
    OBVIOUS
  <2>1. \A i \in Incident : incidents[i].status = "absent"
    BY DEF HistoryInit, Init, NoRow
  <2>2. OpenRow = NoRow
    BY <2>1 DEF OpenRow, ActiveIncidents, IsActive, Active, Lifecycle
  <2>3. LifeProof = 0
    BY <2>1 DEF LifeProof
  <2>4. ~ overlapped
    BY DEF HistoryInit
  <2>5. QED
    BY <2>2, <2>3, <2>4 DEF Life!Init, LifeState, LifeAdvice, NoRow, Lifecycle
<1>2. IInv /\ HInv /\ [HistoryNext]_historyVars => [Life!Next]_(Life!lifeVars)
  <2> SUFFICES ASSUME IInv, HInv, [HistoryNext]_historyVars
               PROVE  Life!Next \/ UNCHANGED Life!lifeVars
    OBVIOUS
  <2>1. CASE UNCHANGED <<incidents, overlapped>>
    BY <2>1 DEF Life!lifeVars, LifeState, LifeAdvice, LifeProof, OpenRow,
       ActiveIncidents, IsActive
  <2>2. CASE HistoryNext /\ overlapped'
    <3>1. OpenRow' = NoRow /\ LifeProof' = 0
      BY <2>2 DEF OpenRow, LifeProof
    <3>2. LifeAdvice' = "other" /\ OpenRow'.attempts = 0 /\ OpenRow'.detectedAt = 0
          /\ LifeState' = "contended"
      BY <2>2, <3>1 DEF LifeAdvice, LifeState, NoRow, Lifecycle
    <3>3. QED
      BY <3>1, <3>2 DEF Life!Next, Life!Contend
  <2>3. CASE HistoryNext /\ ~ overlapped' /\ ~ UNCHANGED incidents
    <3>1. InOrder /\ InOrder' /\ Moved
      BY <2>3, NextOrderly DEF Orderly
    <3>2. ~ overlapped
      BY <2>3 DEF HistoryNext, Remember
    <3>3. QED
      BY <2>3, <3>1, <3>2, OpeningSeen, MoveSeen DEF Moved
  <2>4. CASE HistoryNext /\ ~ overlapped' /\ UNCHANGED incidents
    <3>1. overlapped' = FALSE /\ overlapped = FALSE
      BY <2>4 DEF HistoryNext, Remember, HInv
    <3>2. QED
      BY <2>1, <2>4, <3>1
  <2>5. QED
    BY <2>1, <2>2, <2>3, <2>4 DEF historyVars, history, vars
<1>3. QED
  BY <1>1, <1>2, OrderlyInvariant, PTL DEF HistorySpec, ImplementsLifecycle, Life!Spec

=============================================================================
