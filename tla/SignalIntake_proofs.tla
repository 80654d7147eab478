------------------------ MODULE SignalIntake_proofs ------------------------
(***************************************************************************)
(* Proofs about SignalIntake, for any number of workers, runs, collectors  *)
(* and keys and for datasets of any length: its type invariant and its     *)
(* four safety invariants.                                                 *)
(***************************************************************************)
EXTENDS SignalIntake, FiniteSetTheorems, TLAPS

-----------------------------------------------------------------------------
(* The inductive invariant.                                                *)

\* What a worker has behind it in its dataset, and what became of it.
Behind(w) == 1 .. (worker[w].next - 1)

Accounted(w) ==
    /\ Data(w) \in Batch
    /\ Behind(w) \subseteq DOMAIN Data(w)
    /\ pending[w] \subseteq Content(Data(w))
    /\ worker[w].accepted = Cardinality(pending[w])
    /\ worker[w].accepted + worker[w].duplicates + worker[w].rejected
           = worker[w].next - 1
    /\ \A k \in worker[w].seen : Stored(k) \/ k \in pending[w]
    /\ worker[w].rejected = 0 =>
          \A i \in Behind(w) :
              /\ Data(w)[i] \in Key
              /\ Stored(Data(w)[i]) \/ Data(w)[i] \in pending[w]

Fresh(p) == /\ p.next = 1
            /\ p.seen = {}
            /\ p.accepted = 0
            /\ p.duplicates = 0
            /\ p.rejected = 0

Holding(w) ==
    /\ worker[w].pc = "idle" => worker[w].run = NoRun
    /\ worker[w].pc # "idle" => /\ worker[w].run \in Run
                                /\ runs[worker[w].run].status # "absent"
    /\ worker[w].pc \in {"idle", "polling"} => Fresh(worker[w]) /\ pending[w] = {}
    /\ worker[w].pc \in {"ingesting", "inserting"} => Accounted(w)
    /\ worker[w].pc = "inserting" => ~AtEnd(w) /\ Current(w) \in Key

\* A key is in one transaction at most, and in none once it is stored.
Apart ==
    \A w \in Worker : \A k \in pending[w] :
        /\ ~Stored(k)
        /\ \A v \in Worker : k \in pending[v] => v = w

\* A run that was never shared is RUNNING while its one worker holds it.
Sole ==
    /\ \A r \in shared : runs[r].status # "absent"
    /\ \A r \in Run \ shared : \A w \in Worker :
          worker[w].run = r =>
              /\ runs[r].status = "running"
              /\ \A v \in Worker : worker[v].run = r => v = w

IntakeInv ==
    /\ TypeOK
    /\ \A w \in Worker : Holding(w)
    /\ Apart
    /\ Sole
    /\ SignalsAreVouched
    /\ ReportedAsIngested

\* What the two counts, and the check of trust, leave to be compared.
Counted ==
    /\ IsFiniteSet(Active)
    /\ incidents.opened = incidents.recovered + Cardinality(Active)
    /\ reader.pc = "counted" => reader.recovered <= incidents.recovered
    /\ ActiveCountCoversActive

Checked ==
    /\ reader.since <= incidents.opened
    /\ reader.pc = "checked" =>
          \A c \in Active \ reader.unhealthy : incidents.active[c] > reader.since

IInv == IntakeInv /\ Counted /\ Checked /\ ListedIsTrusted

-----------------------------------------------------------------------------
(* Datasets.                                                               *)

\* A dataset is a finite sequence of records, and its length is counted.
LEMMA BatchShape ==
    ASSUME NEW b \in Batch
    PROVE  \E n \in 0 .. MaxBatch :
              /\ DOMAIN b = 1 .. n
              /\ Cardinality(DOMAIN b) = n
              /\ \A i \in 1 .. n : b[i] \in Record
<1>1. PICK n \in 0 .. MaxBatch : b \in [1 .. n -> Record]
  BY DEF Batch
<1>2. n \in Nat
  BY IntakeAssumption
<1>3. Cardinality(1 .. n) = n
  BY <1>2, FS_Interval
<1>4. QED
  BY <1>1, <1>3

\* The record after those behind is the next, or there is none.
LEMMA NextInBatch ==
    ASSUME NEW b \in Batch, NEW i \in Nat \ {0}, 1 .. (i - 1) \subseteq DOMAIN b
    PROVE  /\ i \in DOMAIN b => 1 .. i \subseteq DOMAIN b /\ b[i] \in Key \cup {Unstorable}
           /\ i \notin DOMAIN b => DOMAIN b = 1 .. (i - 1) /\ Cardinality(DOMAIN b) = i - 1
<1>1. PICK n \in 0 .. MaxBatch :
          DOMAIN b = 1 .. n /\ Cardinality(DOMAIN b) = n /\ \A j \in 1 .. n : b[j] \in Record
  BY BatchShape
<1>2. n \in Nat
  BY IntakeAssumption
<1>3. i \in 1 .. n => 1 .. i \subseteq 1 .. n
  BY <1>2
<1>4. ASSUME i \notin 1 .. n
      PROVE  n = i - 1
  <2>1. n < i
    BY <1>2, <1>4
  <2>2. i - 1 \in 1 .. (i - 1) \/ i = 1
    OBVIOUS
  <2>3. i - 1 <= n
    BY <1>1, <1>2, <2>2
  <2>4. QED
    BY <1>2, <2>1, <2>3
<1>5. QED
  BY <1>1, <1>2, <1>3, <1>4 DEF Record

\* Pending keys are finitely many.
LEMMA PendingFinite ==
    ASSUME TypeOK, NEW w \in Worker
    PROVE  IsFiniteSet(pending[w]) /\ Cardinality(pending[w]) \in Nat
<1>1. pending[w] \subseteq Key
  BY DEF TypeOK
<1>2. QED
  BY <1>1, IntakeAssumption, FS_Subset, FS_CardinalityType

-----------------------------------------------------------------------------
(* The records a step writes, field by field.                              *)

\* A worker, and a run's row, as the records of their fields.
W(pc, run, next, seen, accepted, duplicates, rejected) ==
    [pc |-> pc, run |-> run, next |-> next, seen |-> seen, accepted |-> accepted,
     duplicates |-> duplicates, rejected |-> rejected]
R(status, of, accepted, duplicates) ==
    [status |-> status, of |-> of, accepted |-> accepted, duplicates |-> duplicates]

\* A worker that has just come to hold r.
LEMMA PollingIs ==
    ASSUME NEW r
    PROVE  [Idle EXCEPT !.pc = "polling", !.run = r] = W("polling", r, 1, {}, 0, 0, 0)
<1>1. [Idle EXCEPT !.pc = "polling"] = W("polling", NoRun, 1, {}, 0, 0, 0)
  BY DEF Idle, W
<1>2. [W("polling", NoRun, 1, {}, 0, 0, 0) EXCEPT !.run = r] = W("polling", r, 1, {}, 0, 0, 0)
  BY DEF W
<1>3. QED
  BY <1>1, <1>2

\* A worker that goes on in another place with what it has.
LEMMA GotoIs ==
    ASSUME NEW p \in WorkerState, NEW pc
    PROVE  [p EXCEPT !.pc = pc]
               = W(pc, p.run, p.next, p.seen, p.accepted, p.duplicates, p.rejected)
BY DEF WorkerState, W

\* A worker that has refused a record.
LEMMA RefusedIs ==
    ASSUME NEW p \in WorkerState
    PROVE  Refused(p) = W(p.pc, p.run, p.next + 1, p.seen, p.accepted, p.duplicates,
                          p.rejected + 1)
<1> DEFINE a == [p EXCEPT !.next = p.next + 1]
<1>1. a = W(p.pc, p.run, p.next + 1, p.seen, p.accepted, p.duplicates, p.rejected)
  BY DEF WorkerState, W
<1>2. [a EXCEPT !.rejected = p.rejected + 1]
          = W(p.pc, p.run, p.next + 1, p.seen, p.accepted, p.duplicates, p.rejected + 1)
  <2> HIDE DEF a
  <2> QED
    BY <1>1 DEF W
<1>3. QED
  BY <1>2 DEF Refused

\* A worker that has gone past a key, before either count moves.
LEMMA PastKeyIs ==
    ASSUME NEW p \in WorkerState, NEW k
    PROVE  [p EXCEPT !.pc = "ingesting", !.next = p.next + 1, !.seen = p.seen \cup {k}]
               = W("ingesting", p.run, p.next + 1, p.seen \cup {k}, p.accepted,
                   p.duplicates, p.rejected)
<1> DEFINE a == [p EXCEPT !.pc = "ingesting"]
           b == [a EXCEPT !.next = p.next + 1]
<1>1. a = W("ingesting", p.run, p.next, p.seen, p.accepted, p.duplicates, p.rejected)
  BY GotoIs
<1>2. b = W("ingesting", p.run, p.next + 1, p.seen, p.accepted, p.duplicates, p.rejected)
  <2> HIDE DEF a
  <2> QED
    BY <1>1 DEF W
<1>3. [b EXCEPT !.seen = p.seen \cup {k}]
          = W("ingesting", p.run, p.next + 1, p.seen \cup {k}, p.accepted,
              p.duplicates, p.rejected)
  <2> HIDE DEF b
  <2> QED
    BY <1>2 DEF W
<1>4. QED
  BY <1>3

\* A worker that has counted a key as known, or as new.
LEMMA DuplicateIs ==
    ASSUME NEW p \in WorkerState, NEW k
    PROVE  Duplicate(p, k) = W("ingesting", p.run, p.next + 1, p.seen \cup {k},
                               p.accepted, p.duplicates + 1, p.rejected)
<1> DEFINE q == [p EXCEPT !.pc = "ingesting", !.next = p.next + 1, !.seen = p.seen \cup {k}]
<1>1. Duplicate(p, k) = [q EXCEPT !.duplicates = p.duplicates + 1]
  BY DEF Duplicate
<1>2. q = W("ingesting", p.run, p.next + 1, p.seen \cup {k}, p.accepted,
            p.duplicates, p.rejected)
  BY PastKeyIs
<1> HIDE DEF q
<1>3. QED
  BY <1>1, <1>2 DEF W

LEMMA AcceptedIs ==
    ASSUME NEW p \in WorkerState, NEW k
    PROVE  Accepted(p, k) = W("ingesting", p.run, p.next + 1, p.seen \cup {k},
                              p.accepted + 1, p.duplicates, p.rejected)
<1> DEFINE q == [p EXCEPT !.pc = "ingesting", !.next = p.next + 1, !.seen = p.seen \cup {k}]
<1>1. Accepted(p, k) = [q EXCEPT !.accepted = p.accepted + 1]
  BY DEF Accepted
<1>2. q = W("ingesting", p.run, p.next + 1, p.seen \cup {k}, p.accepted,
            p.duplicates, p.rejected)
  BY PastKeyIs
<1> HIDE DEF q
<1>3. QED
  BY <1>1, <1>2 DEF W

\* The row of a run that was opened, has succeeded, or has failed.
LEMMA OpenedIs ==
    ASSUME NEW c
    PROVE  [AbsentRun EXCEPT !.status = "running", !.of = c] = R("running", c, 0, 0)
<1>1. [AbsentRun EXCEPT !.status = "running"] = R("running", NoCollector, 0, 0)
  BY DEF AbsentRun, R
<1>2. [R("running", NoCollector, 0, 0) EXCEPT !.of = c] = R("running", c, 0, 0)
  BY DEF R
<1>3. QED
  BY <1>1, <1>2

LEMMA SucceededIs ==
    ASSUME NEW row \in RunRow, NEW p \in WorkerState
    PROVE  Succeeded(row, p) = R("succeeded", row.of, p.accepted, p.duplicates)
<1> DEFINE a == [row EXCEPT !.status = "succeeded"]
           b == [a EXCEPT !.accepted = p.accepted]
<1>1. a = R("succeeded", row.of, row.accepted, row.duplicates)
  BY DEF RunRow, R
<1>2. b = R("succeeded", row.of, p.accepted, row.duplicates)
  <2> HIDE DEF a
  <2> QED
    BY <1>1 DEF R
<1>3. [b EXCEPT !.duplicates = p.duplicates] = R("succeeded", row.of, p.accepted, p.duplicates)
  <2> HIDE DEF b
  <2> QED
    BY <1>2 DEF R
<1>4. QED
  BY <1>3 DEF Succeeded

-----------------------------------------------------------------------------
(* Types.                                                                  *)

\* Init types every variable.
LEMMA InitTypes == Init => TypeOK
BY IntakeAssumption DEF Init, TypeOK, AbsentRun, RunRow, Idle, WorkerState, Incidents,
   AtRest, Reader

\* A worker goes on with what it has, or past a record; a row changes its status.
LEMMA MovesTyped ==
    ASSUME NEW p \in WorkerState
    PROVE  /\ \A pc \in {"idle", "polling", "ingesting", "inserting", "failing"} :
                 [p EXCEPT !.pc = pc] \in WorkerState
           /\ Refused(p) \in WorkerState
           /\ \A k \in Key : Duplicate(p, k) \in WorkerState /\ Accepted(p, k) \in WorkerState
           /\ Idle \in WorkerState
           /\ \A row \in RunRow : Succeeded(row, p) \in RunRow
<1>1. \A pc \in {"idle", "polling", "ingesting", "inserting", "failing"} :
          [p EXCEPT !.pc = pc] \in WorkerState
  BY DEF WorkerState
<1>2. Refused(p) \in WorkerState
  BY RefusedIs DEF W, WorkerState
<1>3. ASSUME NEW k \in Key
      PROVE  Duplicate(p, k) \in WorkerState /\ Accepted(p, k) \in WorkerState
  <2>1. /\ Duplicate(p, k) = W("ingesting", p.run, p.next + 1, p.seen \cup {k},
                               p.accepted, p.duplicates + 1, p.rejected)
        /\ Accepted(p, k) = W("ingesting", p.run, p.next + 1, p.seen \cup {k},
                              p.accepted + 1, p.duplicates, p.rejected)
    BY DuplicateIs, AcceptedIs
  <2>2. QED
    BY <2>1 DEF W, WorkerState
<1>4. Idle \in WorkerState
  BY DEF Idle, WorkerState
<1>5. ASSUME NEW row \in RunRow
      PROVE  Succeeded(row, p) \in RunRow
  <2>1. Succeeded(row, p) = R("succeeded", row.of, p.accepted, p.duplicates)
    BY SucceededIs
  <2>2. QED
    BY <2>1 DEF R, RunRow, WorkerState
<1>6. QED
  BY <1>1, <1>2, <1>3, <1>4, <1>5

LEMMA WorkerTyped ==
    ASSUME TypeOK, NEW w \in Worker, NEW n \in WorkerState,
           worker' = [worker EXCEPT ![w] = n]
    PROVE  worker' \in [Worker -> WorkerState]
BY DEF TypeOK

\* A step of a worker keeps the types.
LEMMA WorkerStepTypes ==
    ASSUME TypeOK, NEW w \in Worker, WorkerStep(w),
           worker[w].pc = "inserting" => Current(w) \in Key
    PROVE  TypeOK'
<1> DEFINE p == worker[w]
<1>a. p \in WorkerState /\ p.run \in Run \cup {NoRun}
  BY DEF TypeOK, WorkerState
<1>b. /\ \A pc \in {"idle", "polling", "ingesting", "inserting", "failing"} :
            [p EXCEPT !.pc = pc] \in WorkerState
      /\ Refused(p) \in WorkerState
      /\ \A k \in Key : Duplicate(p, k) \in WorkerState /\ Accepted(p, k) \in WorkerState
      /\ Idle \in WorkerState
      /\ \A row \in RunRow : Succeeded(row, p) \in RunRow
  BY <1>a, MovesTyped
<1> HIDE DEF p
<1>c. ASSUME NEW n \in WorkerState, worker' = [worker EXCEPT ![w] = n]
      PROVE  worker' \in [Worker -> WorkerState]
  BY <1>c, WorkerTyped
<1>1. CASE StillRunning(w)
  BY <1>1, <1>b, <1>c DEF StillRunning, TypeOK, database, others
<1>2. CASE CollectionFails(w) \/ Deadlock(w) \/ IngestionRefuses(w)
  <2>1. Failing(w)
    BY <1>2 DEF CollectionFails, Deadlock, IngestionRefuses
  <2>2. worker' = [worker EXCEPT ![w] = [p EXCEPT !.pc = "failing"]]
    BY <2>1 DEF Failing, p
  <2>3. QED
    BY <2>1, <2>2, <1>b, <1>c DEF Failing, TypeOK, database, others
<1>3. CASE Fetch(w)
  <2>1. PICK b \in Batch \cup {OffContract} :
           /\ dataset' = [dataset EXCEPT ![worker[w].run] = b]
           /\ worker' = [worker EXCEPT ![w] =
                  [p EXCEPT !.pc = IF Blocked(b) THEN "failing" ELSE "ingesting"]]
    BY <1>3 DEF Fetch, p
  <2>2. worker' \in [Worker -> WorkerState]
    BY <2>1, <1>b, <1>c
  <2>3. dataset' \in [Run -> Batch \cup {NoData, OffContract}]
    BY <2>1 DEF TypeOK
  <2>4. QED
    BY <1>3, <2>2, <2>3 DEF Fetch, TypeOK, database, others
<1>4. CASE Reject(w)
  BY <1>4, <1>b, <1>c DEF Reject, TypeOK, database, others, p
<1>5. CASE SkipKnown(w) \/ Collide(w)
  <2>1. Current(w) \in Key /\ worker' = [worker EXCEPT ![w] = Duplicate(p, Current(w))]
    BY <1>5 DEF SkipKnown, Collide, p
  <2>2. worker' \in [Worker -> WorkerState]
    BY <2>1, <1>b, <1>c
  <2>3. QED
    BY <1>5, <2>2 DEF SkipKnown, Collide, TypeOK, database, others
<1>6. CASE FindNone(w)
  <2>1. worker' = [worker EXCEPT ![w] = [p EXCEPT !.pc = "inserting"]]
    BY <1>6 DEF FindNone, p
  <2>2. QED
    BY <1>6, <2>1, <1>b, <1>c DEF FindNone, TypeOK, database, others
<1>7. CASE Insert(w)
  <2>1. Current(w) \in Key /\ worker' = [worker EXCEPT ![w] = Accepted(p, Current(w))]
    BY <1>7 DEF Insert, p
  <2>2. worker' \in [Worker -> WorkerState]
    BY <2>1, <1>b, <1>c
  <2>3. QED
    BY <1>7, <2>1, <2>2 DEF Insert, TypeOK, database, others
<1>8. CASE IngestionFails(w)
  <2>1. worker' = [worker EXCEPT ![w] = [p EXCEPT !.pc = "failing"]]
    BY <1>8 DEF IngestionFails, p
  <2>2. worker' \in [Worker -> WorkerState]
    BY <2>1, <1>b, <1>c
  <2>3. QED
    BY <1>8, <2>2, IntakeAssumption DEF IngestionFails, TypeOK, database
<1>9. CASE Lost(w)
  BY <1>9, <1>b, <1>c, IntakeAssumption DEF Lost, TypeOK
<1>10. CASE FinalizeSuccess(w)
  <2>1. runs' \in [Run -> RunRow]
    BY <1>10, <1>b DEF FinalizeSuccess, TypeOK, p
  <2>2. signals' \in [Key -> Run \cup {NoRun}]
    BY <1>10, <1>a DEF FinalizeSuccess, Committed, TypeOK, p
  <2>3. QED
    BY <1>10, <2>1, <2>2, <1>b, <1>c DEF FinalizeSuccess, TypeOK, others
<1>11. CASE FinalizeFailure(w)
  <2>1. runs' \in [Run -> RunRow]
    BY <1>11 DEF FinalizeFailure, TypeOK, RunRow
  <2>2. QED
    BY <1>11, <2>1, <1>b, <1>c DEF FinalizeFailure, TypeOK, others
<1>12. QED
  BY <1>1, <1>2, <1>3, <1>4, <1>5, <1>6, <1>7, <1>8, <1>9, <1>10, <1>11 DEF WorkerStep

\* So does a worker that comes to hold a run.
StepOf(w) ==
    \/ \E c \in Collector, r \in Run : Open(w, c, r)
    \/ \E r \in Run : Resume(w, r)
    \/ WorkerStep(w)

LEMMA IntakeTypes ==
    ASSUME TypeOK, NEW w \in Worker, StepOf(w),
           worker[w].pc = "inserting" => Current(w) \in Key
    PROVE  TypeOK'
<1>1. ASSUME NEW c \in Collector, NEW r \in Run, Open(w, c, r)
      PROVE  TypeOK'
  <2>1. /\ runs' = [runs EXCEPT ![r] = R("running", c, 0, 0)]
        /\ worker' = [worker EXCEPT ![w] = W("polling", r, 1, {}, 0, 0, 0)]
    BY <1>1, OpenedIs, PollingIs DEF Open
  <2>2. R("running", c, 0, 0) \in RunRow /\ W("polling", r, 1, {}, 0, 0, 0) \in WorkerState
    BY DEF R, RunRow, W, WorkerState
  <2>3. runs' \in [Run -> RunRow] /\ worker' \in [Worker -> WorkerState]
    BY <2>1, <2>2 DEF TypeOK
  <2>4. QED
    BY <1>1, <2>3 DEF Open, TypeOK, others
<1>2. ASSUME NEW r \in Run, Resume(w, r)
      PROVE  TypeOK'
  <2>1. worker' = [worker EXCEPT ![w] = W("polling", r, 1, {}, 0, 0, 0)]
    BY <1>2, PollingIs DEF Resume
  <2>2. W("polling", r, 1, {}, 0, 0, 0) \in WorkerState
    BY DEF W, WorkerState
  <2>3. worker' \in [Worker -> WorkerState]
    BY <2>1, <2>2 DEF TypeOK
  <2>4. QED
    BY <1>2, <2>3 DEF Resume, TypeOK, database, others
<1>3. QED
  BY <1>1, <1>2, WorkerStepTypes DEF StepOf

-----------------------------------------------------------------------------
(* What the step of one worker leaves to the others.                       *)

Frame(w) ==
    /\ \A v \in Worker \ {w} : worker'[v] = worker[v] /\ pending'[v] = pending[v]
    /\ \A r \in Run : runs[r].status # "absent" =>
          runs'[r].status # "absent" /\ runs'[r].of = runs[r].of
    /\ \A r \in Run : dataset[r] \in Batch => dataset'[r] = dataset[r]
    /\ \A k \in Key : Stored(k) => signals'[k] = signals[k]
    /\ UNCHANGED <<incidents, reader>>

LEMMA StepFrames ==
    ASSUME IntakeInv, NEW w \in Worker, StepOf(w)
    PROVE  Frame(w)
<1> USE DEF Frame, TypeOK, database, others
<1>a. TypeOK
  BY DEF IntakeInv
<1>b. \A row \in RunRow, p \in WorkerState :
          Succeeded(row, p).status = "succeeded" /\ Succeeded(row, p).of = row.of
  BY SucceededIs DEF R
<1>c. /\ \A row \in RunRow : [row EXCEPT !.status = "failed"].status = "failed"
                              /\ [row EXCEPT !.status = "failed"].of = row.of
  BY DEF RunRow
<1>1. CASE \E c \in Collector, r \in Run : Open(w, c, r)
  BY <1>1, <1>a DEF Open
<1>2. CASE \E r \in Run : Resume(w, r)
  BY <1>2, <1>a DEF Resume
<1>3. CASE Fetch(w)
  <2>1. PICK b \in Batch \cup {OffContract} :
           /\ Data(w) \in {NoData, b}
           /\ dataset' = [dataset EXCEPT ![worker[w].run] = b]
    BY <1>3 DEF Fetch
  <2>2. \A r \in Run : dataset[r] \in Batch => dataset'[r] = dataset[r]
    BY <2>1, <1>a, DataAssumption DEF Data
  <2>3. QED
    BY <1>3, <1>a, <2>2 DEF Fetch
<1>4. CASE StillRunning(w) \/ Failing(w) \/ Reject(w) \/ SkipKnown(w) \/ FindNone(w)
           \/ Collide(w) \/ IngestionFails(w)
  BY <1>4, <1>a DEF StillRunning, Failing, Reject, SkipKnown, FindNone, Collide, IngestionFails
<1>5. CASE Insert(w)
  BY <1>5, <1>a DEF Insert
<1>6. CASE Lost(w)
  BY <1>6, <1>a DEF Lost
<1>7. CASE FinalizeSuccess(w)
  <2>1. \A k \in Key : Stored(k) => signals'[k] = signals[k]
    BY <1>7 DEF FinalizeSuccess, Committed, IntakeInv, Apart
  <2>2. \A r \in Run : runs[r].status # "absent" =>
            runs'[r].status # "absent" /\ runs'[r].of = runs[r].of
    BY <1>7, <1>a, <1>b DEF FinalizeSuccess
  <2>3. QED
    BY <1>7, <1>a, <2>1, <2>2 DEF FinalizeSuccess
<1>8. CASE FinalizeFailure(w)
  <2>1. \A r \in Run : runs[r].status # "absent" =>
            runs'[r].status # "absent" /\ runs'[r].of = runs[r].of
    BY <1>8, <1>a, <1>c DEF FinalizeFailure
  <2>2. QED
    BY <1>8, <1>a, <2>1 DEF FinalizeFailure
<1>9. QED
  BY <1>1, <1>2, <1>3, <1>4, <1>5, <1>6, <1>7, <1>8
     DEF StepOf, WorkerStep, CollectionFails, Deadlock, IngestionRefuses

\* A worker that does not step holds what it held.
LEMMA OthersHold ==
    ASSUME IntakeInv, NEW w \in Worker, Frame(w), NEW v \in Worker \ {w}, TypeOK'
    PROVE  Holding(v)'
<1>1. Holding(v) /\ worker'[v] = worker[v] /\ pending'[v] = pending[v]
  BY DEF IntakeInv, Frame
<1>2. worker[v].pc # "idle" => runs'[worker[v].run].status # "absent"
  BY <1>1 DEF Frame, Holding
<1>3. ASSUME Accounted(v), worker[v].run \in Run
      PROVE  Accounted(v)' /\ Data(v)' = Data(v)
  <2>1. Data(v)' = Data(v)
    BY <1>1, <1>3 DEF Frame, Accounted, Data
  <2>2. \A k \in Key : Stored(k) => Stored(k)'
    BY DEF Frame, Stored
  <2>3. worker[v].seen \subseteq Key
    BY DEF IntakeInv, TypeOK, WorkerState
  <2>4. QED
    BY <1>1, <1>3, <2>1, <2>2, <2>3 DEF Accounted, Behind
<1>4. worker[v].pc \in {"ingesting", "inserting"} => Accounted(v)' /\ Data(v)' = Data(v)
  BY <1>1, <1>3 DEF Holding
<1>5. QED
  BY <1>1, <1>2, <1>4 DEF Holding, Fresh, AtEnd, Current

\* A worker that has gone past its current record has accounted for it too.
LEMMA OwnPast ==
    ASSUME IntakeInv, NEW w \in Worker, Accounted(w), ~AtEnd(w), TypeOK',
           worker[w].run \in Run, worker'[w].run = worker[w].run,
           UNCHANGED <<dataset, signals>>,
           worker'[w].next = worker[w].next + 1,
           \/ /\ Current(w) \notin Key
              /\ UNCHANGED <<pending[w], worker[w].seen, worker[w].accepted,
                             worker[w].duplicates>>
              /\ worker'[w].rejected = worker[w].rejected + 1
           \/ /\ Current(w) \in Key
              /\ worker'[w].rejected = worker[w].rejected
              /\ worker'[w].seen = worker[w].seen \cup {Current(w)}
              /\ \/ /\ Stored(Current(w)) \/ Current(w) \in worker[w].seen
                    /\ UNCHANGED <<pending[w], worker[w].accepted>>
                    /\ worker'[w].duplicates = worker[w].duplicates + 1
                 \/ /\ Current(w) \notin pending[w]
                    /\ pending'[w] = pending[w] \cup {Current(w)}
                    /\ worker'[w].accepted = worker[w].accepted + 1
                    /\ worker'[w].duplicates = worker[w].duplicates
    PROVE  Accounted(w)'
<1> DEFINE p == worker[w]
           q == worker'[w]
           d == Data(w)
           k == Current(w)
<1>1. /\ p.next \in Nat \ {0} /\ q.next = p.next + 1
      /\ p.accepted \in Nat /\ p.duplicates \in Nat /\ p.rejected \in Nat
  BY DEF IntakeInv, TypeOK, WorkerState
<1>2. d \in Batch /\ Behind(w) \subseteq DOMAIN d /\ p.next \in DOMAIN d /\ k = d[p.next]
  BY DEF Accounted, AtEnd, Current
<1>3. Data(w)' = d /\ \A j : Stored(j)' <=> Stored(j)
  BY DEF Data, Stored
<1>4. Behind(w)' = Behind(w) \cup {p.next} /\ Behind(w)' \subseteq DOMAIN d
  BY <1>1, <1>2 DEF Behind
<1>5. pending'[w] \subseteq Content(d) /\ q.accepted = Cardinality(pending'[w])
  <2>1. IsFiniteSet(pending[w])
    BY PendingFinite DEF IntakeInv
  <2>2. k \in Content(d)
    BY <1>2 DEF Content
  <2>3. k \notin pending[w] => Cardinality(pending[w] \cup {k}) = Cardinality(pending[w]) + 1
    BY <2>1, FS_AddElement
  <2>4. QED
    BY <1>1, <2>2, <2>3 DEF Accounted
<1>6. q.accepted + q.duplicates + q.rejected = q.next - 1
  <2>1. p.accepted + p.duplicates + p.rejected = p.next - 1
    BY DEF Accounted
  <2>2. \/ q.accepted = p.accepted /\ q.duplicates = p.duplicates /\ q.rejected = p.rejected + 1
        \/ q.accepted = p.accepted /\ q.duplicates = p.duplicates + 1 /\ q.rejected = p.rejected
        \/ q.accepted = p.accepted + 1 /\ q.duplicates = p.duplicates /\ q.rejected = p.rejected
    OBVIOUS
  <2> HIDE DEF p, q
  <2>3. QED
    BY <1>1, <2>1, <2>2
<1>7. \A j \in q.seen : Stored(j)' \/ j \in pending'[w]
  BY <1>3 DEF Accounted
<1>8. q.rejected = 0 =>
          \A i \in Behind(w)' : d[i] \in Key /\ (Stored(d[i])' \/ d[i] \in pending'[w])
  <2>1. SUFFICES ASSUME q.rejected = 0, NEW i \in Behind(w)'
                 PROVE  d[i] \in Key /\ (Stored(d[i]) \/ d[i] \in pending'[w])
    BY <1>3
  <2>2. p.rejected = 0 /\ k \in Key
    BY <1>1, <2>1
  <2>3. CASE i \in Behind(w)
    BY <2>2, <2>3 DEF Accounted
  <2>4. CASE i = p.next
    BY <1>2, <2>2, <2>4 DEF Accounted
  <2>5. QED
    BY <1>4, <2>3, <2>4
<1>9. QED
  BY <1>2, <1>3, <1>4, <1>5, <1>6, <1>7, <1>8 DEF Accounted

\* The worker that steps holds what it should.
LEMMA OwnHolds ==
    ASSUME IntakeInv, NEW w \in Worker, StepOf(w), TypeOK'
    PROVE  Holding(w)'
<1> DEFINE p == worker[w]
<1>a. TypeOK /\ Holding(w) /\ p \in WorkerState
  BY DEF IntakeInv, TypeOK
<1>b. \A pc : [p EXCEPT !.pc = pc]
                  = W(pc, p.run, p.next, p.seen, p.accepted, p.duplicates, p.rejected)
  BY <1>a, GotoIs
<1>c. Idle = W("idle", NoRun, 1, {}, 0, 0, 0)
  BY DEF Idle, W
<1>1. ASSUME NEW r \in Run, worker' = [worker EXCEPT ![w] = W("polling", r, 1, {}, 0, 0, 0)],
             runs'[r].status # "absent", UNCHANGED pending, p.pc = "idle"
      PROVE  Holding(w)'
  BY <1>1, <1>a DEF Holding, Fresh, W, TypeOK
<1>2. ASSUME worker' = [worker EXCEPT ![w] = Idle], pending'[w] = {}
      PROVE  Holding(w)'
  BY <1>2, <1>a, <1>c DEF Holding, Fresh, W, TypeOK
<1>3. ASSUME worker' = [worker EXCEPT ![w] = [p EXCEPT !.pc = "failing"]],
             p.pc # "idle", UNCHANGED runs
      PROVE  Holding(w)'
  BY <1>3, <1>a, <1>b DEF Holding, W, TypeOK
<1>4. CASE \E c \in Collector, r \in Run : Open(w, c, r)
  <2>1. PICK c \in Collector, r \in Run : Open(w, c, r)
    BY <1>4
  <2>2. runs'[r] = R("running", c, 0, 0)
    BY <2>1, <1>a, OpenedIs DEF Open, TypeOK
  <2>3. runs'[r].status # "absent"
    BY <2>2 DEF R
  <2>4. /\ worker' = [worker EXCEPT ![w] = W("polling", r, 1, {}, 0, 0, 0)]
        /\ UNCHANGED pending /\ p.pc = "idle"
    BY <2>1, PollingIs DEF Open
  <2>5. QED
    BY <2>3, <2>4, <1>1
<1>5. CASE \E r \in Run : Resume(w, r)
  BY <1>5, <1>1, PollingIs DEF Resume, database
<1>6. CASE StillRunning(w)
  BY <1>6, <1>2, <1>a DEF StillRunning, Holding, database
<1>7. CASE Lost(w) \/ FinalizeSuccess(w) \/ FinalizeFailure(w)
  BY <1>7, <1>2, <1>a DEF Lost, FinalizeSuccess, FinalizeFailure, TypeOK
<1>8. CASE CollectionFails(w) \/ Deadlock(w) \/ IngestionRefuses(w) \/ IngestionFails(w)
  <2>1. p.pc # "idle"
    <3>1. CASE Deadlock(w)
      BY <3>1 DEF Deadlock, WaitsFor
    <3>2. CASE ~Deadlock(w)
      BY <1>8, <3>2 DEF CollectionFails, IngestionRefuses, Ingested, IngestionFails
    <3>3. QED
      BY <3>1, <3>2
  <2>2. UNCHANGED runs /\ worker' = [worker EXCEPT ![w] = [p EXCEPT !.pc = "failing"]]
    BY <1>8 DEF CollectionFails, Deadlock, IngestionRefuses, Failing, IngestionFails, database
  <2>3. QED
    BY <2>1, <2>2, <1>3
<1>9. CASE Fetch(w)
  <2>1. PICK b \in Batch \cup {OffContract} :
           /\ dataset' = [dataset EXCEPT ![p.run] = b]
           /\ worker' = [worker EXCEPT ![w] =
                  [p EXCEPT !.pc = IF Blocked(b) THEN "failing" ELSE "ingesting"]]
           /\ p.pc = "polling" /\ UNCHANGED <<runs, pending>>
    BY <1>9 DEF Fetch, database
  <2>2. CASE Blocked(b)
    BY <2>1, <2>2, <1>3
  <2>3. CASE ~Blocked(b)
    <3>1. worker'[w] = W("ingesting", p.run, 1, {}, 0, 0, 0) /\ pending'[w] = {}
      BY <2>1, <2>3, <1>a, <1>b DEF Holding, Fresh, TypeOK
    <3>2. Data(w)' = b /\ b \in Batch /\ p.run \in Run
      BY <2>1, <2>3, <3>1, <1>a DEF Data, TypeOK, Holding, W, Blocked
    <3>3. Cardinality({}) = 0 /\ 1 .. (1 - 1) = {}
      BY FS_EmptySet
    <3>4. Accounted(w)'
      BY <3>1, <3>2, <3>3 DEF Accounted, Behind, W
    <3>5. QED
      BY <2>1, <3>1, <3>4, <1>a DEF Holding, W
  <2>4. QED
    BY <2>2, <2>3
<1>10. ASSUME p.pc \in {"ingesting", "inserting"}, worker'[w].pc = "ingesting",
              worker'[w].run = p.run, Accounted(w)', UNCHANGED runs
       PROVE  Holding(w)'
  BY <1>10, <1>a DEF Holding
<1>11. CASE Reject(w)
  <2>1. worker'[w] = W("ingesting", p.run, p.next + 1, p.seen, p.accepted, p.duplicates,
                       p.rejected + 1)
    BY <1>11, <1>a, RefusedIs DEF Reject, TypeOK
  <2>2. Accounted(w)'
    BY <1>11, <1>a, <2>1, OwnPast DEF Reject, Holding, W, database
  <2>3. QED
    BY <1>10, <1>11, <2>1, <2>2 DEF Reject, W, database
<1>12. CASE SkipKnown(w) \/ Collide(w)
  <2>1. /\ worker'[w] = W("ingesting", p.run, p.next + 1, p.seen \cup {Current(w)},
                          p.accepted, p.duplicates + 1, p.rejected)
        /\ Current(w) \in Key /\ ~AtEnd(w) /\ p.pc \in {"ingesting", "inserting"}
        /\ Stored(Current(w)) \/ Current(w) \in p.seen
        /\ UNCHANGED <<runs, signals, pending, dataset>>
    BY <1>12, <1>a, DuplicateIs
       DEF SkipKnown, Collide, Known, Holding, TypeOK, database
  <2>2. Accounted(w)'
    BY <1>a, <2>1, OwnPast DEF Holding, W
  <2>3. QED
    BY <1>10, <2>1, <2>2 DEF W
<1>13. CASE Insert(w)
  <2>1. /\ worker'[w] = W("ingesting", p.run, p.next + 1, p.seen \cup {Current(w)},
                          p.accepted + 1, p.duplicates, p.rejected)
        /\ Current(w) \in Key /\ ~AtEnd(w) /\ p.pc = "inserting"
        /\ Current(w) \notin pending[w]
        /\ pending'[w] = pending[w] \cup {Current(w)}
        /\ UNCHANGED <<runs, signals, dataset>>
    BY <1>13, <1>a, AcceptedIs DEF Insert, Holding, TypeOK
  <2>2. Accounted(w)'
    BY <1>a, <2>1, OwnPast DEF Holding, W
  <2>3. QED
    BY <1>10, <2>1, <2>2 DEF W
<1>14. CASE FindNone(w)
  <2>1. worker'[w] = W("inserting", p.run, p.next, p.seen, p.accepted, p.duplicates, p.rejected)
    BY <1>14, <1>a, <1>b DEF FindNone, TypeOK
  <2>2. Data(w)' = Data(w) /\ Current(w)' = Current(w) /\ AtEnd(w)' = AtEnd(w)
    BY <1>14, <2>1 DEF FindNone, Data, Current, AtEnd, W
  <2>3. Accounted(w)'
    BY <1>14, <1>a, <2>1, <2>2 DEF FindNone, Holding, Accounted, Behind, Stored, W, database
  <2>4. QED
    BY <1>14, <1>a, <2>1, <2>2, <2>3 DEF FindNone, Holding, W, database
<1>15. QED
  BY <1>4, <1>5, <1>6, <1>7, <1>8, <1>9, <1>11, <1>12, <1>13, <1>14 DEF StepOf, WorkerStep

-----------------------------------------------------------------------------
(* What the workers have between them.                                     *)

\* Transactions stay apart: a key is inserted where no other has it, and all
\* that is committed was one's own.
LEMMA StaysApart ==
    ASSUME IntakeInv, NEW w \in Worker, StepOf(w), Frame(w)
    PROVE  Apart'
<1> SUFFICES ASSUME NEW u \in Worker, NEW k \in pending'[u]
             PROVE  /\ ~Stored(k)'
                    /\ \A v \in Worker : k \in pending'[v] => v = u
  BY DEF Apart
<1>a. Apart /\ TypeOK
  BY DEF IntakeInv
<1>1. CASE Insert(w)
  <2>1. /\ pending' = [pending EXCEPT ![w] = @ \cup {Current(w)}] /\ UNCHANGED signals
        /\ ~Stored(Current(w)) /\ \A v \in Worker : Current(w) \notin pending[v]
    BY <1>1 DEF Insert
  <2>2. CASE k = Current(w)
    BY <1>a, <2>1, <2>2 DEF Stored, TypeOK
  <2>3. CASE k # Current(w)
    BY <1>a, <2>1, <2>3 DEF Apart, Stored, TypeOK
  <2>4. QED
    BY <2>2, <2>3
<1>2. CASE FinalizeSuccess(w)
  <2>1. pending' = [pending EXCEPT ![w] = {}] /\ signals' = Committed(w)
    BY <1>2 DEF FinalizeSuccess
  <2>2. u # w /\ k \in pending[u] /\ k \in Key
    BY <1>a, <2>1 DEF TypeOK
  <2>3. k \notin pending[w] /\ ~Stored(k)
    BY <1>a, <2>2 DEF Apart
  <2>4. QED
    BY <1>a, <2>1, <2>2, <2>3 DEF Committed, Stored, Apart, TypeOK
<1>3. CASE UNCHANGED signals /\ (UNCHANGED pending \/ pending' = [pending EXCEPT ![w] = {}])
  BY <1>a, <1>3 DEF Apart, Stored, TypeOK
<1>4. ASSUME ~Insert(w), ~FinalizeSuccess(w)
      PROVE  UNCHANGED signals /\ (UNCHANGED pending \/ pending' = [pending EXCEPT ![w] = {}])
  <2>1. CASE \E c \in Collector, r \in Run : Open(w, c, r)
    BY <2>1 DEF Open
  <2>2. CASE \E r \in Run : Resume(w, r)
    BY <2>2 DEF Resume, database
  <2>3. CASE WorkerStep(w)
    BY <1>4, <2>3 DEF WorkerStep, StillRunning, CollectionFails, Fetch, Reject, SkipKnown,
       FindNone, Collide, Deadlock, IngestionFails, IngestionRefuses, Failing,
       FinalizeFailure, Lost, database
  <2>4. QED
    BY <2>1, <2>2, <2>3 DEF StepOf
<1>5. QED
  BY <1>1, <1>2, <1>3, <1>4

\* A run that is not shared is one worker's, RUNNING until that worker ends it.
LEMMA StaysSole ==
    ASSUME IntakeInv, NEW w \in Worker, StepOf(w), Frame(w), TypeOK', Holding(w)'
    PROVE  Sole' /\ shared \subseteq shared'
<1>a. Sole /\ TypeOK /\ \A v \in Worker : Holding(v)
  BY DEF IntakeInv
<1>b. \A v \in Worker \ {w} : worker'[v] = worker[v]
  BY DEF Frame
<1>c. \A r \in shared : runs'[r].status # "absent"
  BY <1>a DEF Sole, Frame, TypeOK
<1>1. CASE \E c \in Collector, r \in Run : Open(w, c, r)
  <2>1. PICK c \in Collector, r \in Run : Open(w, c, r)
    BY <1>1
  <2>2. /\ runs' = [runs EXCEPT ![r] = R("running", c, 0, 0)]
        /\ worker' = [worker EXCEPT ![w] = W("polling", r, 1, {}, 0, 0, 0)]
        /\ UNCHANGED shared /\ runs[r].status = "absent"
    BY <2>1, OpenedIs, PollingIs DEF Open
  <2>3. \A v \in Worker : worker[v].run # r
    BY <1>a, <2>2, IntakeAssumption DEF Holding
  <2>4. worker'[w].run = r /\ runs'[r].status = "running"
    BY <1>a, <2>2 DEF R, W, TypeOK
  <2>5. \A s \in Run : s # r => runs'[s] = runs[s]
    BY <1>a, <2>2 DEF TypeOK
  <2>6. QED
    BY <1>a, <1>b, <1>c, <2>2, <2>3, <2>4, <2>5 DEF Sole
<1>2. CASE \E r \in Run : Resume(w, r)
  <2>1. PICK r \in Run : Resume(w, r)
    BY <1>2
  <2>2. /\ worker' = [worker EXCEPT ![w] = W("polling", r, 1, {}, 0, 0, 0)]
        /\ UNCHANGED runs /\ runs[r].status = "running" /\ worker[w].pc = "idle"
        /\ shared' = IF \E v \in Worker : worker[v].run = r THEN shared \cup {r} ELSE shared
    BY <2>1, PollingIs DEF Resume, database
  <2>3. worker'[w].run = r
    BY <1>a, <2>2 DEF W, TypeOK
  <2>4. shared \subseteq shared' /\ (r \notin shared' => \A v \in Worker : worker[v].run # r)
    BY <2>2
  <2>5. \A s \in shared' : runs'[s].status # "absent"
    BY <1>c, <2>2
  <2>6. QED
    BY <1>a, <1>b, <2>2, <2>3, <2>4, <2>5 DEF Sole
<1>3. ASSUME UNCHANGED <<runs, shared>>, worker'[w].run \in {worker[w].run, NoRun}
      PROVE  Sole' /\ shared \subseteq shared'
  BY <1>3, <1>a, <1>b, IntakeAssumption DEF Sole
<1>4. ASSUME UNCHANGED shared, worker'[w].run = NoRun,
             \A s \in Run : s # worker[w].run => runs'[s] = runs[s]
      PROVE  Sole' /\ shared \subseteq shared'
  <2>1. \A r \in Run \ shared' : \A v \in Worker : worker'[v].run = r =>
            v # w /\ worker[v].run = r /\ worker[w].run # r
    BY <1>4, <1>a, <1>b, IntakeAssumption DEF Sole
  <2>2. QED
    BY <1>4, <1>a, <1>b, <1>c, <2>1 DEF Sole
<1>5. CASE FinalizeSuccess(w) \/ FinalizeFailure(w)
  BY <1>5, <1>4, <1>a DEF FinalizeSuccess, FinalizeFailure, TypeOK, Idle
<1>6. CASE WorkerStep(w) /\ ~FinalizeSuccess(w) /\ ~FinalizeFailure(w)
  <2>1. UNCHANGED <<runs, shared>>
    BY <1>6 DEF WorkerStep, StillRunning, CollectionFails, Fetch, Reject, SkipKnown,
       FindNone, Insert, Collide, Deadlock, IngestionFails, IngestionRefuses, Failing,
       Lost, database
  <2>2. worker'[w].run \in {worker[w].run, NoRun}
    <3>1. worker[w] \in WorkerState
      BY <1>a DEF TypeOK
    <3>2. /\ Refused(worker[w]).run = worker[w].run
          /\ \A k : /\ Duplicate(worker[w], k).run = worker[w].run
                    /\ Accepted(worker[w], k).run = worker[w].run
          /\ \A pc : [worker[w] EXCEPT !.pc = pc].run = worker[w].run
          /\ Idle.run = NoRun
      BY <3>1, RefusedIs, DuplicateIs, AcceptedIs, GotoIs DEF W, Idle
    <3>3. CASE StillRunning(w) \/ Lost(w)
      BY <3>2, <3>3, <1>a DEF StillRunning, Lost, TypeOK
    <3>4. CASE Failing(w) \/ Fetch(w) \/ FindNone(w) \/ IngestionFails(w)
      <4>1. PICK pc : worker' = [worker EXCEPT ![w] = [worker[w] EXCEPT !.pc = pc]]
        BY <3>4 DEF Failing, Fetch, FindNone, IngestionFails
      <4>2. QED
        BY <4>1, <3>2, <1>a DEF TypeOK
    <3>5. CASE Reject(w) \/ SkipKnown(w) \/ Collide(w) \/ Insert(w)
      <4>1. PICK n : worker' = [worker EXCEPT ![w] = n] /\ n.run = worker[w].run
        BY <3>2, <3>5 DEF Reject, SkipKnown, Collide, Insert
      <4>2. QED
        BY <4>1, <1>a DEF TypeOK
    <3>6. QED
      BY <1>6, <3>3, <3>4, <3>5
         DEF WorkerStep, CollectionFails, Deadlock, IngestionRefuses
  <2>3. QED
    BY <2>1, <2>2, <1>3
<1>7. QED
  BY <1>1, <1>2, <1>5, <1>6 DEF StepOf

-----------------------------------------------------------------------------
(* Signals and reports.                                                    *)

\* What a worker has brought to its end without a refusal is all of its dataset.
LEMMA WholeDataset ==
    ASSUME IntakeInv, NEW w \in Worker, Ingested(w), worker[w].rejected = 0
    PROVE  LET r == worker[w].run IN
             /\ r \in Run /\ dataset[r] \in Batch
             /\ pending[w] \subseteq Content(dataset[r])
             /\ \A k \in Content(dataset[r]) : k \in Key /\ (Stored(k) \/ k \in pending[w])
             /\ worker[w].accepted = Cardinality(pending[w])
             /\ worker[w].accepted + worker[w].duplicates = Cardinality(DOMAIN dataset[r])
<1> DEFINE r == worker[w].run
           i == worker[w].next
<1>1. Holding(w) /\ worker[w].pc = "ingesting" /\ worker[w] \in WorkerState
  BY DEF IntakeInv, TypeOK, Ingested
<1>2. Accounted(w) /\ r \in Run /\ dataset[r] \in Batch
  BY <1>1 DEF Holding, Accounted, Data
<1>3. i \in Nat \ {0} /\ 1 .. (i - 1) \subseteq DOMAIN dataset[r] /\ i \notin DOMAIN dataset[r]
  BY <1>1, <1>2 DEF WorkerState, Accounted, Behind, Data, Ingested, AtEnd
<1>4. DOMAIN dataset[r] = 1 .. (i - 1) /\ Cardinality(DOMAIN dataset[r]) = i - 1
  BY <1>2, <1>3, NextInBatch
<1>5. \A k \in Content(dataset[r]) : k \in Key /\ (Stored(k) \/ k \in pending[w])
  BY <1>2, <1>4 DEF Content, Accounted, Behind, Data
<1>6. worker[w].accepted + worker[w].duplicates = i - 1
  <2>1. worker[w].accepted + worker[w].duplicates + worker[w].rejected = i - 1
    BY <1>2 DEF Accounted
  <2>2. worker[w].accepted \in Nat /\ worker[w].duplicates \in Nat
    BY <1>1 DEF WorkerState
  <2>3. QED
    BY <2>1, <2>2
<1>7. QED
  BY <1>2, <1>4, <1>5, <1>6 DEF Accounted, Data

\* Only the end of a run touches its row's verdict and the signals.
LEMMA RowsKept ==
    ASSUME IntakeInv, NEW w \in Worker, StepOf(w), ~FinalizeSuccess(w), ~FinalizeFailure(w)
    PROVE  /\ UNCHANGED signals
           /\ \A r \in Run : \/ runs'[r] = runs[r]
                             \/ runs[r].status = "absent" /\ runs'[r].status = "running"
<1>1. TypeOK
  BY DEF IntakeInv
<1>2. CASE \E c \in Collector, r \in Run : Open(w, c, r)
  BY <1>1, <1>2, OpenedIs DEF Open, TypeOK, R
<1>3. CASE \E r \in Run : Resume(w, r)
  BY <1>3 DEF Resume, database
<1>4. CASE WorkerStep(w)
  BY <1>4 DEF WorkerStep, StillRunning, CollectionFails, Fetch, Reject, SkipKnown,
     FindNone, Insert, Collide, Deadlock, IngestionFails, IngestionRefuses, Failing,
     Lost, database
<1>5. QED
  BY <1>2, <1>3, <1>4 DEF StepOf

\* A key is stored by the one transaction that carries its signal and SUCCEEDED.
LEMMA StaysVouched ==
    ASSUME IntakeInv, NEW w \in Worker, StepOf(w), Frame(w), TypeOK', shared \subseteq shared'
    PROVE  SignalsAreVouched'
<1> SUFFICES ASSUME NEW k \in Key, Stored(k)'
             PROVE  LET r == signals'[k] IN
                      /\ dataset'[r] \in Batch
                      /\ k \in Content(dataset'[r])
                      /\ Content(dataset'[r]) \subseteq Key
                      /\ runs'[r].status = "succeeded" \/ r \in shared'
  BY DEF SignalsAreVouched
<1>a. TypeOK /\ SignalsAreVouched /\ Sole /\ Apart
  BY DEF IntakeInv
<1>1. CASE Stored(k)
  <2> DEFINE r == signals[k]
  <2>1. /\ signals'[k] = r /\ r \in Run
        /\ dataset[r] \in Batch /\ k \in Content(dataset[r]) /\ Content(dataset[r]) \subseteq Key
        /\ runs[r].status = "succeeded" \/ r \in shared
    BY <1>1, <1>a DEF Frame, SignalsAreVouched, Stored, TypeOK
  <2>2. dataset'[r] = dataset[r]
    BY <2>1 DEF Frame
  <2>3. runs'[r].status = "succeeded" \/ r \in shared'
    <3>1. CASE r \in shared
      BY <3>1
    <3>2. CASE r \notin shared /\ (FinalizeSuccess(w) \/ FinalizeFailure(w))
      <4>1. worker[w].run # r
        BY <2>1, <3>2, <1>a DEF Sole
      <4>2. QED
        BY <2>1, <3>2, <4>1, <1>a DEF FinalizeSuccess, FinalizeFailure, TypeOK
    <3>3. CASE r \notin shared /\ ~FinalizeSuccess(w) /\ ~FinalizeFailure(w)
      BY <2>1, <3>3, RowsKept
    <3>4. QED
      BY <3>1, <3>2, <3>3
  <2>4. QED
    BY <2>1, <2>2, <2>3
<1>2. CASE ~Stored(k)
  <2>1. FinalizeSuccess(w)
    <3>1. ~UNCHANGED signals
      BY <1>2 DEF Stored
    <3>2. ~FinalizeFailure(w)
      BY <3>1 DEF FinalizeFailure
    <3>3. QED
      BY <3>1, <3>2, RowsKept
  <2> DEFINE r == worker[w].run
  <2>2. signals'[k] = r /\ k \in pending[w]
    BY <1>2, <2>1 DEF FinalizeSuccess, Committed, Stored
  <2>3. /\ r \in Run /\ dataset[r] \in Batch /\ pending[w] \subseteq Content(dataset[r])
        /\ Content(dataset[r]) \subseteq Key
    BY <2>1, WholeDataset DEF FinalizeSuccess
  <2>4. dataset'[r] = dataset[r]
    BY <2>3 DEF Frame
  <2>5. runs'[r].status = "succeeded"
    BY <2>1, <2>3, <1>a, SucceededIs DEF FinalizeSuccess, TypeOK, R
  <2>6. QED
    BY <2>2, <2>3, <2>4, <2>5
<1>3. QED
  BY <1>1, <1>2

\* A report of success stands, and a new one is of what was committed with it.
LEMMA StaysReported ==
    ASSUME IntakeInv, NEW w \in Worker, StepOf(w), Frame(w), TypeOK', shared \subseteq shared'
    PROVE  ReportedAsIngested'
<1> SUFFICES ASSUME NEW r \in Run, runs'[r].status = "succeeded"
             PROVE  /\ dataset'[r] \in Batch
                    /\ \A k \in Content(dataset'[r]) : k \in Key /\ Stored(k)'
                    /\ r \notin shared' =>
                          /\ runs'[r].accepted = Cardinality(Attributed(r)')
                          /\ runs'[r].accepted + runs'[r].duplicates
                                = Cardinality(DOMAIN dataset'[r])
  BY DEF ReportedAsIngested
<1>a. TypeOK /\ SignalsAreVouched /\ Sole /\ Apart /\ ReportedAsIngested
  BY DEF IntakeInv
<1>1. CASE FinalizeSuccess(w) /\ worker[w].run = r
  <2>1. /\ dataset[r] \in Batch /\ pending[w] \subseteq Content(dataset[r])
        /\ \A k \in Content(dataset[r]) : k \in Key /\ (Stored(k) \/ k \in pending[w])
        /\ worker[w].accepted = Cardinality(pending[w])
        /\ worker[w].accepted + worker[w].duplicates = Cardinality(DOMAIN dataset[r])
    BY <1>1, WholeDataset DEF FinalizeSuccess
  <2>2. dataset'[r] = dataset[r] /\ signals' = Committed(w)
    BY <1>1, <2>1 DEF Frame, FinalizeSuccess
  <2>3. \A k \in Content(dataset[r]) : Stored(k)'
    BY <1>1, <2>1, <2>2, IntakeAssumption DEF Committed, Stored
  <2>4. runs'[r] = R("succeeded", runs[r].of, worker[w].accepted, worker[w].duplicates)
    BY <1>1, <1>a, SucceededIs DEF FinalizeSuccess, TypeOK
  <2>5. ASSUME r \notin shared'
        PROVE  Attributed(r)' = pending[w]
    <3>1. runs[r].status = "running"
      BY <1>1, <1>a, <2>5 DEF Sole
    <3>2. \A k \in Key : signals[k] # r
      BY <3>1, <2>5, <1>a, IntakeAssumption DEF SignalsAreVouched, Stored
    <3>3. pending[w] \subseteq Key
      BY <1>a DEF TypeOK
    <3>4. QED
      BY <1>1, <2>2, <3>2, <3>3 DEF Committed, Attributed
  <2>6. QED
    BY <2>1, <2>2, <2>3, <2>4, <2>5 DEF R
<1>2. CASE ~(FinalizeSuccess(w) /\ worker[w].run = r)
  <2>1. runs'[r] = runs[r]
    <3>1. CASE FinalizeSuccess(w)
      BY <1>2, <3>1, <1>a DEF FinalizeSuccess, TypeOK
    <3>2. CASE FinalizeFailure(w)
      <4>1. worker[w].run # r
        BY <3>2, <1>a DEF FinalizeFailure, TypeOK, RunRow
      <4>2. QED
        BY <3>2, <4>1, <1>a DEF FinalizeFailure, TypeOK
    <3>3. CASE ~FinalizeSuccess(w) /\ ~FinalizeFailure(w)
      BY <3>3, RowsKept
    <3>4. QED
      BY <3>1, <3>2, <3>3
  <2>2. /\ dataset[r] \in Batch
        /\ \A k \in Content(dataset[r]) : k \in Key /\ Stored(k)
        /\ r \notin shared =>
              /\ runs[r].accepted = Cardinality(Attributed(r))
              /\ runs[r].accepted + runs[r].duplicates = Cardinality(DOMAIN dataset[r])
    BY <2>1, <1>a DEF ReportedAsIngested
  <2>3. dataset'[r] = dataset[r]
    BY <2>2 DEF Frame
  <2>4. \A k \in Key : Stored(k) => Stored(k)'
    BY DEF Frame, Stored
  <2>5. Attributed(r)' = Attributed(r)
    <3>1. CASE FinalizeSuccess(w)
      <4>1. signals' = Committed(w) /\ worker[w].run # r
        BY <1>2, <3>1 DEF FinalizeSuccess
      <4>2. \A k \in pending[w] : signals[k] # r
        BY <1>a, IntakeAssumption DEF Apart, Stored
      <4>3. QED
        BY <4>1, <4>2 DEF Committed, Attributed
    <3>2. CASE ~FinalizeSuccess(w)
      <4>1. UNCHANGED signals
        BY <3>2, RowsKept DEF FinalizeFailure
      <4>2. QED
        BY <4>1 DEF Attributed
    <3>3. QED
      BY <3>1, <3>2
  <2>6. QED
    BY <2>1, <2>2, <2>3, <2>4, <2>5
<1>3. QED
  BY <1>1, <1>2

\* What is shown stays as vouched for as it was.
LEMMA StaysListed ==
    ASSUME IntakeInv, ListedIsTrusted, NEW w \in Worker, StepOf(w), Frame(w), TypeOK',
           shared \subseteq shared'
    PROVE  ListedIsTrusted'
<1>a. TypeOK /\ Sole /\ UNCHANGED <<incidents, reader>>
  BY DEF IntakeInv, Frame
<1>1. ASSUME NEW r \in Run, runs[r].status = "succeeded" \/ r \in shared
      PROVE  /\ runs'[r].status = "succeeded" \/ r \in shared'
             /\ runs'[r].of = runs[r].of
  <2>1. runs'[r].of = runs[r].of
    BY <1>1, <1>a DEF Frame, Sole
  <2>2. CASE r \in shared
    BY <2>1, <2>2
  <2>3. CASE r \notin shared /\ (FinalizeSuccess(w) \/ FinalizeFailure(w))
    <3>1. worker[w].run # r
      BY <1>1, <2>3, <1>a DEF Sole
    <3>2. QED
      BY <1>1, <2>3, <3>1, <1>a DEF FinalizeSuccess, FinalizeFailure, TypeOK
  <2>4. CASE r \notin shared /\ ~FinalizeSuccess(w) /\ ~FinalizeFailure(w)
    BY <1>1, <2>4, RowsKept
  <2>5. QED
    BY <2>1, <2>2, <2>3, <2>4
<1>2. \A k \in Key : reader.listed[k] # NoRun => reader.listed[k] \in Run
  BY <1>a DEF TypeOK, Reader
<1>3. QED
  BY <1>a, <1>1, <1>2 DEF ListedIsTrusted, Active

\* A step of a worker keeps the inductive invariant.
LEMMA IntakeKeeps ==
    ASSUME IInv, NEW w \in Worker, StepOf(w)
    PROVE  IInv'
<1>1. IntakeInv
  BY DEF IInv
<1>2. Frame(w)
  BY <1>1, StepFrames
<1>3. TypeOK'
  BY <1>1, IntakeTypes DEF IntakeInv, Holding
<1>4. \A v \in Worker : Holding(v)'
  BY <1>1, <1>2, <1>3, OthersHold, OwnHolds
<1>5. Apart'
  BY <1>1, <1>2, StaysApart
<1>6. Sole' /\ shared \subseteq shared'
  BY <1>1, <1>2, <1>3, <1>4, StaysSole
<1>7. SignalsAreVouched' /\ ReportedAsIngested'
  BY <1>1, <1>2, <1>3, <1>6, StaysVouched, StaysReported
<1>8. ListedIsTrusted'
  BY <1>1, <1>2, <1>3, <1>6, StaysListed DEF IInv
<1>9. Counted' /\ Checked'
  BY <1>2 DEF IInv, Frame, Counted, Checked, Active, ActiveCountCoversActive
<1>10. QED
  BY <1>3, <1>4, <1>5, <1>6, <1>7, <1>8, <1>9 DEF IInv, IntakeInv

-----------------------------------------------------------------------------
(* RecallGuard and the reader.                                             *)

\* What neither of them touches.
LEMMA IntakeUnread ==
    ASSUME IntakeInv, UNCHANGED intake, TypeOK'
    PROVE  IntakeInv'
<1>1. \A w \in Worker : Holding(w)'
  BY DEF IntakeInv, intake, Holding, Fresh, Accounted, Behind, Data, AtEnd, Current, Stored
<1>2. Apart' /\ Sole'
  BY DEF IntakeInv, intake, Apart, Sole, Stored
<1>3. SignalsAreVouched' /\ ReportedAsIngested'
  BY DEF IntakeInv, intake, SignalsAreVouched, ReportedAsIngested, Attributed, Stored
<1>4. QED
  BY <1>1, <1>2, <1>3 DEF IntakeInv

\* An incident opens or closes: the rows and the active ones keep in step.
LEMMA IncidentKeeps ==
    ASSUME IInv, NEW c \in Collector, Degrade(c) \/ Recover(c)
    PROVE  IInv'
<1>a. TypeOK /\ Counted /\ Checked /\ ListedIsTrusted /\ UNCHANGED <<intake, reader>>
  BY DEF IInv, IntakeInv, Degrade, Recover
<1>b. /\ incidents.active \in [Collector -> Nat]
      /\ incidents.opened \in Nat /\ incidents.recovered \in Nat
      /\ reader.since \in Nat /\ reader.recovered \in Nat
      /\ reader.owed \in Nat /\ reader.active \in Int
  BY <1>a DEF TypeOK, Incidents, Reader
<1>c. Cardinality(Active) \in Nat /\ IsFiniteSet(Active)
  BY <1>a, FS_CardinalityType DEF Counted
<1>d. ActiveCountCoversActive'
  BY <1>a DEF Counted, ActiveCountCoversActive
<1>1. CASE Degrade(c)
  <2>1. /\ incidents'.active = [incidents.active EXCEPT ![c] = incidents.opened + 1]
        /\ incidents'.opened = incidents.opened + 1
        /\ incidents'.recovered = incidents.recovered
        /\ c \notin Active
    BY <1>1 DEF Degrade
  <2>2. incidents' \in Incidents
    BY <1>1, <1>b DEF Degrade, Incidents
  <2>3. Active' = Active \cup {c}
    BY <2>1, <1>b DEF Active
  <2>4. IsFiniteSet(Active') /\ Cardinality(Active') = Cardinality(Active) + 1
    BY <2>1, <2>3, <1>c, FS_AddElement
  <2>5. Counted'
    BY <2>1, <2>4, <1>a, <1>b, <1>c, <1>d DEF Counted
  <2>6. Checked'
    BY <2>1, <2>3, <1>a, <1>b DEF Checked
  <2>7. ListedIsTrusted'
    <3>1. /\ \A d \in Active : d # c /\ incidents'.active[d] = incidents.active[d]
          /\ incidents'.active[c] > reader.since
      BY <2>1, <1>a, <1>b DEF Active, Checked
    <3>2. QED
      BY <2>3, <3>1, <1>a DEF ListedIsTrusted, intake
  <2>8. TypeOK'
    BY <2>2, <1>a DEF TypeOK, intake
  <2>9. QED
    BY <2>5, <2>6, <2>7, <2>8, <1>a, IntakeUnread DEF IInv
<1>2. CASE Recover(c)
  <2>1. /\ incidents'.active = [incidents.active EXCEPT ![c] = 0]
        /\ incidents'.opened = incidents.opened
        /\ incidents'.recovered = incidents.recovered + 1
        /\ c \in Active
    BY <1>2 DEF Recover
  <2>2. incidents' \in Incidents
    BY <1>2, <1>b DEF Recover, Incidents
  <2>3. Active' = Active \ {c}
    BY <2>1, <1>b DEF Active
  <2>4. IsFiniteSet(Active') /\ Cardinality(Active') = Cardinality(Active) - 1
    BY <2>1, <2>3, <1>c, FS_RemoveElement
  <2>5. Counted'
    BY <2>1, <2>4, <1>a, <1>b, <1>c, <1>d DEF Counted
  <2>6. Checked'
    BY <2>1, <2>3, <1>a, <1>b DEF Checked
  <2>7. ListedIsTrusted'
    <3>1. \A d \in Active' : d \in Active /\ incidents'.active[d] = incidents.active[d]
      BY <2>1, <2>3, <1>b
    <3>2. QED
      BY <3>1, <1>a DEF ListedIsTrusted, intake
  <2>8. TypeOK'
    BY <2>2, <1>a DEF TypeOK, intake
  <2>9. QED
    BY <2>5, <2>6, <2>7, <2>8, <1>a, IntakeUnread DEF IInv
<1>3. QED
  BY <1>1, <1>2

\* The rows a reader writes, field by field.
D(pc, recovered, active, owed, unhealthy, since, listed) ==
    [pc |-> pc, recovered |-> recovered, active |-> active, owed |-> owed,
     unhealthy |-> unhealthy, since |-> since, listed |-> listed]
Nothing == [k \in Key |-> NoRun]

LEMMA ReaderIs ==
    /\ AtRest = D("idle", 0, 0, 0, {}, 0, Nothing)
    /\ \A n : [AtRest EXCEPT !.pc = "counted", !.recovered = n]
                 = D("counted", n, 0, 0, {}, 0, Nothing)
    /\ \A a, n : [AtRest EXCEPT !.pc = "counts", !.active = a, !.owed = n]
                    = D("counts", 0, a, n, {}, 0, Nothing)
    /\ \A u, n : [AtRest EXCEPT !.pc = "checked", !.unhealthy = u, !.since = n]
                    = D("checked", 0, 0, 0, u, n, Nothing)
    /\ \A n, l : [AtRest EXCEPT !.pc = "shown", !.since = n, !.listed = l]
                    = D("shown", 0, 0, 0, {}, n, l)
<1>1. AtRest = D("idle", 0, 0, 0, {}, 0, Nothing)
  BY DEF AtRest, D, Nothing
<1>2. ASSUME NEW pc
      PROVE  [AtRest EXCEPT !.pc = pc] = D(pc, 0, 0, 0, {}, 0, Nothing)
  <2>1. [D("idle", 0, 0, 0, {}, 0, Nothing) EXCEPT !.pc = pc] = D(pc, 0, 0, 0, {}, 0, Nothing)
    BY DEF D
  <2>2. QED
    BY <1>1, <2>1
<1>3. ASSUME NEW n
      PROVE  [AtRest EXCEPT !.pc = "counted", !.recovered = n] = D("counted", n, 0, 0, {}, 0, Nothing)
  <2>1. [D("counted", 0, 0, 0, {}, 0, Nothing) EXCEPT !.recovered = n]
            = D("counted", n, 0, 0, {}, 0, Nothing)
    BY DEF D
  <2>2. QED
    BY <1>2, <2>1
<1>4. ASSUME NEW a, NEW n
      PROVE  [AtRest EXCEPT !.pc = "counts", !.active = a, !.owed = n]
                 = D("counts", 0, a, n, {}, 0, Nothing)
  <2>1. [D("counts", 0, 0, 0, {}, 0, Nothing) EXCEPT !.active = a]
            = D("counts", 0, a, 0, {}, 0, Nothing)
    BY DEF D
  <2>2. [D("counts", 0, a, 0, {}, 0, Nothing) EXCEPT !.owed = n]
            = D("counts", 0, a, n, {}, 0, Nothing)
    BY DEF D
  <2>3. QED
    BY <1>2, <2>1, <2>2
<1>5. ASSUME NEW u, NEW n
      PROVE  [AtRest EXCEPT !.pc = "checked", !.unhealthy = u, !.since = n]
                 = D("checked", 0, 0, 0, u, n, Nothing)
  <2>1. [D("checked", 0, 0, 0, {}, 0, Nothing) EXCEPT !.unhealthy = u]
            = D("checked", 0, 0, 0, u, 0, Nothing)
    BY DEF D
  <2>2. [D("checked", 0, 0, 0, u, 0, Nothing) EXCEPT !.since = n]
            = D("checked", 0, 0, 0, u, n, Nothing)
    BY DEF D
  <2>3. QED
    BY <1>2, <2>1, <2>2
<1>6. ASSUME NEW n, NEW l
      PROVE  [AtRest EXCEPT !.pc = "shown", !.since = n, !.listed = l]
                 = D("shown", 0, 0, 0, {}, n, l)
  <2>1. [D("shown", 0, 0, 0, {}, 0, Nothing) EXCEPT !.since = n]
            = D("shown", 0, 0, 0, {}, n, Nothing)
    BY DEF D
  <2>2. [D("shown", 0, 0, 0, {}, n, Nothing) EXCEPT !.listed = l]
            = D("shown", 0, 0, 0, {}, n, l)
    BY DEF D
  <2>3. QED
    BY <1>2, <2>1, <2>2
<1>7. QED
  BY <1>1, <1>3, <1>4, <1>5, <1>6

\* A statement of the reader keeps the inductive invariant: the first count
\* can only fall behind, so the difference of the two can only be too high.
LEMMA ReaderKeeps ==
    ASSUME IInv, IncidentCounts \/ CheckTrust \/ ListOpportunities \/ Render
    PROVE  IInv'
<1>a. TypeOK /\ Counted /\ Checked /\ ListedIsTrusted /\ UNCHANGED <<intake, incidents>>
  BY DEF IInv, IntakeInv, IncidentCounts, CheckTrust, ListOpportunities, Render, Read
<1>b. /\ incidents.active \in [Collector -> Nat]
      /\ incidents.opened \in Nat /\ incidents.recovered \in Nat
      /\ reader.since \in Nat /\ reader.recovered \in Nat
      /\ Cardinality(Active) \in Nat /\ IsFiniteSet(Active)
      /\ Active \subseteq Collector /\ UNCHANGED Active
  BY <1>a, FS_CardinalityType DEF TypeOK, Incidents, Reader, Counted, Active
<1>c. Nothing \in [Key -> Run \cup {NoRun}]
  BY DEF Nothing
<1>d. ASSUME reader' \in Reader
      PROVE  TypeOK' /\ IntakeInv'
  <2>1. TypeOK'
    BY <1>a, <1>d DEF TypeOK, intake
  <2>2. QED
    BY <2>1, <1>a, IntakeUnread DEF IInv
<1>e. \A k \in Key : Nothing[k] = NoRun
  BY DEF Nothing
<1>1. CASE reader' = D("counted", incidents.recovered, 0, 0, {}, 0, Nothing)
  <2>1. reader' \in Reader
    BY <1>1, <1>b, <1>c DEF D, Reader
  <2>2. Counted' /\ Checked' /\ ListedIsTrusted'
    BY <1>1, <1>a, <1>b DEF D, Counted, Checked, ListedIsTrusted, ActiveCountCoversActive
  <2>3. QED
    BY <2>1, <2>2, <1>d DEF IInv
<1>2. CASE /\ reader.pc = "counted"
           /\ reader' = D("counts", 0, incidents.opened - reader.recovered,
                          Cardinality(Active), {}, 0, Nothing)
  <2>1. reader' \in Reader
    BY <1>2, <1>b, <1>c DEF D, Reader
  <2>2. incidents.opened - reader.recovered >= Cardinality(Active)
    BY <1>2, <1>a, <1>b DEF Counted
  <2>3. Counted' /\ Checked' /\ ListedIsTrusted'
    BY <1>2, <2>2, <1>a, <1>b DEF D, Counted, Checked, ListedIsTrusted, ActiveCountCoversActive
  <2>4. QED
    BY <2>1, <2>3, <1>d DEF IInv
<1>3. CASE reader' = D("checked", 0, 0, 0, Active, incidents.opened, Nothing)
  <2>1. reader' \in Reader
    BY <1>3, <1>b, <1>c DEF D, Reader
  <2>2. Counted' /\ Checked' /\ ListedIsTrusted'
    BY <1>3, <1>a, <1>b DEF D, Counted, Checked, ListedIsTrusted, ActiveCountCoversActive
  <2>3. QED
    BY <2>1, <2>2, <1>d DEF IInv
<1>4. CASE /\ reader.pc = "checked"
           /\ reader' = D("shown", 0, 0, 0, {}, reader.since, Trusted)
  <2>1. Trusted \in [Key -> Run \cup {NoRun}]
    BY <1>a DEF Trusted, TypeOK
  <2>2. reader' \in Reader
    BY <1>4, <2>1, <1>b DEF D, Reader
  <2>3. ASSUME NEW k \in Key, Trusted[k] # NoRun
        PROVE  LET r == Trusted[k] IN
                 /\ runs[r].status = "succeeded" \/ r \in shared
                 /\ runs[r].of \in Active => incidents.active[runs[r].of] > reader.since
    <3>1. Trusted[k] = signals[k] /\ Stored(k) /\ runs[signals[k]].of \notin reader.unhealthy
      BY <2>3 DEF Trusted
    <3>2. runs[signals[k]].status = "succeeded" \/ signals[k] \in shared
      BY <3>1 DEF IInv, IntakeInv, SignalsAreVouched
    <3>3. runs[signals[k]].of \in Active => incidents.active[runs[signals[k]].of] > reader.since
      BY <3>1, <1>4, <1>a DEF Checked
    <3>4. QED
      BY <3>1, <3>2, <3>3
  <2>4. ListedIsTrusted'
    BY <1>4, <2>3, <1>a, <1>b DEF D, ListedIsTrusted, intake
  <2>5. Counted' /\ Checked'
    BY <1>4, <1>a, <1>b DEF D, Counted, Checked, ActiveCountCoversActive
  <2>6. QED
    BY <2>2, <2>4, <2>5, <1>d DEF IInv
<1>5. CASE reader' = D("idle", 0, 0, 0, {}, 0, Nothing)
  <2>1. reader' \in Reader
    BY <1>5, <1>c DEF D, Reader
  <2>2. Counted' /\ Checked' /\ ListedIsTrusted'
    BY <1>5, <1>a, <1>b DEF D, Counted, Checked, ListedIsTrusted, ActiveCountCoversActive
  <2>3. QED
    BY <2>1, <2>2, <1>d DEF IInv
<1>6. CASE IncidentCounts
  BY <1>6, <1>1, <1>2, ReaderIs DEF IncidentCounts, Read
<1>7. CASE CheckTrust
  BY <1>7, <1>3, ReaderIs DEF CheckTrust, Read
<1>8. CASE ListOpportunities
  BY <1>8, <1>4, ReaderIs DEF ListOpportunities, Read
<1>9. CASE Render
  BY <1>9, <1>5, ReaderIs DEF Render, Read
<1>10. QED
  BY <1>6, <1>7, <1>8, <1>9

-----------------------------------------------------------------------------
(* The theorems.                                                           *)

\* The inductive invariant holds at first.
LEMMA InitInv == Init => IInv
<1> SUFFICES ASSUME Init PROVE IInv
  OBVIOUS
<1>1. TypeOK
  BY InitTypes
<1>2. \A w \in Worker : Holding(w)
  BY DEF Init, Idle, Holding, Fresh
<1>3. Apart /\ Sole /\ SignalsAreVouched /\ ReportedAsIngested
  BY IntakeAssumption
     DEF Init, Idle, AbsentRun, Apart, Sole, SignalsAreVouched, ReportedAsIngested, Stored
<1>4. Active = {} /\ incidents.opened = 0 /\ incidents.recovered = 0
  BY DEF Init, Active
<1>5. Counted /\ Checked /\ ListedIsTrusted
  BY <1>4, FS_EmptySet DEF Init, AtRest, Counted, Checked, ListedIsTrusted, ActiveCountCoversActive
<1>6. QED
  BY <1>1, <1>2, <1>3, <1>5 DEF IInv, IntakeInv

\* Every step keeps it.
LEMMA NextInv == IInv /\ [Next]_vars => IInv'
<1> SUFFICES ASSUME IInv, [Next]_vars PROVE IInv'
  OBVIOUS
<1>1. ASSUME NEW w \in Worker, StepOf(w)
      PROVE  IInv'
  BY <1>1, IntakeKeeps
<1>2. ASSUME NEW c \in Collector, Degrade(c) \/ Recover(c)
      PROVE  IInv'
  BY <1>2, IncidentKeeps
<1>3. CASE IncidentCounts \/ CheckTrust \/ ListOpportunities \/ Render
  BY <1>3, ReaderKeeps
<1>4. CASE UNCHANGED vars
  <2>1. TypeOK' /\ UNCHANGED intake
    BY <1>4 DEF vars, IInv, IntakeInv, TypeOK, intake
  <2>2. Counted' /\ Checked' /\ ListedIsTrusted'
    BY <1>4 DEF vars, IInv, Counted, Checked, ListedIsTrusted, ActiveCountCoversActive, Active
  <2>3. QED
    BY <2>1, <2>2, IntakeUnread DEF IInv
<1>5. QED
  BY <1>1, <1>2, <1>3, <1>4 DEF Next, StepOf

\* The inductive invariant holds in every behaviour.
THEOREM Inductive == Spec => []IInv
BY InitInv, NextInv, PTL DEF Spec

\* Every row, session and transaction keeps its shape.
THEOREM TypeCorrect == Spec => []TypeOK
<1>1. IInv => TypeOK
  BY DEF IInv, IntakeInv
<1>2. QED
  BY <1>1, Inductive, PTL

\* Whatever is stored was in a dataset none of whose records was refused, and
\* its run SUCCEEDED unless two workers held it.
THEOREM Vouched == Spec => []SignalsAreVouched
<1>1. IInv => SignalsAreVouched
  BY DEF IInv, IntakeInv
<1>2. QED
  BY <1>1, Inductive, PTL

\* A run that SUCCEEDED lost no record, and counts what it stored.
THEOREM Reported == Spec => []ReportedAsIngested
<1>1. IInv => ReportedAsIngested
  BY DEF IInv, IntakeInv
<1>2. QED
  BY <1>1, Inductive, PTL

\* The dashboard never hides an active incident behind its two counts.
THEOREM CountCovers == Spec => []ActiveCountCoversActive
<1>1. IInv => ActiveCountCoversActive
  BY DEF IInv, Counted
<1>2. QED
  BY <1>1, Inductive, PTL

\* What is shown was vouched for, by a collector doubted no earlier than the
\* read asked.
THEOREM ListingTrusted == Spec => []ListedIsTrusted
<1>1. IInv => ListedIsTrusted
  BY DEF IInv
<1>2. QED
  BY <1>1, Inductive, PTL
=============================================================================
