----------------------- MODULE PipelineExecutor_proofs -----------------------
(***************************************************************************)
(* Proofs about PipelineExecutor and ExecutorHistory, for every number of  *)
(* drivers, days, executions, provider jobs and faults, and however the    *)
(* drivers interleave.  The type invariant and the one active execution    *)
(* hold of every execution.  That a provider job is triggered once, that a *)
(* collection is not given up and that a verdict is about a finished       *)
(* collection are proved of every execution but those two drivers held at  *)
(* once before either knew of a job; and every step, of those executions   *)
(* too, is one the contract of an execution (ExecutionContract) allows.    *)
(* No fairness is used, nor any assumption but the model's bounds.         *)
(***************************************************************************)
EXTENDS ExecutorHistory, TLAPS


-----------------------------------------------------------------------------
(* The inductive invariant, whatever the drivers do.                       *)

\* The pcs at which a driver has an execution.
Driving == PC \ {"idle", "selecting", "looking", "claiming", "relooking"}

\* rows: the table, now or after a step.
GoodProc(p, rows) ==
    /\ p.pc \in Driving <=> p.exec # 0
    /\ p.exec # 0 => rows[p.exec].status # "absent"
    /\ p.pc = "closing" => p.verdict \in Verdict
    /\ p.kind \in {"daily", "daily_resume"} => p.day # 0

Untouched == \A e \in Exec : execs[e].status = "absent" => execs[e] = NoRow

IInv ==
    /\ TypeOK
    /\ OneActiveExecution
    /\ Untouched
    /\ \A d \in Driver : GoodProc(driver[d], execs)

-----------------------------------------------------------------------------
(* The inductive invariant of ExecutorHistory.                             *)

Finished == {"succeeded", "failed"}

\* The pcs at which a driver has a job of its own that no row knows yet, and
\* those at which it is past its collection.
Asked == {"opening", "recording"}
Judging == {"finishing", "verifying", "closing"}

\* A job that is referred to belongs to the execution it is referred to for.
Own(js, j, e) == j # 0 => e # 0 /\ js[j].of = e

JobsGood ==
    /\ \A j \in Job : jobs[j].st = "absent" => jobs[j].of = 0
    /\ \A e \in Exec : Own(jobs, execs[e].job, e)
    /\ \A d \in Driver : Own(jobs, driver[d].seen.job, driver[d].exec)

\* Until d has recorded its job, nobody else knows of it.
Unrecorded(d) ==
    /\ driver[d].job # 0
    /\ Own(jobs, driver[d].job, driver[d].exec)
    /\ \A e \in Exec : execs[e].job # driver[d].job
    /\ \A c \in Driver : driver[c].seen.job # driver[d].job
    /\ \A c \in Driver \ {d} : driver[c].pc \in Asked => driver[c].job # driver[d].job

\* What the history variables say of the drivers as they are.
Recalled ==
    /\ Raced \subseteq raced /\ raced \subseteq shared
    /\ Shared \subseteq shared /\ shared \subseteq Exec
    /\ \A e \in shared : execs[e].status # "absent"

\* What a driver p that holds an execution knows of its row.
Aware(p, row) ==
    /\ p.seen.job = row.job
    /\ p.seen.job = 0 => p.seen = row
    /\ p.seen.status = "queued" => p.seen.job = 0
    /\ p.pc \in {"triggering"} \cup Asked
           => p.seen.status = "collecting" /\ p.seen.job = 0
    /\ p.pc \in Completing => p.seen.job # 0
    /\ p.pc \in Judging /\ p.seen.job = 0 => p.seen.status \in Active
    /\ p.pc = "closing" /\ p.verdict = "completed" => p.seen.job # 0

\* What there is at the provider by then.
InTouch(p, js, rs) ==
    /\ p.pc = "triggering" => \A j \in Job : js[j].of # p.exec
    /\ p.pc \in Judging /\ p.seen.job # 0 => rs[p.seen.job] \in Finished

\* A driver that never shared its execution knows its row, and goes on only
\* with one that is not over.
UpToDate(p, row) ==
    /\ p.seen = row
    /\ p.pc \in Completing \cup Judging => p.seen.status \in Active

\* What the rows say of their jobs.
GoodRow(e) ==
    /\ execs[e].status \in {"absent", "queued"}
           => execs[e].job = 0 /\ \A j \in Job : jobs[j].of # e
    /\ \A j, k \in Job : jobs[j].of = e /\ jobs[k].of = e => j = k
    /\ execs[e].job # 0 /\ runs[execs[e].job] = "running"
           => execs[e].status \in Active
    /\ execs[e].status = "completed"
           => execs[e].job # 0 /\ runs[execs[e].job] \in Finished

\* Drivers that share an execution share its job, or find it decided.
Settled(e) == e \in shared => execs[e].job # 0 \/ execs[e].status \in Verdict

KnownBy(d, e) ==
    /\ Aware(driver[d], execs[e])
    /\ InTouch(driver[d], jobs, runs)
    /\ e \notin shared => UpToDate(driver[d], execs[e])

Orderly(e) ==
    /\ GoodRow(e)
    /\ Settled(e)
    /\ \A d \in Driver : Holds(d, e) => KnownBy(d, e)

HInv ==
    /\ JobsGood
    /\ \A d \in Driver : driver[d].pc \in Asked => Unrecorded(d)
    /\ Recalled
    /\ \A e \in Exec \ raced : Orderly(e)

-----------------------------------------------------------------------------
(* Lemmas about one step.                                                  *)

\* The values the model starts from are typed.
LEMMA Constants ==
    /\ NoRow \in Row
    /\ Rest \in Proc
    /\ \A e \in Exec : e \in 0 .. MaxExecs /\ e # 0
    /\ \A j \in Job : j \in 0 .. MaxJobs /\ j # 0
    /\ Driving \subseteq PC
<1>1. NoRow \in Row
  BY ExecutorAssumption DEF NoRow, Row, Status
<1>2. Rest \in Proc
  BY <1>1, ExecutorAssumption DEF Rest, Proc, PC, Kind
<1>3. /\ \A e \in Exec : e \in 0 .. MaxExecs /\ e # 0
      /\ \A j \in Job : j \in 0 .. MaxJobs /\ j # 0
  BY ExecutorAssumption DEF Exec, Job
<1>4. QED
  BY <1>1, <1>2, <1>3 DEF Driving

\* A drive that ends leaves a driver with nothing in its hands.
LEMMA Returned ==
    ASSUME NEW p \in Proc, NEW rows, GoodProc(p, rows)
    PROVE  /\ Rest \in Proc /\ GoodProc(Rest, rows) /\ Rest.exec = 0
           /\ Return(p) \in Proc /\ GoodProc(Return(p), rows) /\ Return(p).exec = 0
<1>1. Rest \in Proc /\ GoodProc(Rest, rows) /\ Rest.exec = 0
  BY Constants DEF Rest, GoodProc, Driving
<1>2. CASE p.kind = "daily_resume"
  <2>1. Return(p) = [pc |-> "looking", kind |-> "daily", day |-> p.day, exec |-> 0,
                     seen |-> NoRow, job |-> 0, verdict |-> "none"]
    BY <1>2 DEF Return, Rest
  <2>2. p.day \in 0 .. MaxDays /\ p.day # 0
    BY <1>2 DEF Proc, GoodProc
  <2>3. QED
    BY <1>1, <2>1, <2>2, Constants, ExecutorAssumption
       DEF Proc, GoodProc, Driving, PC, Kind
<1>3. CASE p.kind # "daily_resume"
  BY <1>1, <1>3 DEF Return
<1>4. QED
  BY <1>1, <1>2, <1>3

\* An execution there is can be loaded.
LEMMA LoadedGood ==
    ASSUME NEW p \in Proc, NEW e \in Exec, GoodProc(p, execs),
           execs[e] \in Row, execs[e].status # "absent"
    PROVE  /\ Loaded(p, e) \in Proc /\ GoodProc(Loaded(p, e), execs)
           /\ Loaded(p, e).pc = "stepping" /\ Loaded(p, e).exec = e
           /\ Loaded(p, e).seen = execs[e]
<1>1. e \in 0 .. MaxExecs /\ e # 0
  BY Constants
<1>2. QED
  BY <1>1 DEF Loaded, Proc, GoodProc, Driving, PC

\* One driver moves; no row is written.
LEMMA DriverMoves ==
    ASSUME IInv, NEW d \in Driver, NEW new \in Proc, GoodProc(new, execs),
           driver' = [driver EXCEPT ![d] = new], UNCHANGED execs,
           jobs' \in [Job -> JobRow], runs' \in [Job -> RunStatus],
           faults' \in 0 .. MaxFaults
    PROVE  IInv'
<1>1. TypeOK'
  BY DEF IInv, TypeOK
<1>2. OneActiveExecution' /\ Untouched'
  BY DEF IInv, OneActiveExecution, ActiveExecs, Untouched
<1>3. \A c \in Driver : GoodProc(driver[c], execs)'
  BY DEF IInv, TypeOK, GoodProc
<1>4. QED
  BY <1>1, <1>2, <1>3 DEF IInv

\* A driver goes on to another pc with what it has.
LEMMA GotoKeeps ==
    ASSUME IInv, NEW d \in Driver, NEW pc \in PC \ {"closing"},
           pc \in Driving <=> driver[d].pc \in Driving,
           Goto(d, pc), UNCHANGED execs,
           jobs' \in [Job -> JobRow], runs' \in [Job -> RunStatus],
           faults' \in 0 .. MaxFaults
    PROVE  IInv'
<1> DEFINE new == [driver[d] EXCEPT !.pc = pc]
<1>1. driver[d] \in Proc /\ GoodProc(driver[d], execs)
  BY DEF IInv, TypeOK
<1>2. driver' = [driver EXCEPT ![d] = new]
  BY DEF Goto, IInv, TypeOK
<1>3. new \in Proc /\ GoodProc(new, execs)
  BY <1>1 DEF Proc, GoodProc
<1> HIDE DEF new
<1>4. QED
  BY <1>2, <1>3, DriverMoves

\* A driver's drive ends.
LEMMA EndKeeps ==
    ASSUME IInv, NEW d \in Driver,
           \/ driver' = [driver EXCEPT ![d] = Rest]
           \/ driver' = [driver EXCEPT ![d] = Return(driver[d])],
           UNCHANGED execs,
           jobs' \in [Job -> JobRow], runs' \in [Job -> RunStatus],
           faults' \in 0 .. MaxFaults
    PROVE  IInv'
<1>1. driver[d] \in Proc /\ GoodProc(driver[d], execs)
  BY DEF IInv, TypeOK
<1>2. QED
  BY <1>1, Returned, DriverMoves

\* A commit of a driver's row, refused or not: the unique index keeps one
\* active execution whatever the driver had seen.
LEMMA AdvanceKeeps ==
    ASSUME IInv, NEW d \in Driver, NEW new \in Row, new.status # "absent",
           NEW pc \in Driving \ {"closing"}, driver[d].pc \in Driving,
           Advance(d, new, pc),
           jobs' \in [Job -> JobRow], runs' \in [Job -> RunStatus],
           faults' \in 0 .. MaxFaults
    PROVE  IInv'
<1> DEFINE p == driver[d]
           row == Merge(execs[p.exec], p.seen, new)
           went == [p EXCEPT !.seen = row, !.pc = pc, !.job = 0, !.verdict = "none"]
<1>1. p \in Proc /\ GoodProc(p, execs) /\ p.exec \in Exec /\ p.seen \in Row
  BY DEF IInv, TypeOK, GoodProc, Proc, Exec
<1>2. execs[p.exec] \in Row /\ execs[p.exec].status # "absent"
  BY <1>1, Constants DEF IInv, TypeOK, GoodProc
<1>3. CASE Refused(p.exec, row)
  <2>1. UNCHANGED execs /\ driver' = [driver EXCEPT ![d] =
              IF p.pc \in Completing THEN Return(p) ELSE Rest]
    BY <1>3 DEF Advance
  <2>2. QED
    BY <2>1, EndKeeps
<1>4. CASE ~Refused(p.exec, row)
  <2>1. /\ execs' = [execs EXCEPT ![p.exec] = row]
        /\ driver' = [driver EXCEPT ![d] = went]
    BY <1>4 DEF Advance
  <2>2. row \in Row /\ row.status # "absent"
    BY <1>1, <1>2 DEF Merge, Column, Row
  <2>3. row.status \in Active => ActiveExecs \subseteq {p.exec}
    BY <1>4 DEF Refused, Indexed
  <2>4. pc \in Driving /\ pc \in PC /\ pc # "closing"
    BY Constants
  <2>5. /\ went \in Proc
        /\ went.pc = pc /\ went.exec = p.exec /\ went.kind = p.kind /\ went.day = p.day
    <3>1. row \in Row /\ p \in Proc /\ 0 \in 0 .. MaxJobs
      BY <1>1, <2>2, ExecutorAssumption
    <3> HIDE DEF row, p
    <3>2. [p EXCEPT !.seen = row] \in Proc
      BY <3>1 DEF Proc
    <3>3. [p EXCEPT !.seen = row, !.pc = pc] \in Proc
      BY <2>4, <3>2 DEF Proc
    <3>4. [p EXCEPT !.seen = row, !.pc = pc, !.job = 0] \in Proc
      BY <3>1, <3>3 DEF Proc
    <3>5. went \in Proc
      BY <3>4 DEF Proc
    <3>6. QED
      BY <3>1, <3>5 DEF Proc
  <2> HIDE DEF row, went, p
  <2>6. TypeOK'
    BY <1>1, <2>1, <2>2, <2>5 DEF IInv, TypeOK
  <2>7. OneActiveExecution' /\ Untouched'
    BY <1>1, <2>1, <2>2, <2>3
       DEF IInv, TypeOK, OneActiveExecution, ActiveExecs, Untouched
  <2>8. ASSUME NEW c \in Driver
        PROVE  GoodProc(driver[c], execs)'
    <3>1. \A e \in Exec : execs[e].status # "absent" => execs'[e].status # "absent"
      BY <2>1, <2>2 DEF IInv, TypeOK
    <3>2. driver[c] \in Proc /\ GoodProc(driver[c], execs)
      BY DEF IInv, TypeOK
    <3>3. CASE c = d
      <4>1. driver'[c] = went
        BY <2>1, <3>3 DEF IInv, TypeOK
      <4>2. execs'[p.exec].status # "absent"
        BY <1>1, <1>2, <3>1
      <4>3. QED
        BY <1>1, <2>4, <2>5, <4>1, <4>2, Constants DEF GoodProc
    <3>4. CASE c # d
      <4>1. driver'[c] = driver[c]
        BY <2>1, <3>4 DEF IInv, TypeOK
      <4>2. driver[c].exec # 0 => driver[c].exec \in Exec
        BY <3>2 DEF Proc, Exec
      <4>3. QED
        BY <3>1, <3>2, <4>1, <4>2 DEF GoodProc
    <3>5. QED
      BY <3>3, <3>4
  <2>9. QED
    BY <2>6, <2>7, <2>8 DEF IInv
<1>5. QED
  BY <1>3, <1>4

\* The same, for a change of the status alone.
LEMMA AdvanceToKeeps ==
    ASSUME IInv, NEW d \in Driver, NEW status \in Status \ {"absent"},
           NEW pc \in Driving \ {"closing"}, driver[d].pc \in Driving,
           AdvanceTo(d, status, pc),
           jobs' \in [Job -> JobRow], runs' \in [Job -> RunStatus],
           faults' \in 0 .. MaxFaults
    PROVE  IInv'
<1> DEFINE new == [driver[d].seen EXCEPT !.status = status]
<1>1. new \in Row /\ new.status # "absent"
  BY DEF IInv, TypeOK, Proc, Row
<1>2. Advance(d, new, pc)
  BY DEF AdvanceTo
<1> HIDE DEF new
<1>3. QED
  BY <1>1, <1>2, AdvanceKeeps

-----------------------------------------------------------------------------
(* Every step keeps the invariant.                                         *)

\* Typed variables a step leaves alone stay typed.
LEMMA StaysTyped ==
    ASSUME IInv
    PROVE  /\ UNCHANGED jobs => jobs' \in [Job -> JobRow]
           /\ UNCHANGED runs => runs' \in [Job -> RunStatus]
           /\ UNCHANGED faults => faults' \in 0 .. MaxFaults
BY DEF IInv, TypeOK

\* A process is started.
LEMMA InvocationsKeep ==
    ASSUME IInv, NEW d \in Driver, PostRun(d) \/ DailyPipeline(d) \/ DailyRefresh(d)
    PROVE  IInv'
<1>1. UNCHANGED <<execs, jobs, runs, faults>>
  BY DEF PostRun, DailyPipeline, DailyRefresh
<1>2. CASE PostRun(d)
  <2> DEFINE new == [Rest EXCEPT !.pc = "looking", !.kind = "once"]
  <2>1. new \in Proc /\ GoodProc(new, execs)
    BY Constants DEF Rest, Proc, GoodProc, Driving, PC, Kind
  <2>2. driver' = [driver EXCEPT ![d] = new]
    BY <1>2 DEF PostRun
  <2> HIDE DEF new
  <2>3. QED
    BY <1>1, <2>1, <2>2, StaysTyped, DriverMoves
<1>3. CASE DailyPipeline(d)
  <2> DEFINE new == [Rest EXCEPT !.pc = "selecting", !.kind = "once"]
  <2>1. new \in Proc /\ GoodProc(new, execs)
    BY Constants DEF Rest, Proc, GoodProc, Driving, PC, Kind
  <2>2. driver' = [driver EXCEPT ![d] = new]
    BY <1>3 DEF DailyPipeline
  <2> HIDE DEF new
  <2>3. QED
    BY <1>1, <2>1, <2>2, StaysTyped, DriverMoves
<1>4. CASE DailyRefresh(d)
  <2>1. PICK day \in Day : driver' = [driver EXCEPT ![d] =
            [Rest EXCEPT !.pc = "selecting", !.kind = "daily_resume", !.day = day]]
    BY <1>4 DEF DailyRefresh
  <2> DEFINE new == [Rest EXCEPT !.pc = "selecting", !.kind = "daily_resume",
                                 !.day = day]
  <2>2. day \in 0 .. MaxDays /\ day # 0
    BY ExecutorAssumption DEF Day
  <2>3. new \in Proc /\ GoodProc(new, execs)
    BY <2>2, Constants DEF Rest, Proc, GoodProc, Driving, PC, Kind
  <2>4. driver' = [driver EXCEPT ![d] = new]
    BY <2>1
  <2> HIDE DEF new
  <2>5. QED
    BY <1>1, <2>3, <2>4, StaysTyped, DriverMoves
<1>5. QED
  BY <1>2, <1>3, <1>4

\* An execution that is found is joined.
LEMMA JoinKeeps ==
    ASSUME IInv, NEW d \in Driver, NEW e \in Exec, execs[e].status # "absent",
           Join(d, e), UNCHANGED <<execs, jobs, runs, faults>>
    PROVE  IInv'
<1>1. driver[d] \in Proc /\ GoodProc(driver[d], execs) /\ execs[e] \in Row
  BY DEF IInv, TypeOK
<1>2. CASE driver' = [driver EXCEPT ![d] = Loaded(@, e)]
  <2>1. Loaded(driver[d], e) \in Proc /\ GoodProc(Loaded(driver[d], e), execs)
    BY <1>1, LoadedGood
  <2>2. driver' = [driver EXCEPT ![d] = Loaded(driver[d], e)]
    BY <1>2 DEF IInv, TypeOK
  <2>3. QED
    BY <2>1, <2>2, StaysTyped, DriverMoves
<1>3. CASE driver' = [driver EXCEPT ![d] = Rest]
  BY <1>3, StaysTyped, EndKeeps
<1>4. QED
  BY <1>2, <1>3 DEF Join

\* What a lookup finds is there.
LEMMA ClaimedExist ==
    ASSUME IInv, NEW key, NEW e \in Claimed(key)
    PROVE  e \in Exec /\ execs[e].status # "absent"
<1>1. e \in ActiveExecs \/ (e \in Exec /\ key # 0 /\ execs[e].key = key)
  BY DEF Claimed
<1>2. NoRow.key = 0 /\ "absent" \notin Active
  BY DEF NoRow, Active
<1>3. QED
  BY <1>1, <1>2 DEF ActiveExecs, IInv, Untouched

\* The claim of an execution, but for the INSERT that wins.
LEMMA ClaimsKeep ==
    ASSUME IInv, NEW d \in Driver,
           Select(d) \/ LookUp(d) \/ LookAgain(d) \/ Execute(d)
    PROVE  IInv'
<1>1. driver[d] \in Proc /\ GoodProc(driver[d], execs) /\ execs \in [Exec -> Row]
  BY DEF IInv, TypeOK
<1>2. UNCHANGED <<execs, jobs, runs, faults>>
  BY DEF Select, LookUp, LookAgain, Execute
<1>3. ASSUME NEW e \in Exec, execs[e].status # "absent",
             driver' = [driver EXCEPT ![d] = Loaded(driver[d], e)]
      PROVE  IInv'
  <2>1. Loaded(driver[d], e) \in Proc /\ GoodProc(Loaded(driver[d], e), execs)
    BY <1>1, <1>3, LoadedGood
  <2>2. QED
    BY <1>2, <1>3, <2>1, StaysTyped, DriverMoves
<1>4. CASE Select(d)
  <2>1. CASE driver' = [driver EXCEPT ![d] = Return(@)]
    <3>1. driver' = [driver EXCEPT ![d] = Return(driver[d])]
      BY <2>1 DEF IInv, TypeOK
    <3>2. QED
      BY <1>2, <1>4, <3>1, StaysTyped, EndKeeps DEF Select
  <2>2. ASSUME NEW e \in ActiveExecs, driver' = [driver EXCEPT ![d] = Loaded(@, e)]
        PROVE  IInv'
    <3>1. e \in Exec /\ execs[e].status # "absent"
      BY DEF ActiveExecs, Active
    <3>2. driver' = [driver EXCEPT ![d] = Loaded(driver[d], e)]
      BY <2>2 DEF IInv, TypeOK
    <3>3. QED
      BY <1>3, <1>4, <3>1, <3>2 DEF Select
  <2>3. QED
    BY <1>4, <2>1, <2>2 DEF Select
<1>5. CASE LookUp(d)
  <2>1. ASSUME NEW e \in Claimed(driver[d].day), Join(d, e)
        PROVE  IInv'
    BY <1>2, <2>1, ClaimedExist, JoinKeeps
  <2>2. CASE Goto(d, "claiming")
    <3>1. /\ "claiming" \in PC \ {"closing"}
          /\ "claiming" \in Driving <=> driver[d].pc \in Driving
      BY <1>5 DEF PC, Driving, LookUp
    <3>2. QED
      BY <1>2, <2>2, <3>1, StaysTyped, GotoKeeps
  <2>3. QED
    BY <1>5, <2>1, <2>2 DEF LookUp
<1>6. CASE LookAgain(d)
  <2>1. ASSUME NEW e \in Claimed(driver[d].day), Join(d, e)
        PROVE  IInv'
    BY <1>2, <2>1, ClaimedExist, JoinKeeps
  <2>2. CASE driver' = [driver EXCEPT ![d] = Rest]
    BY <1>2, <2>2, StaysTyped, EndKeeps
  <2>3. QED
    BY <1>6, <2>1, <2>2 DEF LookAgain
<1>7. CASE Execute(d)
  <2>1. driver[d].exec \in Exec /\ execs[driver[d].exec].status # "absent"
    BY <1>1, <1>7 DEF Execute, GoodProc, Driving, PC, Proc, Exec
  <2>2. driver' = [driver EXCEPT ![d] = Loaded(driver[d], driver[d].exec)]
    BY <1>7 DEF Execute, IInv, TypeOK
  <2>3. QED
    BY <1>3, <1>7, <2>1, <2>2 DEF Execute
<1>8. QED
  BY <1>4, <1>5, <1>6, <1>7

\* The INSERT: the two unique indexes admit it, or it changes nothing.
LEMMA InsertKeeps ==
    ASSUME IInv, NEW d \in Driver, Insert(d)
    PROVE  IInv'
<1> DEFINE p == driver[d]
           row == [NoRow EXCEPT !.status = "queued", !.key = p.day]
<1>1. p \in Proc /\ GoodProc(p, execs) /\ p.pc = "claiming"
  BY DEF IInv, TypeOK, Insert
<1>2. UNCHANGED <<jobs, runs, faults>>
  BY DEF Insert
<1>3. CASE Goto(d, "relooking") /\ UNCHANGED execs
  <2>1. /\ "relooking" \in PC \ {"closing"}
        /\ "relooking" \in Driving <=> driver[d].pc \in Driving
    BY <1>1 DEF PC, Driving
  <2>2. QED
    BY <1>2, <1>3, <2>1, StaysTyped, GotoKeeps
<1>4. CASE driver' = [driver EXCEPT ![d] = Rest] /\ UNCHANGED execs
  BY <1>2, <1>4, StaysTyped, EndKeeps
<1>5. ASSUME NEW e \in Exec, Indexed = {}, execs[e].status = "absent",
             NEW pc \in {"scheduled", "stepping"},
             execs' = [execs EXCEPT ![e] = row],
             driver' = [driver EXCEPT ![d] =
                            [p EXCEPT !.exec = e, !.seen = row, !.pc = pc]]
      PROVE  IInv'
  <2> DEFINE new == [p EXCEPT !.exec = e, !.seen = row, !.pc = pc]
  <2>1. /\ row = [status |-> "queued", key |-> p.day, job |-> 0]
        /\ row \in Row /\ row.status = "queued"
    <3>1. row = [status |-> "queued", key |-> p.day, job |-> 0]
      <4>1. [NoRow EXCEPT !.status = "queued"]
                = [status |-> "queued", key |-> 0, job |-> 0]
        BY DEF NoRow
      <4> HIDE DEF p
      <4>2. [[status |-> "queued", key |-> 0, job |-> 0] EXCEPT !.key = p.day]
                = [status |-> "queued", key |-> p.day, job |-> 0]
        OBVIOUS
      <4>3. QED
        BY <4>1, <4>2
    <3>2. "queued" \in Status /\ 0 \in 0 .. MaxJobs /\ p.day \in 0 .. MaxDays
      BY <1>1, ExecutorAssumption DEF Status, Active, Proc
    <3> HIDE DEF row, p
    <3>3. QED
      BY <3>1, <3>2 DEF Row
  <2>2. e \in 0 .. MaxExecs /\ e # 0 /\ pc \in PC /\ pc \in Driving /\ pc # "closing"
    BY Constants DEF PC, Driving
  <2>3. /\ new \in Proc
        /\ new.pc = pc /\ new.exec = e /\ new.kind = p.kind /\ new.day = p.day
    <3> HIDE DEF row, p
    <3>1. [p EXCEPT !.exec = e] \in Proc
      BY <1>1, <2>2 DEF Proc
    <3>2. [p EXCEPT !.exec = e, !.seen = row] \in Proc
      BY <2>1, <3>1 DEF Proc
    <3>3. new \in Proc
      BY <2>2, <3>2 DEF Proc
    <3>4. QED
      BY <1>1, <3>3 DEF Proc
  <2>4. driver' = [driver EXCEPT ![d] = new]
    BY <1>5
  <2> HIDE DEF row, new, p
  <2>5. TypeOK'
    BY <1>2, <1>5, <2>1, <2>3, <2>4 DEF IInv, TypeOK
  <2>6. OneActiveExecution' /\ Untouched'
    BY <1>5, <2>1 DEF IInv, TypeOK, OneActiveExecution, ActiveExecs, Untouched, Indexed
  <2>7. ASSUME NEW c \in Driver
        PROVE  GoodProc(driver[c], execs)'
    <3>1. driver[c] \in Proc /\ GoodProc(driver[c], execs)
      BY DEF IInv, TypeOK
    <3>2. CASE c = d
      <4>1. driver'[c] = new
        BY <2>4, <3>2 DEF IInv, TypeOK
      <4>2. execs'[e].status = "queued"
        BY <1>5, <2>1 DEF IInv, TypeOK
      <4>3. QED
        BY <1>1, <2>2, <2>3, <4>1, <4>2 DEF GoodProc
    <3>3. CASE c # d
      <4>1. driver'[c] = driver[c]
        BY <2>4, <3>3 DEF IInv, TypeOK
      <4>2. driver[c].exec # 0 => driver[c].exec \in Exec
        BY <3>1 DEF Proc, Exec
      <4>3. QED
        BY <1>5, <2>1, <3>1, <4>1, <4>2 DEF GoodProc, IInv, TypeOK
    <3>4. QED
      BY <3>2, <3>3
  <2>8. QED
    BY <2>5, <2>6, <2>7 DEF IInv
<1>6. QED
  BY <1>3, <1>4, <1>5 DEF Insert

\* Steps that commit the execution's status, whatever else they do.
LEMMA CommitsKeep ==
    ASSUME IInv, NEW d \in Driver,
           \/ BeginCollection(d) \/ Interrupted(d) \/ StillRunning(d) \/ Finish(d)
           \/ Close(d) \/ Fetch(d) \/ Validate(d) \/ Ingest(d)
    PROVE  IInv'
<1>1. /\ UNCHANGED <<jobs, faults>>
      /\ driver[d] \in Proc /\ GoodProc(driver[d], execs)
      /\ runs \in [Job -> RunStatus]
  BY DEF IInv, TypeOK, BeginCollection, Interrupted, StillRunning, Finish, Close,
     Fetch, Validate, Ingest, Stage
<1>2. runs' \in [Job -> RunStatus]
  <2>1. UNCHANGED runs \/ runs' = [runs EXCEPT ![driver[d].seen.job] = "failed"]
    BY DEF BeginCollection, Interrupted, StillRunning, Finish, Close,
       Fetch, Validate, Ingest, Stage
  <2>2. QED
    BY <1>1, <2>1 DEF RunStatus
<1>3. driver[d].pc \in Driving
  BY DEF Driving, PC, BeginCollection, Interrupted, StillRunning, Polling, PastTrigger,
     Finish, Close, Fetch, Validate, Ingest, Stage
<1>4. \E status \in Status \ {"absent"}, pc \in Driving \ {"closing"} :
          AdvanceTo(d, status, pc)
  <2>1. /\ {"collecting", "waiting_provider", "validating", "ingesting",
            "verifying", "failed"} \subseteq Status \ {"absent"}
        /\ Verdict \subseteq Status \ {"absent"}
        /\ {"triggering", "deciding", "validating", "ingesting", "finalising",
            "verifying"} \subseteq Driving \ {"closing"}
    BY DEF Status, Active, Verdict, Driving, PC
  <2>2. Close(d) => driver[d].verdict \in Verdict
    BY <1>1 DEF Close, GoodProc
  <2>3. QED
    BY <2>1, <2>2 DEF BeginCollection, Interrupted, StillRunning, Finish, Close,
       Fetch, Validate, Ingest, Stage
<1>5. QED
  BY <1>1, <1>2, <1>3, <1>4, StaysTyped, AdvanceToKeeps

\* What a trigger leaves at the provider is typed.
LEMMA NewJobTyped ==
    ASSUME IInv, NEW e \in 0 .. MaxExecs, NEW j \in Job, NewJob(e, j)
    PROVE  jobs' \in [Job -> JobRow]
BY DEF IInv, TypeOK, NewJob, JobRow

\* Steps that move a driver on without touching its row.
LEMMA GotosKeep ==
    ASSUME IInv, NEW d \in Driver,
           \/ TriggerFails(d) \/ OpenRun(d) \/ Collected(d) \/ CollectionFails(d)
           \/ Finalise(d) \/ Rejudge(d)
    PROVE  IInv'
<1>1. /\ UNCHANGED <<execs, faults>>
      /\ driver[d] \in Proc
      /\ runs \in [Job -> RunStatus] /\ jobs \in [Job -> JobRow]
  BY DEF IInv, TypeOK, TriggerFails, OpenRun, Collected, CollectionFails, Finalise,
     Rejudge
<1>2. driver[d].pc \in Driving
  BY DEF Driving, PC, TriggerFails, OpenRun, Collected, CollectionFails, Finalise,
     Rejudge, Polling, PastTrigger
<1>3. runs' \in [Job -> RunStatus]
  <2>1. \/ UNCHANGED runs
        \/ runs' = [runs EXCEPT ![driver[d].job] = "running"]
        \/ runs' = [runs EXCEPT ![driver[d].seen.job] = "failed"]
        \/ runs' = [runs EXCEPT ![driver[d].seen.job] = "succeeded"]
    BY DEF TriggerFails, OpenRun, Collected, CollectionFails, Finalise, Rejudge
  <2>2. QED
    BY <1>1, <2>1 DEF RunStatus
<1>4. jobs' \in [Job -> JobRow]
  <2>1. UNCHANGED jobs \/ \E j \in Job : NewJob(driver[d].exec, j)
    BY DEF TriggerFails, OpenRun, Collected, CollectionFails, Finalise, Rejudge
  <2>2. driver[d].exec \in 0 .. MaxExecs
    BY <1>1 DEF Proc
  <2>3. QED
    BY <1>1, <2>1, <2>2, NewJobTyped
<1>5. \E pc \in Driving \ {"closing"} : Goto(d, pc)
  <2>1. {"finishing", "recording", "fetching"} \subseteq Driving \ {"closing"}
    BY DEF Driving, PC
  <2>2. QED
    BY <2>1 DEF TriggerFails, OpenRun, Collected, CollectionFails, Finalise, Rejudge
<1>6. QED
  BY <1>1, <1>2, <1>3, <1>4, <1>5, StaysTyped, GotoKeeps, Constants

\* The steps that set more of the driver.
LEMMA TriggerKeeps ==
    ASSUME IInv, NEW d \in Driver, Trigger(d)
    PROVE  IInv'
<1>1. PICK j \in Job : /\ NewJob(driver[d].exec, j)
                       /\ driver' = [driver EXCEPT ![d].pc = "opening", ![d].job = j]
  BY DEF Trigger
<1> DEFINE new == [driver[d] EXCEPT !.pc = "opening", !.job = j]
<1>2. driver[d] \in Proc /\ GoodProc(driver[d], execs) /\ driver[d].pc = "triggering"
  BY DEF IInv, TypeOK, Trigger
<1>3. driver' = [driver EXCEPT ![d] = new]
  BY <1>1 DEF IInv, TypeOK
<1>4. new \in Proc /\ GoodProc(new, execs)
  BY <1>2, Constants DEF Proc, GoodProc, PC, Driving
<1>5. jobs' \in [Job -> JobRow]
  BY <1>1, <1>2, NewJobTyped DEF Proc
<1> HIDE DEF new
<1>6. QED
  BY <1>3, <1>4, <1>5, StaysTyped, DriverMoves DEF Trigger

\* The commit of the provider refs (the end of _run_collection).
LEMMA RecordKeeps ==
    ASSUME IInv, NEW d \in Driver, Record(d)
    PROVE  IInv'
<1> DEFINE new == [driver[d].seen EXCEPT !.status = "waiting_provider",
                                         !.job = driver[d].job]
<1>1. new \in Row /\ new.status # "absent"
  BY DEF IInv, TypeOK, Proc, Row, Status, Active
<1>2. "deciding" \in Driving \ {"closing"} /\ driver[d].pc \in Driving
  BY DEF Driving, PC, Record
<1>3. Advance(d, new, "deciding") /\ UNCHANGED <<jobs, runs, faults>>
  BY DEF Record
<1> HIDE DEF new
<1>4. QED
  BY <1>1, <1>2, <1>3, StaysTyped, AdvanceKeeps

\* RecallGuard's verdict touches the driver alone.
LEMMA EvaluateKeeps ==
    ASSUME IInv, NEW d \in Driver, Evaluate(d)
    PROVE  IInv'
<1>1. PICK v \in Verdict :
          driver' = [driver EXCEPT ![d].pc = "closing", ![d].verdict = v]
  BY DEF Evaluate
<1> DEFINE new == [driver[d] EXCEPT !.pc = "closing", !.verdict = v]
<1>2. driver[d] \in Proc /\ GoodProc(driver[d], execs) /\ driver[d].pc = "verifying"
  BY DEF IInv, TypeOK, Evaluate
<1>3. driver' = [driver EXCEPT ![d] = new]
  BY <1>1 DEF IInv, TypeOK
<1>4. new \in Proc /\ GoodProc(new, execs)
  BY <1>2 DEF Proc, GoodProc, PC, Driving
<1> HIDE DEF new
<1>5. QED
  BY <1>3, <1>4, StaysTyped, DriverMoves DEF Evaluate

\* A drive is over, or its driver sleeps and steps again.
LEMMA DecisionsKeep ==
    ASSUME IInv, NEW d \in Driver, AlreadyDecided(d) \/ Decide(d)
    PROVE  IInv'
<1>1. driver[d] \in Proc /\ GoodProc(driver[d], execs)
  BY DEF IInv, TypeOK
<1>2. UNCHANGED <<execs, jobs, runs, faults>>
  BY DEF AlreadyDecided, Decide
<1>3. CASE driver' = [driver EXCEPT ![d] = Return(@)]
  <2>1. driver' = [driver EXCEPT ![d] = Return(driver[d])]
    BY <1>3 DEF IInv, TypeOK
  <2>2. QED
    BY <1>2, <2>1, StaysTyped, EndKeeps
<1>4. CASE Decide(d) /\ Goto(d, "stepping")
  <2>1. "stepping" \in PC \ {"closing"} /\ "stepping" \in Driving /\ driver[d].pc \in Driving
    BY <1>4 DEF PC, Driving, Decide
  <2>2. QED
    BY <1>2, <1>4, <2>1, StaysTyped, GotoKeeps
<1>5. QED
  BY <1>3, <1>4 DEF AlreadyDecided, Decide

\* The provider, and faults.
LEMMA EnvironmentKeeps ==
    ASSUME IInv, Complete \/ \E d \in Driver : Fault(d)
    PROVE  IInv'
<1>1. CASE Complete
  <2>1. UNCHANGED <<execs, runs, driver, faults>>
    BY <1>1 DEF Complete
  <2>2. PICK j \in Job : jobs' = [jobs EXCEPT ![j].st = "done"]
    BY <1>1 DEF Complete
  <2>3. jobs' \in [Job -> JobRow]
    BY <2>2 DEF IInv, TypeOK, JobRow
  <2>4. QED
    BY <2>1, <2>3 DEF IInv, TypeOK, OneActiveExecution, ActiveExecs, Untouched, GoodProc
<1>2. ASSUME NEW d \in Driver, Fault(d)
      PROVE  IInv'
  <2>1. UNCHANGED <<execs, jobs>> /\ faults' \in 0 .. MaxFaults
    BY <1>2, ExecutorAssumption DEF Fault, IInv, TypeOK
  <2>2. runs' \in [Job -> RunStatus]
    <3>1. UNCHANGED runs \/ runs' = [runs EXCEPT ![driver[d].seen.job] = "failed"]
      BY <1>2 DEF Fault
    <3>2. QED
      BY <3>1 DEF IInv, TypeOK, RunStatus
  <2>3. \/ driver' = [driver EXCEPT ![d] = Rest]
        \/ driver' = [driver EXCEPT ![d] = Return(driver[d])]
    BY <1>2 DEF Fault, IInv, TypeOK
  <2>4. QED
    BY <2>1, <2>2, <2>3, StaysTyped, EndKeeps
<1>3. QED
  BY <1>1, <1>2

-----------------------------------------------------------------------------
(* What holds however the drivers interleave.                              *)

\* Before anything ran, the invariant holds.
LEMMA Initially == Init => IInv
<1> SUFFICES ASSUME Init PROVE IInv
  OBVIOUS
<1>1. NoRow.status = "absent" /\ NoRow.status \notin Active
  BY DEF NoRow, Active
<1>2. Rest.pc = "idle" /\ Rest.exec = 0 /\ Rest.kind = "none"
  BY DEF Rest
<1>3. TypeOK
  <2>1. execs \in [Exec -> Row] /\ driver \in [Driver -> Proc]
    BY Constants DEF Init
  <2>2. jobs \in [Job -> JobRow] /\ runs \in [Job -> RunStatus]
    BY ExecutorAssumption DEF Init, JobRow, RunStatus
  <2>3. faults \in 0 .. MaxFaults
    BY ExecutorAssumption DEF Init
  <2>4. QED
    BY <2>1, <2>2, <2>3 DEF TypeOK
<1>4. OneActiveExecution /\ Untouched
  BY <1>1 DEF Init, OneActiveExecution, ActiveExecs, Untouched
<1>5. \A d \in Driver : GoodProc(driver[d], execs)
  BY <1>2 DEF Init, GoodProc, Driving
<1>6. QED
  BY <1>3, <1>4, <1>5 DEF IInv

\* Every step keeps the invariant, whoever else is driving.
LEMMA StepKeeps == IInv /\ [Next]_vars => IInv'
<1> SUFFICES ASSUME IInv, [Next]_vars PROVE IInv'
  OBVIOUS
<1>1. ASSUME NEW d \in Driver, PostRun(d) \/ DailyPipeline(d) \/ DailyRefresh(d)
      PROVE  IInv'
  BY <1>1, InvocationsKeep
<1>2. ASSUME NEW d \in Driver, Step(d)
      PROVE  IInv'
  BY <1>2, ClaimsKeep, InsertKeeps, CommitsKeep, GotosKeep, TriggerKeeps, RecordKeeps,
     EvaluateKeeps, DecisionsKeep DEF Step
<1>3. CASE Complete \/ \E d \in Driver : Fault(d)
  BY <1>3, EnvironmentKeeps
<1>4. CASE UNCHANGED vars
  BY <1>4 DEF vars, IInv, TypeOK, OneActiveExecution, ActiveExecs, Untouched, GoodProc
<1>5. QED
  BY <1>1, <1>2, <1>3, <1>4 DEF Next

\* Every driver's execution is there, and every row was claimed.
THEOREM InductiveInvariant == Spec => []IInv
<1>1. QED
  BY Initially, StepKeeps, PTL DEF Spec

\* Every variable keeps its type.
THEOREM TypeCorrect == Spec => []TypeOK
<1>1. IInv => TypeOK
  BY DEF IInv
<1>2. QED
  BY <1>1, InductiveInvariant, PTL

\* However many requests, schedules and stale drivers claim and commit at once,
\* a collector has one active execution (start_pipeline_run, _advance_to).
THEOREM ExecutionsAreExclusive == Spec => []OneActiveExecution
<1>1. IInv => OneActiveExecution
  BY DEF IInv
<1>2. QED
  BY <1>1, InductiveInvariant, PTL

-----------------------------------------------------------------------------
(* What a step of one driver keeps of the invariant, execution by execution.*)

\* Jobs that a row or a copy of one refers to.
Known(j) == \/ \E e \in Exec : execs[e].job = j
            \/ \E c \in Driver : driver[c].seen.job = j

\* Their runs only go on: one that is over stays so, none is running again.
RunsGoOn ==
    \A j \in Job : Known(j) => /\ runs[j] \in Finished => runs'[j] \in Finished
                               /\ runs'[j] = "running" => runs[j] = "running"

JobsGoOn ==
    /\ \A j \in Job : jobs[j].of # 0 => jobs'[j].of = jobs[j].of
    /\ \A j \in Job : jobs'[j].st = "absent" => jobs'[j].of = 0

RowsStand == \A e \in Exec : execs[e].status # "absent" => execs'[e].status # "absent"

\* Where the jobs that driver d, being p and then new, refers to come from.
Traced(p, new) ==
    /\ \A e \in Exec :
          \/ execs'[e].job = execs[e].job
          \/ /\ e = p.exec /\ p.pc \in Asked /\ new.pc \notin Asked
             /\ execs'[e].job = p.job
    /\ \/ new.seen.job = 0
       \/ new.seen.job = p.seen.job /\ new.exec = p.exec
       \/ new.exec \in Exec /\ new.seen.job = execs'[new.exec].job
    /\ new.pc \in Asked =>
          /\ UNCHANGED execs
          /\ new.exec = p.exec /\ new.seen = p.seen
          /\ \/ p.pc \in Asked /\ new.job = p.job
             \/ /\ new.job # 0 /\ new.exec # 0
                /\ jobs[new.job].of = 0 /\ jobs'[new.job].of = new.exec

\* What the rows, the drivers and their counters are.
LEMMA Typed ==
    ASSUME IInv
    PROVE  /\ execs \in [Exec -> Row] /\ jobs \in [Job -> JobRow]
           /\ runs \in [Job -> RunStatus] /\ driver \in [Driver -> Proc]
           /\ \A e \in Exec : e # 0 /\ execs[e].job \in 0 .. MaxJobs
           /\ \A d \in Driver : /\ driver[d].exec \in 0 .. MaxExecs
                                /\ driver[d].exec # 0 => driver[d].exec \in Exec
                                /\ driver[d].job \in 0 .. MaxJobs
                                /\ driver[d].seen \in Row
                                /\ driver[d].seen.job \in 0 .. MaxJobs
           /\ \A j \in 0 .. MaxJobs : j # 0 => j \in Job
<1>1. /\ execs \in [Exec -> Row] /\ jobs \in [Job -> JobRow]
      /\ runs \in [Job -> RunStatus] /\ driver \in [Driver -> Proc]
  BY DEF IInv, TypeOK
<1>2. \A e \in Exec : e # 0 /\ execs[e].job \in 0 .. MaxJobs
  BY <1>1, Constants DEF Row
<1>3. ASSUME NEW d \in Driver
      PROVE  /\ driver[d].exec \in 0 .. MaxExecs
             /\ driver[d].exec # 0 => driver[d].exec \in Exec
             /\ driver[d].job \in 0 .. MaxJobs
             /\ driver[d].seen \in Row
             /\ driver[d].seen.job \in 0 .. MaxJobs
  <2>1. driver[d] \in Proc
    BY <1>1
  <2>2. /\ driver[d].exec \in 0 .. MaxExecs /\ driver[d].job \in 0 .. MaxJobs
        /\ driver[d].seen \in Row
    BY <2>1 DEF Proc
  <2>3. driver[d].seen.job \in 0 .. MaxJobs
    BY <2>2 DEF Row
  <2>4. driver[d].exec # 0 => driver[d].exec \in Exec
    BY <2>2, ExecutorAssumption DEF Exec
  <2>5. QED
    BY <2>2, <2>3, <2>4
<1>4. \A j \in 0 .. MaxJobs : j # 0 => j \in Job
  BY ExecutorAssumption DEF Job
<1>5. QED
  BY <1>1, <1>2, <1>3, <1>4

\* No job is lost, mistaken for another execution's, or known too early.
LEMMA JobsKept ==
    ASSUME IInv, HInv, IInv', NEW d \in Driver, NEW new \in Proc,
           driver' = [driver EXCEPT ![d] = new], JobsGoOn, Traced(driver[d], new)
    PROVE  /\ JobsGood'
           /\ \A c \in Driver : driver'[c].pc \in Asked => Unrecorded(c)'
<1> DEFINE p == driver[d]
<1>1. /\ driver'[d] = new
      /\ \A c \in Driver \ {d} : driver'[c] = driver[c]
  BY Typed
<1>2. p.pc \in Asked => Unrecorded(d)
  BY DEF HInv
<1>3. \A e \in Exec : Own(jobs', execs'[e].job, e)
  <2> SUFFICES ASSUME NEW e \in Exec PROVE Own(jobs', execs'[e].job, e)
    OBVIOUS
  <2>1. CASE execs'[e].job = execs[e].job
    BY <2>1, Typed DEF HInv, JobsGood, Own, JobsGoOn
  <2>2. CASE execs'[e].job = p.job /\ e = p.exec /\ p.pc \in Asked
    BY <1>2, <2>2, Typed DEF Unrecorded, Own, JobsGoOn
  <2>3. QED
    BY <2>1, <2>2 DEF Traced
<1>4. \A c \in Driver : Own(jobs', driver'[c].seen.job, driver'[c].exec)
  <2>2. Own(jobs', new.seen.job, new.exec)
    <3>1. CASE new.seen.job = 0
      BY <3>1 DEF Own
    <3>2. CASE new.seen.job = p.seen.job /\ new.exec = p.exec
      BY <3>2, Typed DEF HInv, JobsGood, Own, JobsGoOn
    <3>3. CASE new.exec \in Exec /\ new.seen.job = execs'[new.exec].job
      BY <1>3, <3>3
    <3>4. QED
      BY <3>1, <3>2, <3>3 DEF Traced
  <2>3. ASSUME NEW c \in Driver, c # d
        PROVE  Own(jobs', driver'[c].seen.job, driver'[c].exec)
    BY <1>1, <2>3, Typed DEF HInv, JobsGood, Own, JobsGoOn
  <2>4. QED
    BY <1>1, <2>2, <2>3
<1>5. JobsGood'
  BY <1>3, <1>4 DEF JobsGood, JobsGoOn
\* A job of which nobody knew is none of those the step refers to.
<1>6. ASSUME NEW c \in Driver, c # d, driver[c].pc \in Asked
      PROVE  Unrecorded(c)'
  <2>1. Unrecorded(c) /\ driver'[c] = driver[c] /\ driver[c].job \in Job
    BY <1>1, <1>6, Typed DEF HInv, Unrecorded
  <2>2. Own(jobs', driver[c].job, driver[c].exec)
    BY <2>1, Typed DEF Unrecorded, Own, JobsGoOn
  <2>3. p.pc \in Asked => p.job # driver[c].job
    BY <1>6, <2>1 DEF Unrecorded
  <2>4. \A e \in Exec : execs'[e].job # driver[c].job
    BY <2>1, <2>3 DEF Unrecorded, Traced
  <2>5. new.seen.job # driver[c].job
    BY <2>1, <2>4 DEF Unrecorded, Traced
  <2>6. new.pc \in Asked => new.job # driver[c].job
    <3>1. jobs[driver[c].job].of # 0
      BY <2>1 DEF Unrecorded, Own
    <3>2. QED
      BY <2>3, <3>1 DEF Traced
  <2>7. \A b \in Driver : driver'[b].seen.job # driver'[c].job
    BY <1>1, <2>1, <2>5 DEF Unrecorded
  <2>8. \A b \in Driver \ {c} : driver'[b].pc \in Asked => driver'[b].job # driver'[c].job
    BY <1>1, <2>1, <2>6 DEF Unrecorded
  <2>9. QED
    BY <2>1, <2>2, <2>4, <2>7, <2>8 DEF Unrecorded
<1>7. ASSUME new.pc \in Asked
      PROVE  Unrecorded(d)'
  <2>1. UNCHANGED execs /\ new.exec = p.exec /\ new.seen = p.seen
    BY <1>7 DEF Traced
  <2>2. CASE p.pc \in Asked /\ new.job = p.job
    <3>1. Unrecorded(d) /\ p.job \in Job
      BY <1>2, <2>2, Typed DEF Unrecorded
    <3>2. Own(jobs', new.job, new.exec)
      BY <2>1, <2>2, <3>1 DEF Unrecorded, Own, JobsGoOn
    <3>3. /\ \A e \in Exec : execs'[e].job # new.job
          /\ \A c \in Driver : driver'[c].seen.job # new.job
          /\ \A c \in Driver \ {d} : driver'[c].pc \in Asked => driver'[c].job # new.job
      BY <1>1, <2>1, <2>2, <3>1 DEF Unrecorded
    <3>4. QED
      BY <1>1, <2>2, <3>1, <3>2, <3>3 DEF Unrecorded
  <2>3. CASE /\ new.job # 0 /\ new.exec # 0
             /\ jobs[new.job].of = 0 /\ jobs'[new.job].of = new.exec
    <3>1. Own(jobs', new.job, new.exec)
      BY <2>3 DEF Own
    <3>2. \A e \in Exec : execs'[e].job # new.job
      BY <2>1, <2>3, Typed DEF HInv, JobsGood, Own
    <3>3. \A c \in Driver : driver'[c].seen.job # new.job
      BY <1>1, <2>1, <2>3, Typed DEF HInv, JobsGood, Own
    <3>4. \A c \in Driver \ {d} : driver'[c].pc \in Asked => driver'[c].job # new.job
      BY <1>1, <2>3 DEF HInv, Unrecorded, Own
    <3>5. QED
      BY <1>1, <2>3, <3>1, <3>2, <3>3, <3>4 DEF Unrecorded
  <2>4. QED
    BY <1>7, <2>2, <2>3 DEF Traced
<1>8. QED
  BY <1>1, <1>5, <1>6, <1>7

\* The history variables go on telling what they tell.
LEMMA RecalledKept ==
    ASSUME IInv, HInv, IInv', Remember, RowsStand
    PROVE  Recalled'
<1>1. Raced' \subseteq Shared' /\ Shared' \subseteq Exec
  BY DEF Raced, Shared, Blank, Holds
<1>2. ASSUME NEW e \in Shared'
      PROVE  execs'[e].status # "absent"
  <2>1. PICK v \in Driver : driver'[v].exec = e /\ e # 0
    BY <1>1, Constants DEF Shared, Holds
  <2>2. QED
    BY <2>1 DEF IInv, GoodProc
<1>3. QED
  BY <1>1, <1>2 DEF HInv, Recalled, Remember, RowsStand

\* Drivers that know the same row and have not raced are settled.
LEMMA SharedSettled ==
    ASSUME IInv', Remember, NEW e \in Exec, e \notin raced', e \in Shared',
           \A c \in Driver : Holds(c, e)' => Aware(driver[c], execs[e])'
    PROVE  Settled(e)'
<1> SUFFICES ASSUME execs'[e].job = 0, execs'[e].status \notin Verdict
             PROVE  FALSE
  BY DEF Settled
<1>1. PICK v \in Driver, w \in Driver : v # w /\ Holds(v, e)' /\ Holds(w, e)'
  BY DEF Shared
<1>2. /\ driver'[v].seen = execs'[e] /\ driver'[w].seen = execs'[e]
  BY <1>1 DEF Aware
<1>3. execs'[e].status \in Active
  <2>1. execs'[e].status # "absent" /\ execs'[e] \in Row
    BY <1>1, Constants DEF IInv, TypeOK, GoodProc, Holds
  <2>2. QED
    BY <2>1 DEF Row, Status
<1>4. Blank(v, e)' /\ Blank(w, e)'
  BY <1>1, <1>2, <1>3 DEF Blank
<1>5. QED
  BY <1>1, <1>4 DEF Raced, Remember

\* An execution whose row stays as it is.
LEMMA OrderlyStays ==
    ASSUME IInv, HInv, IInv', Remember, NEW d \in Driver, NEW new \in Proc,
           driver' = [driver EXCEPT ![d] = new], RunsGoOn,
           NEW e \in Exec, e \notin raced', execs'[e] = execs[e],
           \A j \in Job : jobs'[j].of = e => jobs[j].of = e,
           new.exec = e /\ new.pc # "scheduled"
               => /\ Aware(new, execs[e]) /\ InTouch(new, jobs', runs')
                  /\ e \notin shared' => UpToDate(new, execs[e])
    PROVE  Orderly(e)'
<1>1. e \notin raced /\ Orderly(e) /\ (e \notin shared' => e \notin shared)
  BY DEF HInv, Remember
<1>2. /\ driver'[d] = new
      /\ \A c \in Driver \ {d} : driver'[c] = driver[c]
  BY Typed
<1>3. GoodRow(e)'
  <2>1. execs[e].job # 0 => execs[e].job \in Job /\ Known(execs[e].job)
    BY Typed DEF Known
  <2>2. QED
    BY <1>1, <2>1 DEF Orderly, GoodRow, RunsGoOn
<1>4. ASSUME NEW c \in Driver, Holds(c, e)'
      PROVE  KnownBy(c, e)'
  <2>1. CASE c = d
    BY <1>2, <1>4, <2>1 DEF Holds, KnownBy
  <2>2. CASE c # d
    <3>1. driver'[c] = driver[c] /\ Holds(c, e) /\ KnownBy(c, e)
      BY <1>1, <1>2, <1>4, <2>2 DEF Holds, Orderly
    <3>2. driver[c].seen.job # 0
              => driver[c].seen.job \in Job /\ Known(driver[c].seen.job)
      BY Typed DEF Known
    <3>3. InTouch(driver[c], jobs', runs')
      BY <3>1, <3>2 DEF KnownBy, InTouch, RunsGoOn, Holds
    <3>4. QED
      BY <1>1, <3>1, <3>3 DEF KnownBy
  <2>3. QED
    BY <2>1, <2>2
<1>5. Settled(e)'
  <2>1. CASE e \in shared
    BY <1>1, <2>1 DEF Orderly, Settled
  <2>2. CASE e \notin shared
    <3>1. e \in shared' => e \in Shared'
      BY <2>2 DEF Remember
    <3>2. \A c \in Driver : Holds(c, e)' => Aware(driver[c], execs[e])'
      BY <1>4 DEF KnownBy
    <3>3. QED
      BY <3>1, <3>2, SharedSettled DEF Settled
  <2>3. QED
    BY <2>1, <2>2
<1>6. QED
  BY <1>3, <1>4, <1>5 DEF Orderly

\* A driver moves while the rows and the jobs stay.
LEMMA DriverGoes ==
    ASSUME IInv, HInv, IInv', Remember, NEW d \in Driver, NEW new \in Proc,
           driver' = [driver EXCEPT ![d] = new], UNCHANGED <<execs, jobs>>, RunsGoOn,
           Traced(driver[d], new),
           new.exec # 0 /\ new.pc # "scheduled" /\ new.exec \notin raced'
               => /\ Aware(new, execs[new.exec]) /\ InTouch(new, jobs, runs')
                  /\ new.exec \notin shared' => UpToDate(new, execs[new.exec])
    PROVE  HInv'
<1>1. JobsGoOn /\ RowsStand
  BY DEF HInv, JobsGood, JobsGoOn, RowsStand
<1>2. ASSUME NEW e \in Exec \ raced'
      PROVE  Orderly(e)'
  BY Constants, OrderlyStays
<1>3. QED
  BY <1>1, <1>2, JobsKept, RecalledKept DEF HInv

\* A run that ends disturbs none that is over.
LEMMA RunEnds ==
    ASSUME IInv, NEW j, NEW st \in Finished, runs' = [runs EXCEPT ![j] = st]
    PROVE  RunsGoOn
BY Typed DEF RunsGoOn, Finished

LEMMA RunsStay == UNCHANGED runs => RunsGoOn
BY DEF RunsGoOn

\* A driver that lets go of its execution, or had none.
LEMMA DriverEnds ==
    ASSUME IInv, HInv, IInv', Remember, NEW d \in Driver, NEW new \in Proc,
           driver' = [driver EXCEPT ![d] = new], UNCHANGED <<execs, jobs>>, RunsGoOn,
           new.exec = 0, new.seen.job = 0, new.pc \notin Asked
    PROVE  HInv'
<1>1. Traced(driver[d], new)
  BY DEF Traced
<1>2. QED
  BY <1>1, DriverGoes

LEMMA EndsOrderly ==
    ASSUME IInv, HInv, IInv', Remember, NEW d \in Driver,
           \/ driver' = [driver EXCEPT ![d] = Rest]
           \/ driver' = [driver EXCEPT ![d] = Return(driver[d])],
           UNCHANGED <<execs, jobs>>, RunsGoOn
    PROVE  HInv'
<1>1. driver[d] \in Proc /\ GoodProc(driver[d], execs)
  BY DEF IInv, TypeOK
<1>2. /\ Rest \in Proc /\ Return(driver[d]) \in Proc
      /\ Rest.exec = 0 /\ Return(driver[d]).exec = 0
  BY <1>1, Returned
<1>3. /\ Rest.seen.job = 0 /\ Return(driver[d]).seen.job = 0
      /\ Rest.pc \notin Asked /\ Return(driver[d]).pc \notin Asked
  BY DEF Rest, Return, NoRow, Asked
<1>4. QED
  BY <1>2, <1>3, DriverEnds

\* A driver loads an execution that is there.
LEMMA LoadsOrderly ==
    ASSUME IInv, HInv, IInv', Remember, NEW d \in Driver, NEW e \in Exec,
           execs[e].status # "absent",
           driver' = [driver EXCEPT ![d] = Loaded(driver[d], e)],
           UNCHANGED <<execs, jobs, runs>>
    PROVE  HInv'
<1> DEFINE new == Loaded(driver[d], e)
<1>1. driver[d] \in Proc /\ GoodProc(driver[d], execs) /\ execs[e] \in Row
  BY DEF IInv, TypeOK
<1>2. /\ new \in Proc /\ new.pc = "stepping" /\ new.exec = e /\ new.seen = execs[e]
  BY <1>1, LoadedGood
<1> HIDE DEF new
<1>3. Traced(driver[d], new)
  BY <1>2 DEF Traced, Asked
<1>4. ASSUME e \notin raced'
      PROVE  /\ Aware(new, execs[e]) /\ InTouch(new, jobs, runs')
             /\ UpToDate(new, execs[e])
  <2>1. GoodRow(e)
    BY <1>4 DEF HInv, Orderly, Remember
  <2>2. QED
    BY <1>2, <2>1
       DEF GoodRow, Aware, InTouch, UpToDate, Asked, Completing, Judging
<1>5. QED
  BY <1>2, <1>3, <1>4, RunsStay, DriverGoes DEF new

\* What a driver at work knows of an execution that was not raced.
LEMMA Held ==
    ASSUME IInv, HInv, NEW d \in Driver,
           driver[d].pc \in Driving \ {"scheduled"}
    PROVE  /\ driver[d].exec \in Exec /\ driver[d].exec # 0
           /\ execs[driver[d].exec] \in Row
           /\ execs[driver[d].exec].status # "absent"
           /\ driver[d].exec \notin raced
                  => /\ Orderly(driver[d].exec) /\ KnownBy(d, driver[d].exec)
                     /\ Holds(d, driver[d].exec)
<1>1. /\ driver[d].exec \in Exec /\ driver[d].exec # 0
      /\ execs[driver[d].exec].status # "absent"
  BY Typed DEF IInv, GoodProc
<1>2. Holds(d, driver[d].exec)
  BY DEF Holds
<1>3. QED
  BY <1>1, <1>2, Typed DEF HInv, Orderly

\* A driver goes on with the copy it has, to a pc that suits what it knows.
Suits(p, new, rs) ==
    /\ new.pc \in Completing => p.seen.job # 0
    /\ new.pc \in Judging /\ p.seen.job = 0 => p.seen.status \in Active
    /\ new.pc \in Judging /\ p.seen.job # 0 => rs[p.seen.job] \in Finished
    /\ new.pc = "closing" /\ new.verdict = "completed" => p.seen.job # 0
    /\ new.pc \in Completing \cup Judging /\ p.exec \notin shared
           => p.seen.status \in Active

LEMMA GoesOn ==
    ASSUME IInv, HInv, IInv', Remember, NEW d \in Driver, NEW new \in Proc,
           driver' = [driver EXCEPT ![d] = new], UNCHANGED <<execs, jobs>>, RunsGoOn,
           driver[d].pc \in Driving \ {"scheduled"},
           new.exec = driver[d].exec, new.seen = driver[d].seen,
           new.pc # "triggering",
           new.pc \in Asked => driver[d].pc \in Asked /\ new.job = driver[d].job,
           driver[d].exec \notin raced => Suits(driver[d], new, runs')
    PROVE  HInv'
<1> DEFINE e == driver[d].exec
<1>1. Traced(driver[d], new)
  BY DEF Traced
<1>2. ASSUME e \notin raced'
      PROVE  /\ Aware(new, execs[e]) /\ InTouch(new, jobs, runs')
             /\ e \notin shared' => UpToDate(new, execs[e])
  <2>1. /\ KnownBy(d, e) /\ Suits(driver[d], new, runs')
        /\ (e \notin shared' => e \notin shared)
    BY <1>2, Held DEF Remember
  <2>2. Aware(new, execs[e])
    <3>1. new.pc \in Asked \cup {"triggering"} => driver[d].pc \in Asked
      OBVIOUS
    <3>2. QED
      BY <2>1, <3>1 DEF KnownBy, Aware, Suits
  <2>3. InTouch(new, jobs, runs')
    BY <2>1 DEF InTouch, Suits
  <2>4. e \notin shared' => UpToDate(new, execs[e])
    BY <2>1 DEF KnownBy, UpToDate, Suits
  <2>5. QED
    BY <2>2, <2>3, <2>4
<1>3. QED
  BY <1>1, <1>2, DriverGoes

-----------------------------------------------------------------------------
(* The steps that leave the rows alone.                                    *)

LEMMA InvocationsOrderly ==
    ASSUME IInv, HInv, IInv', Remember, NEW d \in Driver,
           PostRun(d) \/ DailyPipeline(d) \/ DailyRefresh(d)
    PROVE  HInv'
<1>1. UNCHANGED <<execs, jobs, runs>>
  BY DEF PostRun, DailyPipeline, DailyRefresh
<1> DEFINE Fresh(new) == new.exec = 0 /\ new.seen.job = 0 /\ new.pc \notin Asked
<1>2. PICK new : driver' = [driver EXCEPT ![d] = new] /\ Fresh(new)
  <2>1. /\ Fresh([Rest EXCEPT !.pc = "looking", !.kind = "once"])
        /\ Fresh([Rest EXCEPT !.pc = "selecting", !.kind = "once"])
    BY DEF Rest, NoRow, Asked
  <2>2. \A day : Fresh([Rest EXCEPT !.pc = "selecting", !.kind = "daily_resume",
                                    !.day = day])
    BY DEF Rest, NoRow, Asked
  <2> HIDE DEF Fresh
  <2>3. QED
    BY <2>1, <2>2 DEF PostRun, DailyPipeline, DailyRefresh
<1>3. new \in Proc
  BY <1>2, Typed DEF IInv, TypeOK
<1>4. QED
  BY <1>1, <1>2, <1>3, RunsStay, DriverEnds

LEMMA JoinOrderly ==
    ASSUME IInv, HInv, IInv', Remember, NEW d \in Driver, NEW e \in Exec,
           execs[e].status # "absent", Join(d, e), UNCHANGED <<execs, jobs, runs>>
    PROVE  HInv'
<1>1. CASE driver' = [driver EXCEPT ![d] = Loaded(@, e)]
  <2>1. driver' = [driver EXCEPT ![d] = Loaded(driver[d], e)]
    BY <1>1, Typed
  <2>2. QED
    BY <2>1, LoadsOrderly
<1>2. CASE driver' = [driver EXCEPT ![d] = Rest]
  BY <1>2, RunsStay, EndsOrderly
<1>3. QED
  BY <1>1, <1>2 DEF Join

\* A driver that has no execution looks again, or claims one.
LEMMA LooksOrderly ==
    ASSUME IInv, HInv, IInv', Remember, NEW d \in Driver,
           NEW pc \in {"claiming", "relooking"},
           driver[d].pc \in {"looking", "claiming"}, Goto(d, pc),
           UNCHANGED <<execs, jobs, runs>>
    PROVE  HInv'
<1> DEFINE new == [driver[d] EXCEPT !.pc = pc]
<1>1. driver[d] \in Proc /\ driver[d].exec = 0 /\ driver[d].seen.job = 0
  BY Typed DEF IInv, GoodProc, Driving, HInv, JobsGood, Own
<1>2. /\ driver' = [driver EXCEPT ![d] = new]
      /\ new \in Proc
  BY Typed DEF Goto, Proc, PC
<1>3. new.exec = 0 /\ new.seen.job = 0 /\ new.pc = pc
  BY <1>1 DEF Proc
<1> HIDE DEF new
<1>4. QED
  BY <1>2, <1>3, RunsStay, DriverEnds DEF Asked

LEMMA ClaimsOrderly ==
    ASSUME IInv, HInv, IInv', Remember, NEW d \in Driver,
           Select(d) \/ LookUp(d) \/ LookAgain(d) \/ Execute(d)
    PROVE  HInv'
<1>1. UNCHANGED <<execs, jobs, runs>> /\ driver \in [Driver -> Proc]
  BY Typed DEF Select, LookUp, LookAgain, Execute
<1>2. CASE Select(d)
  <2>1. CASE driver' = [driver EXCEPT ![d] = Return(@)]
    BY <1>1, <2>1, RunsStay, EndsOrderly
  <2>2. ASSUME NEW e \in ActiveExecs, driver' = [driver EXCEPT ![d] = Loaded(@, e)]
        PROVE  HInv'
    <3>1. e \in Exec /\ execs[e].status # "absent"
      BY DEF ActiveExecs, Active
    <3>2. driver' = [driver EXCEPT ![d] = Loaded(driver[d], e)]
      BY <1>1, <2>2
    <3>3. QED
      BY <1>1, <3>1, <3>2, LoadsOrderly
  <2>3. QED
    BY <1>2, <2>1, <2>2 DEF Select
<1>3. CASE LookUp(d)
  <2>1. CASE Goto(d, "claiming")
    BY <1>1, <1>3, <2>1, LooksOrderly DEF LookUp
  <2>2. ASSUME NEW e \in Claimed(driver[d].day), Join(d, e)
        PROVE  HInv'
    BY <1>1, <2>2, ClaimedExist, JoinOrderly
  <2>3. QED
    BY <1>3, <2>1, <2>2 DEF LookUp
<1>4. CASE LookAgain(d)
  <2>1. CASE driver' = [driver EXCEPT ![d] = Rest]
    BY <1>1, <2>1, RunsStay, EndsOrderly
  <2>2. ASSUME NEW e \in Claimed(driver[d].day), Join(d, e)
        PROVE  HInv'
    BY <1>1, <2>2, ClaimedExist, JoinOrderly
  <2>3. QED
    BY <1>4, <2>1, <2>2 DEF LookAgain
<1>5. CASE Execute(d)
  <2>1. driver[d].exec \in Exec /\ execs[driver[d].exec].status # "absent"
    BY <1>5, Typed DEF Execute, IInv, GoodProc, Driving, PC
  <2>2. driver' = [driver EXCEPT ![d] = Loaded(driver[d], driver[d].exec)]
    BY <1>1, <1>5 DEF Execute
  <2>3. QED
    BY <1>1, <2>1, <2>2, LoadsOrderly
<1>6. QED
  BY <1>2, <1>3, <1>4, <1>5

LEMMA DecisionsOrderly ==
    ASSUME IInv, HInv, IInv', Remember, NEW d \in Driver,
           AlreadyDecided(d) \/ Decide(d)
    PROVE  HInv'
<1>1. UNCHANGED <<execs, jobs, runs>> /\ driver \in [Driver -> Proc]
  BY Typed DEF AlreadyDecided, Decide
<1>2. CASE driver' = [driver EXCEPT ![d] = Return(@)]
  BY <1>1, <1>2, RunsStay, EndsOrderly
<1>3. CASE Decide(d) /\ Goto(d, "stepping")
  <2> DEFINE new == [driver[d] EXCEPT !.pc = "stepping"]
  <2>1. /\ driver' = [driver EXCEPT ![d] = new] /\ new \in Proc
        /\ new.exec = driver[d].exec /\ new.seen = driver[d].seen
        /\ new.pc = "stepping"
    BY <1>1, <1>3 DEF Goto, Proc, PC
  <2>2. driver[d].pc \in Driving \ {"scheduled"}
    BY <1>3 DEF Decide, Driving, PC
  <2> HIDE DEF new
  <2>3. Suits(driver[d], new, runs')
    BY <2>1 DEF Suits, Completing, Judging
  <2>4. QED
    BY <1>1, <2>1, <2>2, <2>3, RunsStay, GoesOn DEF Asked
<1>4. QED
  BY <1>2, <1>3 DEF AlreadyDecided, Decide

\* A process dies, or a drive ends; a collection being completed is failed.
LEMMA FaultOrderly ==
    ASSUME IInv, HInv, IInv', Remember, NEW d \in Driver, Fault(d)
    PROVE  HInv'
<1>1. UNCHANGED <<execs, jobs>>
  BY DEF Fault
<1>2. RunsGoOn
  <2>1. UNCHANGED runs \/ runs' = [runs EXCEPT ![driver[d].seen.job] = "failed"]
    BY DEF Fault
  <2>2. QED
    BY <2>1, RunsStay, RunEnds DEF Finished
<1>3. \/ driver' = [driver EXCEPT ![d] = Rest]
      \/ driver' = [driver EXCEPT ![d] = Return(driver[d])]
  BY Typed DEF Fault
<1>4. QED
  BY <1>1, <1>2, <1>3, EndsOrderly

\* An execution its driver has not shared is not over past its trigger.
LEMMA StillOpen ==
    ASSUME IInv, HInv, NEW d \in Driver, driver[d].exec \notin raced,
           \/ PastTrigger(d)
           \/ driver[d].pc \in Completing \cup Judging
    PROVE  /\ driver[d].pc \in Driving \ {"scheduled"}
           /\ driver[d].exec \notin shared => driver[d].seen.status \in Active
<1>1. driver[d].pc \in Driving \ {"scheduled"}
  BY DEF PastTrigger, Completing, Judging, Driving, PC
<1>2. ASSUME driver[d].exec \notin shared
      PROVE  driver[d].seen.status \in Active
  <2>1. UpToDate(driver[d], execs[driver[d].exec])
    BY <1>1, <1>2, Held DEF KnownBy
  <2>2. execs[driver[d].exec].status \in Status \ {"absent"}
    BY <1>1, Held DEF Row
  <2>3. QED
    BY <2>1, <2>2 DEF UpToDate, PastTrigger, Status, Terminal, Verdict
<1>3. QED
  BY <1>1, <1>2

\* The collection is there, or it is over; it is fetched or judged.
LEMMA CollectsOrderly ==
    ASSUME IInv, HInv, IInv', Remember, NEW d \in Driver,
           Collected(d) \/ CollectionFails(d) \/ Finalise(d) \/ Rejudge(d)
    PROVE  HInv'
<1> DEFINE p == driver[d]
<1>1. UNCHANGED <<execs, jobs>> /\ p \in Proc
  BY Typed DEF Collected, CollectionFails, Finalise, Rejudge
<1>2. PastTrigger(d) \/ p.pc \in Completing
  BY DEF Collected, CollectionFails, Finalise, Rejudge, Polling, Completing
<1>3. \/ UNCHANGED runs
      \/ runs' = [runs EXCEPT ![p.seen.job] = "failed"]
      \/ runs' = [runs EXCEPT ![p.seen.job] = "succeeded"]
  BY DEF Collected, CollectionFails, Finalise, Rejudge
<1>4. RunsGoOn
  BY <1>3, RunsStay, RunEnds DEF Finished
<1>5. p.pc \in Driving \ {"scheduled"}
  BY <1>2 DEF PastTrigger, Completing, Driving, PC
<1>6. ASSUME NEW at \in {"fetching", "finishing"}, Goto(d, at),
             p.exec \notin raced,
             at = "finishing" => CollectionFails(d) \/ Finalise(d) \/ Rejudge(d)
      PROVE  Suits(p, [p EXCEPT !.pc = at], runs')
  <2>1. p.seen.job # 0
    <3>1. CASE p.pc \in Completing
      BY <1>5, <1>6, <3>1, Held DEF KnownBy, Aware
    <3>2. CASE p.pc \notin Completing
      BY <3>2 DEF Collected, CollectionFails, Finalise, Rejudge, Polling, Completing
    <3>3. QED
      BY <3>1, <3>2
  <2>2. at = "finishing" => runs'[p.seen.job] \in Finished
    <3>1. p.seen.job \in Job
      BY <2>1, Typed
    <3>2. QED
      BY <1>6, <3>1, Typed DEF CollectionFails, Finalise, Rejudge, Finished
  <2>3. p.exec \notin shared => p.seen.status \in Active
    BY <1>2, <1>6, StillOpen
  <2> DEFINE went == [p EXCEPT !.pc = at]
  <2>4. went.pc = at
    BY <1>1 DEF Proc
  <2> HIDE DEF went, p
  <2>5. QED
    BY <2>1, <2>2, <2>3, <2>4 DEF Suits, Completing, Judging, went
<1>7. ASSUME NEW at \in {"fetching", "finishing"}, Goto(d, at),
             at = "finishing" => CollectionFails(d) \/ Finalise(d) \/ Rejudge(d)
      PROVE  HInv'
  <2> DEFINE went == [p EXCEPT !.pc = at]
  <2>1. /\ driver' = [driver EXCEPT ![d] = went] /\ went \in Proc
        /\ went.exec = p.exec /\ went.seen = p.seen /\ went.pc = at
    BY <1>1, <1>7, Typed DEF Goto, Proc, PC
  <2>2. p.exec \notin raced => Suits(p, went, runs')
    BY <1>6, <1>7
  <2> HIDE DEF went
  <2>3. QED
    BY <1>1, <1>4, <1>5, <2>1, <2>2, GoesOn DEF Asked
<1>8. QED
  BY <1>7 DEF Collected, CollectionFails, Finalise, Rejudge

\* The run is opened for a job no row knows yet.
LEMMA OpenRunOrderly ==
    ASSUME IInv, HInv, IInv', Remember, NEW d \in Driver, OpenRun(d)
    PROVE  HInv'
<1> DEFINE new == [driver[d] EXCEPT !.pc = "recording"]
<1>1. /\ UNCHANGED <<execs, jobs>> /\ driver[d].pc = "opening"
      /\ runs' = [runs EXCEPT ![driver[d].job] = "running"]
  BY DEF OpenRun
<1>2. /\ driver' = [driver EXCEPT ![d] = new] /\ new \in Proc
      /\ new.exec = driver[d].exec /\ new.seen = driver[d].seen
      /\ new.pc = "recording" /\ new.job = driver[d].job
  BY Typed DEF OpenRun, Goto, Proc, PC
<1> HIDE DEF new
<1>3. RunsGoOn
  <2>1. Unrecorded(d)
    BY <1>1 DEF HInv, Asked
  <2>2. ~ Known(driver[d].job)
    BY <2>1 DEF Known, Unrecorded
  <2>3. QED
    BY <1>1, <2>2, Typed DEF RunsGoOn
<1>4. Suits(driver[d], new, runs')
  BY <1>2 DEF Suits, Completing, Judging
<1>5. QED
  BY <1>1, <1>2, <1>3, <1>4, GoesOn DEF Asked, Driving, PC

LEMMA EvaluateOrderly ==
    ASSUME IInv, HInv, IInv', Remember, NEW d \in Driver, Evaluate(d)
    PROVE  HInv'
<1>1. PICK v \in Verdict :
          /\ v = "completed" => driver[d].seen.job # 0
          /\ driver' = [driver EXCEPT ![d].pc = "closing", ![d].verdict = v]
  BY DEF Evaluate
<1> DEFINE new == [driver[d] EXCEPT !.pc = "closing", !.verdict = v]
<1>2. /\ UNCHANGED <<execs, jobs, runs>> /\ driver[d].pc = "verifying"
  BY DEF Evaluate
<1>3. /\ driver' = [driver EXCEPT ![d] = new] /\ new \in Proc
      /\ new.exec = driver[d].exec /\ new.seen = driver[d].seen
      /\ new.pc = "closing" /\ new.verdict = v
  BY <1>1, Typed DEF Proc, PC
<1> HIDE DEF new
<1>4. driver[d].pc \in Driving \ {"scheduled"} /\ driver[d].pc \in Judging
  BY <1>2 DEF Driving, PC, Judging
<1>5. ASSUME driver[d].exec \notin raced
      PROVE  Suits(driver[d], new, runs')
  <2>1. KnownBy(d, driver[d].exec)
    BY <1>4, <1>5, Held
  <2>2. driver[d].exec \notin shared => driver[d].seen.status \in Active
    BY <1>4, <1>5, StillOpen
  <2>3. QED
    BY <1>1, <1>2, <1>3, <1>4, <2>1, <2>2
       DEF KnownBy, Aware, InTouch, Suits, Completing
<1>6. QED
  BY <1>2, <1>3, <1>4, <1>5, RunsStay, GoesOn DEF Asked

-----------------------------------------------------------------------------
(* The trigger.                                                            *)

\* An execution that is open, without a job and not raced has one driver.
LEMMA Alone ==
    ASSUME HInv, NEW e \in Exec \ raced, NEW c \in Driver, NEW d \in Driver,
           Holds(c, e), Holds(d, e),
           execs[e].job = 0, execs[e].status \in Active
    PROVE  c = d
<1>1. Aware(driver[c], execs[e]) /\ Aware(driver[d], execs[e])
  BY DEF HInv, Orderly, KnownBy
<1>2. Blank(c, e) /\ Blank(d, e)
  BY <1>1 DEF Aware, Blank
<1>3. QED
  BY <1>2 DEF HInv, Recalled, Raced

\* The job a trigger leaves at the provider is a new one.
LEMMA NewJobGoesOn ==
    ASSUME IInv, HInv, NEW e \in Exec, NEW j \in Job, NewJob(e, j)
    PROVE  /\ JobsGoOn
           /\ j # 0 /\ jobs[j].of = 0 /\ jobs'[j].of = e
           /\ \A k \in Job \ {j} : jobs'[k] = jobs[k]
<1>1. jobs[j].of = 0
  BY DEF NewJob, HInv, JobsGood
<1>2. jobs' = [jobs EXCEPT ![j] = [st |-> "running", of |-> e]]
  BY DEF NewJob
<1>3. jobs'[j] = [st |-> "running", of |-> e] /\ \A k \in Job \ {j} : jobs'[k] = jobs[k]
  BY <1>2, Typed
<1>4. QED
  BY <1>1, <1>3, Constants DEF JobsGoOn, HInv, JobsGood

LEMMA TriggersOrderly ==
    ASSUME IInv, HInv, IInv', Remember, NEW d \in Driver, NEW new \in Proc,
           driver[d].pc = "triggering",
           driver' = [driver EXCEPT ![d] = new], UNCHANGED <<execs, runs>>,
           UNCHANGED jobs \/ \E j \in Job : NewJob(driver[d].exec, j),
           new.exec = driver[d].exec, new.seen = driver[d].seen,
           \/ new.pc = "finishing"
           \/ /\ new.pc = "opening"
              /\ new.job \in Job /\ NewJob(driver[d].exec, new.job)
    PROVE  HInv'
<1> DEFINE e == driver[d].exec
<1>1. /\ driver[d].pc \in Driving \ {"scheduled"} /\ driver[d].pc \notin Asked
      /\ e \in Exec /\ e # 0
  BY Held DEF Driving, PC, Asked
<1>2. JobsGoOn
  BY <1>1, NewJobGoesOn DEF HInv, JobsGood, JobsGoOn
<1>3. \A f \in Exec \ {e}, j \in Job : jobs'[j].of = f => jobs[j].of = f
  BY <1>1, NewJobGoesOn
<1>4. Traced(driver[d], new)
  BY <1>1, NewJobGoesOn DEF Traced, Asked
<1>5. /\ driver'[d] = new
      /\ \A c \in Driver \ {d} : driver'[c] = driver[c]
  BY Typed
<1>6. ASSUME e \notin raced'
      PROVE  Orderly(e)'
  <2>1. e \notin raced /\ Orderly(e) /\ KnownBy(d, e) /\ Holds(d, e)
    BY <1>1, <1>6, Held DEF Remember
  <2>2. /\ new.seen = execs[e] /\ execs[e].job = 0 /\ execs[e].status = "collecting"
        /\ \A j \in Job : jobs[j].of # e
    BY <2>1 DEF KnownBy, Aware, InTouch
  <2>3. execs[e].status \in Active \ (Verdict \cup {"absent", "queued", "completed"})
    BY <2>2 DEF Active, Verdict
  <2>4. \A c \in Driver : Holds(c, e)' => c = d
    <3> SUFFICES ASSUME NEW c \in Driver, Holds(c, e)', c # d PROVE FALSE
      OBVIOUS
    <3>1. Holds(c, e)
      BY <1>5 DEF Holds
    <3>2. QED
      BY <1>1, <2>1, <2>2, <2>3, <3>1, Alone
  <2>5. \A j, k \in Job : jobs'[j].of = e /\ jobs'[k].of = e => j = k
    <3>1. CASE UNCHANGED jobs
      BY <2>2, <3>1
    <3>2. ASSUME NEW j \in Job, NewJob(e, j)
          PROVE  \A k \in Job : jobs'[k].of = e => k = j
      BY <1>1, <2>2, <3>2, NewJobGoesOn
    <3>3. QED
      BY <3>1, <3>2
  <2>6. GoodRow(e)'
    BY <2>2, <2>3, <2>5 DEF GoodRow
  <2>7. Settled(e)'
    <3>1. e \notin shared
      BY <2>1, <2>2, <2>3 DEF Orderly, Settled
    <3>2. e \notin Shared'
      BY <2>4 DEF Shared
    <3>3. QED
      BY <3>1, <3>2 DEF Settled, Remember
  <2>8. KnownBy(d, e)'
    <3>1. Aware(new, execs[e]) /\ UpToDate(new, execs[e])
      BY <2>2, <2>3 DEF Aware, UpToDate, Asked, Completing, Judging
    <3>2. InTouch(new, jobs', runs')
      BY <2>2 DEF InTouch
    <3>3. QED
      BY <1>5, <3>1, <3>2 DEF KnownBy
  <2>9. QED
    BY <2>4, <2>6, <2>7, <2>8 DEF Orderly
<1>7. ASSUME NEW f \in Exec \ raced', f # e
      PROVE  Orderly(f)'
  BY <1>3, <1>7, RunsStay, OrderlyStays
<1>8. RowsStand
  BY DEF RowsStand
<1>9. JobsGood' /\ \A c \in Driver : driver'[c].pc \in Asked => Unrecorded(c)'
  BY <1>2, <1>4, JobsKept
<1>10. Recalled'
  BY <1>8, RecalledKept
<1>11. \A f \in Exec \ raced' : Orderly(f)'
  BY <1>6, <1>7
<1>12. QED
  BY <1>9, <1>10, <1>11 DEF HInv

LEMMA TriggerOrderly ==
    ASSUME IInv, HInv, IInv', Remember, NEW d \in Driver,
           Trigger(d) \/ TriggerFails(d)
    PROVE  HInv'
<1>1. driver[d].pc = "triggering" /\ UNCHANGED <<execs, runs>> /\ driver[d] \in Proc
  BY Typed DEF Trigger, TriggerFails
<1>2. CASE Trigger(d)
  <2>1. PICK j \in Job : /\ NewJob(driver[d].exec, j)
                         /\ driver' = [driver EXCEPT ![d].pc = "opening", ![d].job = j]
    BY <1>2 DEF Trigger
  <2> DEFINE new == [driver[d] EXCEPT !.pc = "opening", !.job = j]
  <2>2. /\ driver' = [driver EXCEPT ![d] = new] /\ new \in Proc
        /\ new.exec = driver[d].exec /\ new.seen = driver[d].seen
        /\ new.pc = "opening" /\ new.job = j
    BY <1>1, <2>1, Typed, Constants DEF Proc, PC
  <2> HIDE DEF new
  <2>3. QED
    BY <1>1, <2>1, <2>2, TriggersOrderly
<1>3. CASE TriggerFails(d)
  <2> DEFINE new == [driver[d] EXCEPT !.pc = "finishing"]
  <2>1. /\ driver' = [driver EXCEPT ![d] = new] /\ new \in Proc
        /\ new.exec = driver[d].exec /\ new.seen = driver[d].seen
        /\ new.pc = "finishing"
    BY <1>1, <1>3, Typed DEF TriggerFails, Goto, Proc, PC
  <2>2. UNCHANGED jobs \/ \E j \in Job : NewJob(driver[d].exec, j)
    BY <1>3 DEF TriggerFails
  <2> HIDE DEF new
  <2>3. QED
    BY <1>1, <2>1, <2>2, TriggersOrderly
<1>4. QED
  BY <1>2, <1>3

\* The provider completes a collection.
LEMMA CompleteOrderly ==
    ASSUME IInv, HInv, IInv', Remember, Complete
    PROVE  HInv'
<1>1. UNCHANGED <<execs, runs, driver>>
  BY DEF Complete
<1>2. PICK j \in Job : jobs[j].st = "running" /\ jobs' = [jobs EXCEPT ![j].st = "done"]
  BY DEF Complete
<1>3. \A k \in Job : /\ jobs'[k].of = jobs[k].of
                     /\ jobs'[k].st = "absent" => jobs[k].st = "absent"
  BY <1>2, Typed DEF JobRow
<1>4. /\ \A e \in Exec : Own(jobs, execs[e].job, e) => Own(jobs', execs[e].job, e)
      /\ \A d \in Driver : /\ Own(jobs, driver[d].seen.job, driver[d].exec)
                                 => Own(jobs', driver[d].seen.job, driver[d].exec)
                           /\ Own(jobs, driver[d].job, driver[d].exec)
                                 => Own(jobs', driver[d].job, driver[d].exec)
  BY <1>3, Typed DEF Own
<1>5. JobsGood'
  BY <1>1, <1>3, <1>4 DEF HInv, JobsGood
<1>6. \A d \in Driver : driver'[d].pc \in Asked => Unrecorded(d)'
  BY <1>1, <1>4 DEF HInv, Unrecorded
<1>7. RowsStand
  BY <1>1 DEF RowsStand
<1>8. ASSUME NEW e \in Exec \ raced'
      PROVE  Orderly(e)'
  <2>1. e \notin raced /\ Orderly(e)
    BY DEF HInv, Remember
  <2>2. GoodRow(e)'
    BY <1>1, <1>3, <2>1 DEF Orderly, GoodRow
  <2>3. shared' = shared
    <3>1. Shared' = Shared
      BY <1>1 DEF Shared, Holds
    <3>2. QED
      BY <3>1 DEF Remember, HInv, Recalled
  <2>4. Settled(e)'
    BY <1>1, <2>1, <2>3 DEF Orderly, Settled
  <2>5. ASSUME NEW d \in Driver, Holds(d, e)'
        PROVE  KnownBy(d, e)'
    <3>1. KnownBy(d, e)
      BY <1>1, <2>1, <2>5 DEF Orderly, Holds
    <3>2. InTouch(driver[d], jobs', runs')
      BY <1>1, <1>3, <3>1 DEF KnownBy, InTouch
    <3>3. QED
      BY <1>1, <2>3, <3>1, <3>2 DEF KnownBy
  <2>6. QED
    BY <2>2, <2>4, <2>5 DEF Orderly
<1>9. QED
  BY <1>5, <1>6, <1>7, <1>8, RecalledKept DEF HInv

-----------------------------------------------------------------------------
(* The commits.                                                            *)

\* What driver p commits, and where it goes, suits what it knows.
Fits(p, st, pc) ==
    /\ p.seen.job = 0 \/ p.exec \notin shared => p.seen.status \in Active
    /\ st \in Verdict /\ p.seen.job # 0 => runs[p.seen.job] \in Finished
    /\ st = "completed" => p.seen.job # 0
    /\ pc = "triggering" => p.seen.status = "queued" /\ st = "collecting"
    /\ pc \in Completing => p.seen.job # 0
    /\ pc \in Completing \cup Judging => st \in Active
    /\ pc \in Judging /\ p.seen.job # 0 => runs[p.seen.job] \in Finished

\* What a commit of driver d is: the status it wants, or that and the job, the
\* run being failed where a commit of a stage is refused.
Destination == Driving \ (Asked \cup {"scheduled", "closing"})

Commits(d, want, pc) ==
    /\ driver[d].pc \in Driving \ {"scheduled"}
    /\ Advance(d, want, pc)
    /\ UNCHANGED jobs
    /\ \/ UNCHANGED runs
       \/ /\ driver'[d].pc # pc
          /\ runs' = [runs EXCEPT ![driver[d].seen.job] = "failed"]
    /\ want.status \in Status \ {"absent", "queued"}
    /\ \/ want.job = driver[d].seen.job
       \/ /\ driver[d].pc = "recording" /\ want.job = driver[d].job
          /\ want.status = "waiting_provider" /\ pc = "deciding"
    /\ driver[d].exec \notin raced => Fits(driver[d], want.status, pc)

\* What an UPDATE of the changed columns leaves in the row.
LEMMA Merged ==
    ASSUME NEW old \in Row, NEW seen \in Row, NEW want \in Row
    PROVE  /\ Merge(old, seen, want) \in Row
           /\ Merge(old, seen, want).status
                  = IF want.status = seen.status THEN old.status ELSE want.status
           /\ Merge(old, seen, want).job
                  = IF want.job = seen.job THEN old.job ELSE want.job
BY DEF Merge, Column, Row

\* The row after a commit of driver p, of an execution that was not raced.
LEMMA RowCommitted ==
    ASSUME IInv, HInv, NEW d \in Driver, NEW want \in Row, NEW pc, NEW row,
           driver[d].pc \in Driving \ {"scheduled"},
           row = Merge(execs[driver[d].exec], driver[d].seen, want),
           want.status \in Status \ {"absent", "queued"},
           \/ want.job = driver[d].seen.job
           \/ /\ driver[d].pc = "recording" /\ want.job = driver[d].job
              /\ want.status = "waiting_provider",
           driver[d].exec \notin raced,
           Fits(driver[d], want.status, pc)
    PROVE  /\ row.status \notin {"absent", "queued"}
           /\ row.job # 0 /\ runs[row.job] = "running" => row.status \in Active
           /\ row.status = "completed" => row.job # 0 /\ runs[row.job] \in Finished
           /\ \/ /\ execs[driver[d].exec].job = 0
                 /\ execs[driver[d].exec].status \in Active
                 /\ execs[driver[d].exec] = driver[d].seen
                 /\ row.status = want.status /\ row.job = want.job
              \/ /\ execs[driver[d].exec].job # 0
                 /\ driver[d].seen.job = row.job
                 /\ row.job = execs[driver[d].exec].job
<1> DEFINE p == driver[d]
           e == driver[d].exec
<1>1. /\ Orderly(e) /\ KnownBy(d, e)
      /\ execs[e] \in Row /\ p.seen \in Row /\ execs[e].status # "absent"
  BY Held, Typed
<1>2. /\ row.status = IF want.status = p.seen.status THEN execs[e].status ELSE want.status
      /\ row.job = IF want.job = p.seen.job THEN execs[e].job ELSE want.job
  BY <1>1, Merged
<1>3. CASE execs[e].job = 0
  <2>1. p.seen = execs[e] /\ p.seen.status \in Active
    BY <1>1, <1>3 DEF KnownBy, Aware, Fits
  <2>2. row.status = want.status /\ row.job = want.job
    BY <1>2, <2>1
  <2>3. want.job # 0 => want.status = "waiting_provider"
    BY <1>3, <2>1
  <2>4. want.status # "completed"
    BY <1>3, <2>1 DEF Fits
  <2>5. QED
    BY <1>3, <2>1, <2>2, <2>3, <2>4 DEF Active
<1>4. CASE execs[e].job # 0
  <2>1. p.seen.job = execs[e].job /\ want.job = p.seen.job
    BY <1>1, <1>4 DEF KnownBy, Aware, Asked
  <2>2. row.job = execs[e].job
    BY <1>2, <2>1
  <2>3. execs[e].status \notin {"absent", "queued"}
    BY <1>1, <1>4 DEF Orderly, GoodRow
  <2>4. want.status \in Verdict => runs[row.job] \in Finished
    BY <1>4, <2>1, <2>2 DEF Fits
  <2>5. /\ row.status = execs[e].status \/ row.status = want.status
        /\ want.status \in Active \cup Verdict
    BY <1>2 DEF Status
  <2>6. GoodRow(e)
    BY <1>1 DEF Orderly
  <2>7. row.job # 0 /\ runs[row.job] = "running" => row.status \in Active
    BY <2>2, <2>4, <2>5, <2>6 DEF GoodRow, Finished
  <2>8. row.status = "completed" => row.job # 0 /\ runs[row.job] \in Finished
    BY <1>4, <2>2, <2>4, <2>5, <2>6 DEF GoodRow, Verdict, Active
  <2>9. QED
    BY <1>4, <2>1, <2>2, <2>3, <2>5, <2>7, <2>8
<1>5. QED
  BY <1>3, <1>4

\* A commit that the index admits.
LEMMA CommitOrderly ==
    ASSUME IInv, HInv, IInv', Remember, NEW d \in Driver, NEW want \in Row,
           NEW pc \in Destination, NEW row, NEW new,
           driver[d].pc \in Driving \ {"scheduled"},
           row = Merge(execs[driver[d].exec], driver[d].seen, want),
           execs' = [execs EXCEPT ![driver[d].exec] = row],
           driver' = [driver EXCEPT ![d] = new],
           new.exec = driver[d].exec, new.seen = row, new.pc = pc,
           UNCHANGED <<jobs, runs>>,
           want.status \in Status \ {"absent", "queued"},
           \/ want.job = driver[d].seen.job
           \/ /\ driver[d].pc = "recording" /\ want.job = driver[d].job
              /\ want.status = "waiting_provider" /\ pc = "deciding",
           driver[d].exec \notin raced => Fits(driver[d], want.status, pc)
    PROVE  HInv'
<1> DEFINE p == driver[d]
           e == driver[d].exec
<1>1. /\ e \in Exec /\ e # 0 /\ execs[e] \in Row /\ p.seen \in Row
      /\ execs[e].status # "absent"
  BY Held, Typed
<1>2. /\ row.status = IF want.status = p.seen.status THEN execs[e].status ELSE want.status
      /\ row.job = IF want.job = p.seen.job THEN execs[e].job ELSE want.job
  BY <1>1, Merged
<1>3. /\ driver'[d] = new /\ new \in Proc
      /\ \A c \in Driver \ {d} : driver'[c] = driver[c]
  BY Typed DEF IInv, TypeOK
<1>4. /\ execs'[e] = row
      /\ \A f \in Exec \ {e} : execs'[f] = execs[f]
  BY <1>1, Typed
<1>5. Traced(driver[d], new)
  BY <1>1, <1>2, <1>4 DEF Traced, Asked, Destination
<1>6. JobsGoOn /\ RowsStand
  BY <1>1, <1>2, <1>4 DEF HInv, JobsGood, JobsGoOn, RowsStand
<1>7. ASSUME e \notin raced'
      PROVE  Orderly(e)'
  <2>1. e \notin raced /\ Orderly(e) /\ KnownBy(d, e) /\ Holds(d, e)
        /\ Fits(p, want.status, pc)
    BY <1>1, <1>7, Held DEF Remember
  <2>2. /\ row.status \notin {"absent", "queued"}
        /\ row.job # 0 /\ runs[row.job] = "running" => row.status \in Active
        /\ row.status = "completed" => row.job # 0 /\ runs[row.job] \in Finished
        /\ \/ /\ execs[e].job = 0 /\ execs[e].status \in Active /\ execs[e] = p.seen
              /\ row.status = want.status /\ row.job = want.job
           \/ /\ execs[e].job # 0
              /\ p.seen.job = row.job /\ row.job = execs[e].job
    BY <2>1, RowCommitted
  <2>3. GoodRow(e)'
    BY <1>4, <2>1, <2>2 DEF Orderly, GoodRow
  <2>4. ASSUME NEW c \in Driver, Holds(c, e)', c # d
        PROVE  Holds(c, e) /\ execs[e].job # 0
    <3>1. Holds(c, e)
      BY <1>3, <2>4 DEF Holds
    <3>2. QED
      BY <1>1, <2>1, <2>2, <2>4, <3>1, Alone
  <2>5. Settled(e)'
    <3>1. CASE execs[e].job # 0
      BY <1>4, <2>2, <3>1 DEF Settled
    <3>2. CASE execs[e].job = 0
      <4>1. e \notin shared
        BY <2>1, <2>2, <3>2 DEF Orderly, Settled, Active, Verdict
      <4>2. e \notin Shared'
        BY <2>4, <3>2 DEF Shared
      <4>3. QED
        BY <4>1, <4>2 DEF Settled, Remember
    <3>3. QED
      BY <3>1, <3>2
  <2>6. ASSUME NEW c \in Driver, Holds(c, e)', c # d
        PROVE  KnownBy(c, e)'
    <3>1. Holds(c, e) /\ execs[e].job # 0 /\ driver'[c] = driver[c] /\ KnownBy(c, e)
      BY <1>3, <2>1, <2>4, <2>6 DEF Orderly
    <3>2. row.job = execs[e].job
      BY <2>2, <3>1
    <3>3. Aware(driver[c], row) /\ InTouch(driver[c], jobs, runs)
      <4>1. Aware(driver[c], execs[e]) /\ InTouch(driver[c], jobs, runs)
        BY <3>1 DEF KnownBy
      <4>2. driver[c].seen.job = row.job /\ driver[c].seen.job # 0
        BY <3>1, <3>2, <4>1 DEF Aware
      <4>3. QED
        BY <4>1, <4>2 DEF Aware
    <3>4. e \in shared'
      <4>1. Holds(d, e)'
        BY <1>3 DEF Holds, Destination
      <4>2. QED
        BY <1>1, <2>6, <4>1 DEF Remember, Shared
    <3>5. QED
      BY <1>4, <3>1, <3>3, <3>4 DEF KnownBy
  <2>7. KnownBy(d, e)'
    <3>1. pc = "triggering" => /\ row.status = "collecting" /\ row.job = 0
                               /\ \A j \in Job : jobs[j].of # e
      <4> SUFFICES ASSUME pc = "triggering"
                   PROVE  /\ row.status = "collecting" /\ row.job = 0
                          /\ \A j \in Job : jobs[j].of # e
        OBVIOUS
      <4>1. p.seen.status = "queued" /\ p.seen.job = 0 /\ want.status = "collecting"
        BY <2>1 DEF Fits, KnownBy, Aware
      <4>2. execs[e] = p.seen /\ row.status = want.status
        BY <2>1, <2>2, <4>1 DEF KnownBy, Aware
      <4>3. want.job = p.seen.job
        BY <4>1
      <4>4. QED
        BY <1>2, <2>1, <4>1, <4>2, <4>3 DEF Orderly, GoodRow
    <3>2. p.seen.job # 0 => row.job = p.seen.job /\ execs[e].job # 0
      BY <2>1, <2>2 DEF KnownBy, Aware
    <3>3. row.job = 0 => row.status = want.status
      BY <2>2
    <3>4. row.job # 0 /\ p.seen.job = 0 => pc = "deciding"
      BY <2>2
    <3>5. e \notin shared' => row.status = want.status
      BY <1>2, <2>1 DEF Remember, KnownBy, UpToDate
    <3>6. Aware(new, row)
      BY <2>1, <2>2, <3>1, <3>2, <3>3 DEF Fits, Aware, Asked, Destination
    <3>7. InTouch(new, jobs, runs)
      BY <2>1, <3>1, <3>2, <3>4 DEF Fits, InTouch, Judging
    <3>8. e \notin shared' => UpToDate(new, row)
      BY <2>1, <3>5 DEF Fits, UpToDate
    <3>9. QED
      BY <1>3, <1>4, <3>6, <3>7, <3>8 DEF KnownBy
  <2>8. QED
    BY <2>3, <2>5, <2>6, <2>7 DEF Orderly
<1>8. ASSUME NEW f \in Exec \ raced', f # e
      PROVE  Orderly(f)'
  BY <1>3, <1>4, <1>8, RunsStay, OrderlyStays
<1>9. JobsGood' /\ \A c \in Driver : driver'[c].pc \in Asked => Unrecorded(c)'
  BY <1>3, <1>5, <1>6, JobsKept
<1>10. Recalled'
  BY <1>6, RecalledKept
<1>11. \A f \in Exec \ raced' : Orderly(f)'
  BY <1>7, <1>8
<1>12. QED
  BY <1>9, <1>10, <1>11 DEF HInv

\* Where a commit is admitted, the run is left alone.
LEMMA Admitted ==
    ASSUME IInv, NEW d \in Driver, NEW want \in Row, NEW pc,
           Commits(d, want, pc), NEW row,
           row = Merge(execs[driver[d].exec], driver[d].seen, want),
           ~ Refused(driver[d].exec, row)
    PROVE  /\ execs' = [execs EXCEPT ![driver[d].exec] = row]
           /\ UNCHANGED <<jobs, runs>>
           /\ \E new : /\ driver' = [driver EXCEPT ![d] = new]
                       /\ new.exec = driver[d].exec /\ new.seen = row /\ new.pc = pc
<1> DEFINE p == driver[d]
           new == [p EXCEPT !.seen = row, !.pc = pc, !.job = 0, !.verdict = "none"]
<1>1. /\ execs' = [execs EXCEPT ![p.exec] = row]
      /\ driver' = [driver EXCEPT ![d] = new]
  BY DEF Commits, Advance
<1>2. p \in Proc
  BY Typed
<1>3. new.exec = p.exec /\ new.seen = row /\ new.pc = pc
  <2> HIDE DEF p
  <2>1. QED
    BY <1>2 DEF Proc
<1>4. UNCHANGED <<jobs, runs>>
  <2>1. driver'[d].pc = pc
    BY <1>1, <1>3, Typed
  <2>2. QED
    BY <2>1 DEF Commits
<1> HIDE DEF new
<1>5. QED
  BY <1>1, <1>3, <1>4

\* A commit, admitted or refused.
LEMMA AdvanceOrderly ==
    ASSUME IInv, HInv, IInv', Remember, NEW d \in Driver, NEW want \in Row,
           NEW pc \in Destination, Commits(d, want, pc)
    PROVE  HInv'
<1> DEFINE p == driver[d]
           row == Merge(execs[p.exec], p.seen, want)
<1>1. CASE Refused(p.exec, row)
  <2>1. /\ UNCHANGED <<execs, jobs>>
        /\ \/ driver' = [driver EXCEPT ![d] = Rest]
           \/ driver' = [driver EXCEPT ![d] = Return(p)]
    BY <1>1 DEF Commits, Advance
  <2>2. RunsGoOn
    BY RunsStay, RunEnds DEF Commits, Finished
  <2>3. QED
    BY <2>1, <2>2, EndsOrderly
<1>2. CASE ~ Refused(p.exec, row)
  <2>1. PICK new : /\ driver' = [driver EXCEPT ![d] = new]
                   /\ new.exec = p.exec /\ new.seen = row /\ new.pc = pc
    BY <1>2, Admitted
  <2>2. execs' = [execs EXCEPT ![p.exec] = row] /\ UNCHANGED <<jobs, runs>>
    BY <1>2, Admitted
  <2> HIDE DEF row
  <2>3. QED
    BY <2>1, <2>2, CommitOrderly DEF row, Commits
<1>3. QED
  BY <1>1, <1>2

\* A commit of the status alone.
LEMMA StatusCommits ==
    ASSUME IInv, NEW d \in Driver,
           NEW st \in Status \ {"absent", "queued"}, NEW pc \in Destination,
           driver[d].pc \in Driving \ {"scheduled"},
           AdvanceTo(d, st, pc), UNCHANGED jobs,
           \/ UNCHANGED runs
           \/ /\ driver'[d].pc # pc
              /\ runs' = [runs EXCEPT ![driver[d].seen.job] = "failed"],
           driver[d].exec \notin raced => Fits(driver[d], st, pc)
    PROVE  \E want \in Row, at \in Destination : Commits(d, want, at)
<1> DEFINE want == [driver[d].seen EXCEPT !.status = st]
<1>1. want \in Row /\ want.status = st /\ want.job = driver[d].seen.job
  BY Typed DEF Row
<1>2. Advance(d, want, pc)
  BY DEF AdvanceTo
<1> HIDE DEF want
<1>3. Commits(d, want, pc)
  BY <1>1, <1>2 DEF Commits
<1>4. QED
  BY <1>1, <1>3

\* The commits of one step of an execution.
LEMMA StagesCommit ==
    ASSUME IInv, HInv, NEW d \in Driver,
           \/ BeginCollection(d) \/ Interrupted(d) \/ StillRunning(d) \/ Finish(d)
           \/ Close(d) \/ Fetch(d) \/ Validate(d) \/ Ingest(d)
    PROVE  \E want \in Row, at \in Destination : Commits(d, want, at)
<1> DEFINE p == driver[d]
           e == driver[d].exec
<1>1. p.pc \in Driving \ {"scheduled"}
  BY DEF Driving, PC, BeginCollection, Interrupted, StillRunning, Polling, PastTrigger,
     Finish, Close, Fetch, Validate, Ingest, Stage
<1>2. UNCHANGED jobs
  BY DEF BeginCollection, Interrupted, StillRunning, Finish, Close, Fetch, Validate,
     Ingest, Stage
<1>3. /\ {"collecting", "failed", "waiting_provider", "validating", "ingesting",
          "verifying"} \cup Verdict \subseteq Status \ {"absent", "queued"}
      /\ {"triggering", "deciding", "validating", "ingesting", "finalising",
          "verifying"} \subseteq Destination
  BY DEF Status, Active, Verdict, Destination, Driving, PC, Asked
<1>4. ASSUME e \notin raced
      PROVE  Orderly(e) /\ KnownBy(d, e) /\ p.seen \in Row
             /\ execs[e].status \in Status \ {"absent"}
  BY <1>1, <1>4, Held, Typed DEF Row
<1>5. ASSUME e \notin raced \cup shared, PastTrigger(d) \/ p.pc \in Completing \cup Judging
       PROVE  p.seen.status \in Active
  BY <1>5, StillOpen
<1>6. CASE BeginCollection(d)
  <2>1. Fits(p, "collecting", "triggering")
    BY <1>6 DEF BeginCollection, Fits, Active, Verdict, Completing, Judging
  <2>2. QED
    BY <1>1, <1>2, <1>3, <1>6, <2>1, StatusCommits DEF BeginCollection
<1>7. CASE Interrupted(d)
  <2>1. ASSUME e \notin raced
        PROVE  Fits(p, "failed", "deciding")
    <3>1. p.seen = execs[e]
      BY <1>4, <1>7, <2>1 DEF Interrupted, KnownBy, Aware
    <3>2. p.seen.status \in Active
      BY <1>4, <1>7, <2>1, <3>1
         DEF Interrupted, PastTrigger, Status, Verdict, Terminal
    <3>3. QED
      BY <1>7, <3>2 DEF Interrupted, Fits, Completing, Judging
  <2>2. QED
    BY <1>1, <1>2, <1>3, <1>7, <2>1, StatusCommits DEF Interrupted
<1>8. CASE StillRunning(d)
  <2>1. ASSUME e \notin raced
        PROVE  Fits(p, "waiting_provider", "deciding")
    BY <1>5, <1>8, <2>1 DEF StillRunning, Polling, Fits, Verdict, Completing, Judging
  <2>2. QED
    BY <1>1, <1>2, <1>3, <1>8, <2>1, StatusCommits DEF StillRunning
<1>9. CASE Finish(d)
  <2>1. ASSUME e \notin raced
        PROVE  Fits(p, "verifying", "verifying")
    BY <1>4, <1>5, <1>9, <2>1
       DEF Finish, KnownBy, Aware, InTouch, Fits, Active, Verdict, Completing, Judging
  <2>2. QED
    BY <1>1, <1>2, <1>3, <1>9, <2>1, StatusCommits DEF Finish
<1>10. CASE Close(d)
  <2>1. p.verdict \in Verdict
    BY <1>10 DEF Close, IInv, GoodProc
  <2>2. ASSUME e \notin raced
        PROVE  Fits(p, p.verdict, "deciding")
    BY <1>4, <1>5, <1>10, <2>2
       DEF Close, KnownBy, Aware, InTouch, Fits, Completing, Judging
  <2>3. QED
    BY <1>1, <1>2, <1>3, <1>10, <2>1, <2>2, StatusCommits DEF Close
<1>11. ASSUME NEW pc \in {"fetching", "validating", "ingesting"},
              NEW st \in {"waiting_provider", "validating", "ingesting"},
              NEW next \in {"validating", "ingesting", "finalising"},
              Stage(d, pc, st, next)
       PROVE  \E want \in Row, at \in Destination : Commits(d, want, at)
  <2>1. ASSUME e \notin raced
        PROVE  Fits(p, st, next)
    <3>1. p.seen.job # 0
      BY <1>4, <1>11, <2>1 DEF Stage, KnownBy, Aware, Completing
    <3>2. e \notin shared => p.seen.status \in Active
      BY <1>5, <1>11, <2>1 DEF Stage, Completing
    <3>3. QED
      BY <3>1, <3>2 DEF Fits, Active, Verdict, Judging
  <2>2. \/ UNCHANGED runs
        \/ /\ driver'[d].pc # next
           /\ runs' = [runs EXCEPT ![p.seen.job] = "failed"]
    BY <1>11 DEF Stage
  <2>3. QED
    BY <1>1, <1>2, <1>3, <1>11, <2>1, <2>2, StatusCommits DEF Stage
<1>12. QED
  BY <1>6, <1>7, <1>8, <1>9, <1>10, <1>11 DEF Fetch, Validate, Ingest

\* The commit of the provider refs.
LEMMA RecordCommits ==
    ASSUME IInv, HInv, NEW d \in Driver, Record(d)
    PROVE  \E want \in Row, at \in Destination : Commits(d, want, at)
<1> DEFINE p == driver[d]
           want == [p.seen EXCEPT !.status = "waiting_provider", !.job = p.job]
<1>1. /\ p.pc = "recording" /\ UNCHANGED <<jobs, runs>>
      /\ Advance(d, want, "deciding")
  BY DEF Record
<1>2. want \in Row /\ want.status = "waiting_provider" /\ want.job = p.job
  <2>1. p.seen \in Row /\ p.job \in 0 .. MaxJobs
    BY Typed
  <2>2. "waiting_provider" \in Status
    BY DEF Status, Active
  <2> HIDE DEF p
  <2>3. QED
    BY <2>1, <2>2 DEF Row
<1>3. /\ p.pc \in Driving \ {"scheduled"}
      /\ "deciding" \in Destination
      /\ "waiting_provider" \in Status \ {"absent", "queued"}
  BY <1>1 DEF Destination, Driving, PC, Asked, Status, Active
<1>4. ASSUME p.exec \notin raced
      PROVE  Fits(p, "waiting_provider", "deciding")
  <2>1. p.seen.job = 0 /\ p.seen.status = "collecting"
    BY <1>1, <1>3, <1>4, Held DEF KnownBy, Aware, Asked
  <2>2. QED
    BY <2>1 DEF Fits, Active, Verdict, Completing, Judging
<1> HIDE DEF want
<1>5. Commits(d, want, "deciding")
  BY <1>1, <1>2, <1>3, <1>4 DEF Commits
<1>6. QED
  BY <1>2, <1>3, <1>5

LEMMA CommitsOrderly ==
    ASSUME IInv, HInv, IInv', Remember, NEW d \in Driver,
           \/ BeginCollection(d) \/ Interrupted(d) \/ StillRunning(d) \/ Finish(d)
           \/ Close(d) \/ Fetch(d) \/ Validate(d) \/ Ingest(d) \/ Record(d)
    PROVE  HInv'
BY StagesCommit, RecordCommits, AdvanceOrderly

\* The INSERT that wins, and those that do not.
LEMMA InsertOrderly ==
    ASSUME IInv, HInv, IInv', Remember, NEW d \in Driver, Insert(d)
    PROVE  HInv'
<1> DEFINE p == driver[d]
           row == [NoRow EXCEPT !.status = "queued", !.key = p.day]
<1>1. UNCHANGED <<jobs, runs>> /\ p.pc = "claiming" /\ p \in Proc
  BY Typed DEF Insert
<1>2. CASE Goto(d, "relooking") /\ UNCHANGED execs
  BY <1>1, <1>2, LooksOrderly
<1>3. CASE driver' = [driver EXCEPT ![d] = Rest] /\ UNCHANGED execs
  BY <1>1, <1>3, RunsStay, EndsOrderly
<1>4. ASSUME NEW e \in Exec, execs[e].status = "absent",
             NEW pc \in {"scheduled", "stepping"},
             execs' = [execs EXCEPT ![e] = row],
             driver' = [driver EXCEPT ![d] =
                            [p EXCEPT !.exec = e, !.seen = row, !.pc = pc]]
      PROVE  HInv'
  <2> DEFINE new == [p EXCEPT !.exec = e, !.seen = row, !.pc = pc]
  <2>1. row.status = "queued" /\ row.job = 0
    BY DEF NoRow
  <2>2. new.exec = e /\ new.seen = row /\ new.pc = pc
    <3> HIDE DEF row, p
    <3>1. QED
      BY <1>1 DEF Proc
  <2>3. driver' = [driver EXCEPT ![d] = new]
    BY <1>4
  <2> HIDE DEF row, new, p
  <2>4. /\ driver'[d] = new /\ new \in Proc
        /\ \A c \in Driver \ {d} : driver'[c] = driver[c]
    BY <2>3, Typed DEF IInv, TypeOK
  <2>5. /\ execs'[e] = row
        /\ \A f \in Exec \ {e} : execs'[f] = execs[f]
    BY <1>4, Typed
  <2>6. execs[e].job = 0
    BY <1>4 DEF IInv, Untouched, NoRow
  <2>7. Traced(p, new)
    BY <2>1, <2>2, <2>5, <2>6 DEF Traced, Asked
  <2>8. JobsGoOn /\ RowsStand
    BY <1>1, <1>4, <2>5 DEF HInv, JobsGood, JobsGoOn, RowsStand
  <2>9. Orderly(e)'
    <3>1. e \notin shared /\ e \notin raced /\ Orderly(e)
      BY <1>4 DEF HInv, Recalled
    <3>2. \A c \in Driver : Holds(c, e)' => c = d
      <4> SUFFICES ASSUME NEW c \in Driver, c # d, Holds(c, e)' PROVE FALSE
        OBVIOUS
      <4>1. driver[c].exec = e
        BY <2>4 DEF Holds
      <4>2. QED
        BY <1>4, <4>1, Typed DEF IInv, GoodProc
    <3>3. GoodRow(e)'
      BY <1>1, <1>4, <2>1, <2>5, <3>1 DEF Orderly, GoodRow
    <3>4. Settled(e)'
      BY <3>1, <3>2 DEF Settled, Remember, Shared
    <3>5. ASSUME pc = "stepping"
          PROVE  KnownBy(d, e)'
      <4>1. Aware(new, row) /\ InTouch(new, jobs', runs') /\ UpToDate(new, row)
        BY <2>1, <2>2, <3>5
           DEF Aware, InTouch, UpToDate, Asked, Completing, Judging
      <4>2. QED
        BY <2>4, <2>5, <4>1 DEF KnownBy
    <3>6. Holds(d, e)' => pc = "stepping"
      BY <2>2, <2>4 DEF Holds
    <3>7. QED
      BY <3>2, <3>3, <3>4, <3>5, <3>6 DEF Orderly
  <2>10. ASSUME NEW f \in Exec \ raced', f # e
         PROVE  Orderly(f)'
    BY <1>1, <2>2, <2>3, <2>4, <2>5, <2>10, RunsStay, OrderlyStays
  <2>11. JobsGood' /\ \A c \in Driver : driver'[c].pc \in Asked => Unrecorded(c)'
    BY <2>3, <2>4, <2>7, <2>8, JobsKept DEF p
  <2>12. Recalled'
    BY <2>8, RecalledKept
  <2>13. \A f \in Exec \ raced' : Orderly(f)'
    BY <2>9, <2>10
  <2>14. QED
    BY <2>11, <2>12, <2>13 DEF HInv
<1>5. QED
  BY <1>2, <1>3, <1>4 DEF Insert

-----------------------------------------------------------------------------
(* However the drivers interleave, up to a race.                           *)

LEMMA InitOrderly == HistoryInit => IInv /\ HInv
<1> SUFFICES ASSUME HistoryInit PROVE IInv /\ HInv
  OBVIOUS
<1>1. /\ NoRow.status = "absent" /\ NoRow.job = 0
      /\ Rest.exec = 0 /\ Rest.seen.job = 0 /\ Rest.pc = "idle"
  BY DEF NoRow, Rest
<1>2. IInv
  BY Initially DEF HistoryInit
<1>3. \A e \in Exec, d \in Driver : ~ Holds(d, e)
  BY <1>1, Constants DEF HistoryInit, Init, Holds
<1>4. JobsGood
  BY <1>1 DEF HistoryInit, Init, JobsGood, Own
<1>5. \A d \in Driver : driver[d].pc \notin Asked
  BY <1>1 DEF HistoryInit, Init, Asked
<1>6. Recalled
  BY <1>3 DEF HistoryInit, Recalled, Raced, Shared, Blank
<1>7. \A e \in Exec : Orderly(e)
  BY <1>1, <1>3, Constants DEF HistoryInit, Init, Orderly, GoodRow, Settled
<1>8. QED
  BY <1>2, <1>4, <1>5, <1>6, <1>7 DEF HInv

LEMMA NextOrderly == IInv /\ HInv /\ [HistoryNext]_historyVars => IInv' /\ HInv'
<1> SUFFICES ASSUME IInv, HInv, [HistoryNext]_historyVars PROVE IInv' /\ HInv'
  OBVIOUS
<1>1. CASE UNCHANGED historyVars
  <2>1. IInv'
    BY <1>1, StepKeeps DEF historyVars
  <2>2. HInv'
    <3>1. UNCHANGED <<execs, jobs, runs, driver, shared, raced>>
      BY <1>1 DEF historyVars, vars
    <3>2. JobsGood' /\ Recalled'
      BY <3>1 DEF HInv, JobsGood, Own, Recalled, Raced, Shared, Blank, Holds
    <3>3. \A d \in Driver : driver'[d].pc \in Asked => Unrecorded(d)'
      BY <3>1 DEF HInv, Unrecorded, Own
    <3>4. \A e \in Exec \ raced' : Orderly(e)'
      BY <3>1 DEF HInv, Orderly, GoodRow, Settled, Holds, KnownBy
    <3>5. QED
      BY <3>2, <3>3, <3>4 DEF HInv
  <2>3. QED
    BY <2>1, <2>2
<1>2. CASE HistoryNext
  <2>1. IInv' /\ Remember /\ Next
    BY <1>2, StepKeeps DEF HistoryNext
  <2>2. ASSUME NEW d \in Driver, PostRun(d) \/ DailyPipeline(d) \/ DailyRefresh(d)
        PROVE  HInv'
    BY <2>1, <2>2, InvocationsOrderly
  <2>3. ASSUME NEW d \in Driver, Step(d)
        PROVE  HInv'
    BY <2>1, <2>3, ClaimsOrderly, InsertOrderly, CommitsOrderly, CollectsOrderly,
       TriggerOrderly, OpenRunOrderly, EvaluateOrderly,
       DecisionsOrderly DEF Step
  <2>4. ASSUME NEW d \in Driver, Fault(d)
        PROVE  HInv'
    BY <2>1, <2>4, FaultOrderly
  <2>5. CASE Complete
    BY <2>1, <2>5, CompleteOrderly
  <2>6. QED
    BY <2>1, <2>2, <2>3, <2>4, <2>5 DEF Next
<1>3. QED
  BY <1>1, <1>2

\* The history variables only watch: every behaviour with them is one of the
\* program, in which executor.py's steps are as they are.
THEOREM HistoryObserves == HistorySpec => Spec
<1>1. HistoryInit => Init
  BY DEF HistoryInit
<1>2. [HistoryNext]_historyVars => [Next]_vars
  BY DEF HistoryNext, historyVars, vars
<1>3. QED
  BY <1>1, <1>2, PTL DEF HistorySpec, Spec

\* What the drivers of an execution know of it, up to a race.
THEOREM OrderlyInvariant == HistorySpec => [](IInv /\ HInv)
<1>1. QED
  BY InitOrderly, NextOrderly, PTL DEF HistorySpec

\* One logical execution, at most one provider job (executor.py), whoever dies
\* or joins, unless two drivers held it before either knew of one.
THEOREM JobsAreTriggeredOnce == HistorySpec => []OneProviderJob
<1>1. IInv /\ HInv => OneProviderJob
  <2> SUFFICES ASSUME IInv, HInv, NEW j \in Job, NEW k \in Job,
                      jobs[j].of \notin {0} \cup raced, jobs[j].of = jobs[k].of
               PROVE  j = k
    BY DEF OneProviderJob
  <2>1. jobs[j].of \in Exec
    <3>1. jobs[j].of \in 0 .. MaxExecs
      BY Typed DEF JobRow
    <3>2. QED
      BY <3>1, ExecutorAssumption DEF Exec
  <2>2. QED
    BY <2>1 DEF HInv, Orderly, GoodRow
<1>2. QED
  BY <1>1, OrderlyInvariant, PTL

\* Local patience is not provider failure (executor.py): a recorded collection
\* that still runs leaves its execution active, drivers with stale copies of
\* the row or not.
THEOREM CollectionsAreKept == HistorySpec => []JobNotAbandoned
<1>1. IInv /\ HInv => JobNotAbandoned
  BY DEF HInv, Orderly, GoodRow, JobNotAbandoned
<1>2. QED
  BY <1>1, OrderlyInvariant, PTL

\* A completed execution recorded a job of its own, whose run is over
\* (_finish_pipeline_run, after _complete_collection or an earlier driver's).
THEOREM VerdictsAreEarned == HistorySpec => []CompletedIsCollected
<1>1. IInv /\ HInv => CompletedIsCollected
  BY DEF HInv, Orderly, GoodRow, JobsGood, Own, CompletedIsCollected, Finished
<1>2. QED
  BY <1>1, OrderlyInvariant, PTL

-----------------------------------------------------------------------------
(* The executor implements the contract of an execution.                   *)

\* What the contract sees of a row.
StageOf(row) ==
    CASE row.status = "absent" -> "none"
      [] row.status \in Verdict -> "decided"
      [] OTHER -> IF row.job = 0 THEN "claimed" ELSE "collecting"

stages == [e \in Exec |-> ContractStage(e)]
collections == [e \in Exec |-> execs[e].job]
holds == [e \in Exec |-> ContractHold(e)]

\* The stage of a row, by its status and its job.
LEMMA StageOfRow ==
    ASSUME NEW row \in Row
    PROVE  /\ row.status = "absent" => StageOf(row) = "none"
           /\ row.status \in Verdict => StageOf(row) = "decided"
           /\ row.status \in Active /\ row.job = 0 => StageOf(row) = "claimed"
           /\ row.status \in Active /\ row.job # 0 => StageOf(row) = "collecting"
BY DEF Row, Status, StageOf, Active, Verdict

\* What the contract sees of a step that writes one row.
LEMMA RowSeen ==
    ASSUME IInv, NEW e \in Exec, NEW row \in Row, execs' = [execs EXCEPT ![e] = row]
    PROVE  /\ stages[e] = StageOf(execs[e]) /\ collections[e] = execs[e].job
           /\ stages' = [stages EXCEPT ![e] = StageOf(row)]
           /\ collections' = [collections EXCEPT ![e] = row.job]
<1>1. \A f \in Exec : ContractStage(f) = StageOf(execs[f])
  BY DEF ContractStage, StageOf
<1>2. \A f \in Exec : ContractStage(f)' = StageOf(execs'[f])
  BY DEF ContractStage, StageOf
<1>3. execs'[e] = row /\ \A f \in Exec \ {e} : execs'[f] = execs[f]
  BY DEF IInv, TypeOK
<1>4. stages' = [f \in Exec |-> StageOf(execs'[f])]
  BY <1>2 DEF stages
<1>5. stages = [f \in Exec |-> StageOf(execs[f])]
  BY <1>1 DEF stages
<1>6. stages' = [stages EXCEPT ![e] = StageOf(row)]
  BY <1>3, <1>4, <1>5
<1>7. collections' = [collections EXCEPT ![e] = row.job]
  <2>1. collections' = [f \in Exec |-> execs'[f].job]
    BY DEF collections
  <2>2. \A f \in Exec : execs'[f].job = IF f = e THEN row.job ELSE execs[f].job
    BY <1>3
  <2>3. collections' = [f \in Exec |-> IF f = e THEN row.job ELSE execs[f].job]
    BY <2>1, <2>2
  <2>4. QED
    BY <2>3 DEF collections
<1>8. QED
  BY <1>5, <1>6, <1>7 DEF collections

\* A row that is active is open.
LEMMA OpenRow ==
    ASSUME IInv, NEW e \in Exec
    PROVE  /\ execs[e].status \in Active => e \in Contract!Open
           /\ e \in Contract!Open => execs[e].status \in Active
<1>1. ContractStage(e) = StageOf(execs[e]) /\ execs[e] \in Row
  BY DEF ContractStage, StageOf, IInv, TypeOK
<1>2. execs[e].status \in Active \/ execs[e].status \in Verdict \cup {"absent"}
  BY <1>1 DEF Row, Status
<1>3. QED
  BY <1>1, <1>2, StageOfRow DEF Contract!Open

\* How the contract sees that an execution is held.
LEMMA HoldOf ==
    ASSUME Recalled, NEW e \in Exec
    PROVE  /\ e \in raced => holds[e] = "raced"
           /\ e \in shared \ raced => holds[e] = "shared"
           /\ e \notin shared => holds[e] = "sole"
BY DEF Recalled, holds, ContractHold

\* A step of the contract, or none.
Allowed == Contract!Next \/ UNCHANGED Contract!contractVars

LEMMA AllowedSteps ==
    ASSUME NEW e \in Exec,
           \/ Contract!Claim(e) \/ Contract!Collect(e) \/ Contract!Decide(e)
           \/ Contract!Share(e) \/ Contract!Reopen(e) \/ Contract!Wander(e)
    PROVE  Allowed
BY DEF Allowed, Contract!Next

LEMMA Unseen ==
    ASSUME stages' = stages, collections' = collections, holds' = holds
    PROVE  Allowed
BY DEF Allowed, Contract!contractVars, stages, collections, holds

\* A driver that moves while the rows stay may share its execution, and race.
LEMMA DriverSeen ==
    ASSUME IInv, HInv, HInv', Remember, NEW d \in Driver, NEW new,
           driver' = [driver EXCEPT ![d] = new], UNCHANGED execs
    PROVE  Allowed
<1> DEFINE e == new.exec
<1>1. /\ driver'[d] = new
      /\ \A c \in Driver \ {d} : driver'[c] = driver[c]
  BY Typed
<1>2. /\ Recalled /\ Recalled'
      /\ shared' = shared \cup Shared' /\ raced' = raced \cup Raced'
  BY DEF HInv, Remember
<1>3. stages' = stages /\ collections' = collections
  <2>1. \A f \in Exec : ContractStage(f)' = ContractStage(f)
    BY DEF ContractStage
  <2>2. QED
    BY <2>1 DEF stages, collections
<1>4. \A f \in Exec \ {e} : /\ f \in shared' <=> f \in shared
                            /\ f \in raced' <=> f \in raced
  <2>1. ASSUME NEW f \in Exec, f # e
        PROVE  /\ f \in Shared' => f \in Shared
               /\ f \in Raced' => f \in Raced
    <3>1. ~ Holds(d, f)'
      BY <1>1, <2>1 DEF Holds
    <3>2. \A c \in Driver : /\ Holds(c, f)' => c # d /\ Holds(c, f)
                            /\ Blank(c, f)' => Blank(c, f)
      BY <1>1, <3>1 DEF Holds, Blank
    <3>3. QED
      BY <3>2 DEF Shared, Raced, Blank
  <2>2. QED
    BY <1>2, <2>1 DEF Recalled
<1>5. \A f \in Exec \ {e} : holds'[f] = holds[f]
  BY <1>4 DEF holds, ContractHold
<1>6. CASE e \notin Exec
  BY <1>3, <1>5, <1>6, Unseen DEF holds
<1>7. CASE e \in Exec
  <2>1. holds' = [holds EXCEPT ![e] = holds'[e]]
    BY <1>5, <1>7 DEF holds
  <2>2. CASE e \in raced
    <3>1. holds'[e] = "raced" /\ holds[e] = "raced"
      BY <1>2, <1>7, <2>2, HoldOf DEF holds, ContractHold
    <3>2. QED
      BY <1>3, <2>1, <3>1, Unseen DEF holds
  <2>3. CASE e \notin raced /\ e \in raced'
    <3>1. Orderly(e)
      BY <1>7, <2>3 DEF HInv
    <3>2. PICK v \in Driver, w \in Driver : v # w /\ Blank(v, e)' /\ Blank(w, e)'
      BY <1>2, <2>3 DEF Raced
    <3>3. PICK c \in Driver : c # d /\ Blank(c, e)'
      BY <3>2
    <3>4. Holds(c, e) /\ Blank(c, e)
      BY <1>1, <3>3 DEF Blank, Holds
    <3>5. execs[e].job = 0 /\ execs[e].status \in Active
      BY <3>1, <3>4 DEF Orderly, KnownBy, Aware, Blank
    <3>6. stages[e] = "claimed"
      <4>1. ContractStage(e) = StageOf(execs[e]) /\ execs[e] \in Row
        BY <1>7, Typed DEF ContractStage, StageOf
      <4>2. QED
        BY <1>7, <3>5, <4>1, StageOfRow DEF stages
    <3>7. holds'[e] = "raced" /\ holds[e] # "raced"
      <4>1. holds'[e] = "raced"
        BY <1>7, <2>3 DEF holds, ContractHold
      <4>2. holds[e] \in {"shared", "sole"}
        BY <1>2, <1>7, <2>3, HoldOf
      <4>3. QED
        BY <4>1, <4>2
    <3>8. Contract!Share(e)
      BY <1>3, <2>1, <3>6, <3>7 DEF Contract!Share, stages, collections, holds
    <3>9. QED
      BY <1>7, <3>8, AllowedSteps
  <2>4. CASE e \notin raced' /\ e \notin shared /\ e \in shared'
    <3>1. Settled(e)' /\ execs'[e].status # "absent"
      BY <1>2, <1>7, <2>4 DEF HInv, Orderly, Recalled
    <3>2. stages[e] # "claimed"
      <4>1. ContractStage(e) = StageOf(execs[e]) /\ execs[e] \in Row
        BY <1>7, Typed DEF ContractStage, StageOf
      <4>2. execs[e].job # 0 \/ execs[e].status \in Verdict
        BY <2>4, <3>1 DEF Settled
      <4>3. stages[e] \in {"none", "decided", "collecting"}
        BY <1>7, <4>1, <4>2 DEF stages, StageOf
      <4>4. QED
        BY <4>3
    <3>3. holds'[e] = "shared" /\ holds[e] = "sole"
      BY <1>2, <1>7, <2>4, HoldOf DEF holds, ContractHold, Recalled
    <3>4. Contract!Share(e)
      BY <1>3, <2>1, <3>2, <3>3 DEF Contract!Share, stages, collections, holds
    <3>5. QED
      BY <1>7, <3>4, AllowedSteps
  <2>5. CASE e \notin raced' /\ (e \in shared \/ e \notin shared')
    <3>1. holds'[e] = holds[e]
      BY <1>2, <1>7, <2>5 DEF holds, ContractHold
    <3>2. QED
      BY <1>3, <2>1, <3>1, Unseen DEF holds
  <2>6. QED
    BY <2>2, <2>3, <2>4, <2>5
<1>8. QED
  BY <1>6, <1>7

\* A commit lets nobody else in.
LEMMA CommitHolds ==
    ASSUME IInv, HInv, HInv', Remember, NEW d \in Driver, NEW want \in Row,
           NEW pc \in Destination, Commits(d, want, pc), NEW row, NEW new,
           row = Merge(execs[driver[d].exec], driver[d].seen, want),
           execs' = [execs EXCEPT ![driver[d].exec] = row],
           driver' = [driver EXCEPT ![d] = new],
           new.exec = driver[d].exec, new.seen = row, new.pc = pc
    PROVE  holds' = holds
<1> DEFINE e == driver[d].exec
<1>1. /\ driver[d].pc \in Driving \ {"scheduled"}
      /\ e \in Exec /\ execs[e] \in Row /\ execs[e].status # "absent"
  BY Held DEF Commits
<1>2. /\ driver'[d] = new
      /\ \A c \in Driver \ {d} : driver'[c] = driver[c]
  BY Typed
<1>3. \A c \in Driver, f \in Exec : Holds(c, f)' <=> Holds(c, f)
  BY <1>1, <1>2 DEF Holds, Destination
<1>4. shared' = shared
  <2>1. Shared' = Shared
    BY <1>3 DEF Shared
  <2>2. QED
    BY <2>1 DEF Remember, HInv, Recalled
<1>5. ASSUME NEW f \in Exec, f \in raced', f \notin raced
      PROVE  FALSE
  <2>1. PICK v \in Driver, w \in Driver : v # w /\ Blank(v, f)' /\ Blank(w, f)'
    BY <1>5 DEF Remember, Raced
  <2>2. Holds(v, f) /\ Holds(w, f) /\ Orderly(f)
    BY <1>3, <1>5, <2>1 DEF Blank, HInv
  <2>3. CASE f # e
    <3>1. v # d /\ w # d
      BY <2>2, <2>3 DEF Holds
    <3>2. Blank(v, f) /\ Blank(w, f)
      BY <1>2, <2>1, <2>2, <3>1 DEF Blank
    <3>3. QED
      BY <1>5, <2>1, <3>2 DEF HInv, Recalled, Raced
  <2>4. CASE f = e
    <3>1. PICK c \in Driver : c # d /\ Blank(c, e)' /\ Holds(c, e)
      BY <2>1, <2>2, <2>4
    <3>2. driver[c].seen.job = 0
      BY <1>2, <3>1 DEF Blank
    <3>3. execs[e].job = 0 /\ Holds(d, e)
      BY <1>1, <2>2, <2>4, <3>1, <3>2 DEF Orderly, KnownBy, Aware, Holds
    <3>4. \/ execs[e].job = 0 /\ execs[e].status \in Active
          \/ execs[e].job # 0
      <4>1. Fits(driver[d], want.status, pc)
        BY <1>5, <2>4 DEF Commits
      <4>2. Aware(driver[d], execs[e])
        BY <2>2, <2>4, <3>3 DEF Orderly, KnownBy
      <4>3. QED
        BY <4>1, <4>2 DEF Fits, Aware
    <3>5. QED
      BY <1>1, <1>5, <2>4, <3>1, <3>3, <3>4, Alone
  <2>5. QED
    BY <2>3, <2>4
<1>6. raced' = raced
  BY <1>4, <1>5 DEF Remember, HInv, Recalled
<1>7. QED
  BY <1>4, <1>6 DEF holds, ContractHold

\* A commit decides the execution, gives it its collection, or is not seen;
\* one that shares its execution may open it again; after a race, anything.
LEMMA CommitSeen ==
    ASSUME IInv, HInv, IInv', HInv', Remember, NEW d \in Driver, NEW want \in Row,
           NEW pc \in Destination, Commits(d, want, pc)
    PROVE  Allowed
<1>0. driver[d].exec \in Exec
  BY Held DEF Commits
<1> PICK e \in Exec : e = driver[d].exec
  BY <1>0
<1> DEFINE p == driver[d]
           row == Merge(execs[p.exec], p.seen, want)
<1>1. CASE Refused(e, row)
  <2>1. /\ UNCHANGED execs
        /\ \/ driver' = [driver EXCEPT ![d] = Rest]
           \/ driver' = [driver EXCEPT ![d] = Return(p)]
    BY <1>1 DEF Commits, Advance
  <2>2. QED
    BY <2>1, DriverSeen
<1>2. CASE ~ Refused(e, row)
  <2>1. /\ execs' = [execs EXCEPT ![e] = row]
        /\ UNCHANGED <<jobs, runs>>
    BY <1>2, Admitted
  <2>2. holds' = holds
    <3>1. PICK new : /\ driver' = [driver EXCEPT ![d] = new]
                     /\ new.exec = p.exec /\ new.seen = row /\ new.pc = pc
      BY <1>2, Admitted
    <3> HIDE DEF row
    <3>2. QED
      BY <2>1, <3>1, CommitHolds DEF row
  <2>3. /\ p.pc \in Driving \ {"scheduled"} /\ e \in Exec
        /\ execs[e] \in Row /\ execs[e].status # "absent"
        /\ p.seen \in Row
    BY Held, Typed DEF Commits
  <2>4. /\ row \in Row /\ row.status \in Active \cup Verdict
        /\ row.status = IF want.status = p.seen.status THEN execs[e].status
                        ELSE want.status
        /\ row.job = IF want.job = p.seen.job THEN execs[e].job ELSE want.job
    BY <2>3, Merged DEF Commits, Row, Status
  <2> HIDE DEF row
  <2>5. /\ stages[e] = StageOf(execs[e]) /\ collections[e] = execs[e].job
        /\ stages' = [stages EXCEPT ![e] = StageOf(row)]
        /\ collections' = [collections EXCEPT ![e] = row.job]
    BY <2>1, <2>3, <2>4, RowSeen
  <2>6. row.status \in Active => Contract!OnlyOpen(e)
    <3>1. row.status \in Active => ActiveExecs \subseteq {e}
      BY <1>2 DEF Refused, Indexed
    <3>2. QED
      BY <3>1, OpenRow DEF Contract!OnlyOpen, ActiveExecs, Contract!Open
  <2>7. \A f \in Exec \ {e} : row.job # 0 => execs[f].job # row.job
    <3>1. execs'[e] = row /\ \A f \in Exec \ {e} : execs'[f] = execs[f]
      BY <2>1, <2>3, Typed
    <3>2. QED
      BY <2>3, <3>1 DEF HInv, JobsGood, Own
  <2>8. /\ row.status \in Verdict => StageOf(row) = "decided"
        /\ row.status \in Active => StageOf(row) =
               IF row.job = 0 THEN "claimed" ELSE "collecting"
        /\ execs[e].status \in Verdict => stages[e] = "decided"
        /\ execs[e].status \in Active => stages[e] =
               IF execs[e].job = 0 THEN "claimed" ELSE "collecting"
        /\ execs[e].status \in Active \cup Verdict
    BY <2>3, <2>4, <2>5, StageOfRow DEF Row, Status
  <2>9. row.job = execs[e].job => collections' = collections
    BY <2>5 DEF collections
  <2>10. StageOf(row) = stages[e] => stages' = stages
    BY <2>5 DEF stages
  <2>11. CASE e \in raced
    <3>1. holds[e] = "raced"
      BY <2>3, <2>11, HoldOf DEF HInv
    <3>2. row.job \in Job \cup {0}
      BY <2>4, Typed DEF Row
    <3>3. row.job # 0 => Contract!IsNobodyElses(e, row.job)
      BY <2>7 DEF Contract!IsNobodyElses
    <3>4. \E s \in {"claimed", "collecting", "decided"} :
              /\ s # "decided" => Contract!OnlyOpen(e)
              /\ stages' = [stages EXCEPT ![e] = s]
      BY <2>4, <2>5, <2>6, <2>8
    <3>5. Contract!Wander(e)
      BY <2>2, <2>5, <3>1, <3>2, <3>3, <3>4
         DEF Contract!Wander, stages, collections, holds
    <3>6. QED
      BY <3>5, AllowedSteps
  <2>12. CASE e \notin raced
    <3>1. /\ KnownBy(d, e) /\ Orderly(e) /\ Fits(p, want.status, pc)
      BY <2>3, <2>12, Held DEF Commits
    <3>2. \/ /\ execs[e].job = 0 /\ execs[e].status \in Active /\ execs[e] = p.seen
             /\ row.status = want.status /\ row.job = want.job
          \/ /\ execs[e].job # 0
             /\ p.seen.job = row.job /\ row.job = execs[e].job
      BY <2>3, <2>12, <3>1, RowCommitted DEF Commits, row
    <3>3. CASE row.job = execs[e].job /\ row.status \in Verdict
      <4>1. CASE execs[e].status \in Verdict
        BY <2>2, <2>8, <2>9, <2>10, <3>3, <4>1, Unseen
      <4>2. CASE execs[e].status \in Active
        <5>1. e \in Contract!Open
          BY <2>3, <4>2, OpenRow
        <5>2. Contract!Decide(e)
          BY <2>2, <2>5, <2>8, <2>9, <3>3, <5>1
             DEF Contract!Decide, stages, collections, holds
        <5>3. QED
          BY <2>3, <5>2, AllowedSteps
      <4>3. QED
        BY <2>8, <4>1, <4>2
    <3>4. CASE row.job = execs[e].job /\ row.status \in Active
      <4>1. CASE execs[e].status \in Active
        BY <2>2, <2>8, <2>9, <2>10, <3>4, <4>1, Unseen
      <4>2. CASE execs[e].status \in Verdict
        <5>1. execs[e].status \notin Active
          BY <4>2 DEF Verdict, Active
        <5>2. execs[e].job # 0
          BY <3>2, <5>1
        <5>3. e \in shared
          BY <3>1, <5>1 DEF Fits, KnownBy, UpToDate
        <5>4. holds[e] = "shared"
          BY <2>3, <2>12, <5>3, HoldOf DEF HInv
        <5>5. /\ stages[e] = "decided" /\ StageOf(row) = "collecting"
          BY <2>8, <3>4, <4>2, <5>2
        <5>6. Contract!Reopen(e)
          BY <2>2, <2>5, <2>6, <2>9, <3>4, <5>4, <5>5
             DEF Contract!Reopen, stages, collections, holds
        <5>7. QED
          BY <2>3, <5>6, AllowedSteps
      <4>3. QED
        BY <2>8, <4>1, <4>2
    <3>5. CASE row.job # execs[e].job
      <4>1. /\ execs[e].job = 0 /\ execs[e].status \in Active /\ p.seen.job = 0
            /\ row.status = want.status /\ row.job = want.job
        BY <3>2, <3>5
      <4>2. /\ p.pc \in Asked /\ row.job = p.job /\ row.status = "waiting_provider"
        BY <3>5, <4>1 DEF Commits, Asked
      <4>3. Unrecorded(d) /\ row.job \in Job /\ row.job # 0
        BY <3>5, <4>1, <4>2, Typed DEF HInv
      <4>4. \A f \in Exec : collections[f] # row.job
        BY <4>2, <4>3 DEF Unrecorded, collections
      <4>5. /\ stages[e] = "claimed" /\ StageOf(row) = "collecting"
        BY <2>8, <4>1, <4>2, <4>3 DEF Active
      <4>6. Contract!Collect(e)
        BY <2>2, <2>5, <4>3, <4>4, <4>5 DEF Contract!Collect, stages, collections, holds
      <4>7. QED
        BY <4>6, AllowedSteps
    <3>6. QED
      BY <2>4, <3>3, <3>4, <3>5
  <2>13. QED
    BY <2>11, <2>12
<1>3. QED
  BY <1>1, <1>2

\* The INSERT that wins is a claim.
LEMMA InsertSeen ==
    ASSUME IInv, HInv, IInv', HInv', Remember, NEW d \in Driver, Insert(d)
    PROVE  Allowed
<1>1. CASE UNCHANGED execs
  <2>1. PICK new : driver' = [driver EXCEPT ![d] = new]
    <3>1. CASE Goto(d, "relooking")
      BY <3>1, Typed DEF Goto
    <3>2. CASE ~ Goto(d, "relooking")
      BY <3>2 DEF Insert
    <3>3. QED
      BY <3>1, <3>2
  <2>2. QED
    BY <1>1, <2>1, DriverSeen
<1>2. ASSUME NEW e \in Exec, Indexed = {}, execs[e].status = "absent",
             NEW row, row = [NoRow EXCEPT !.status = "queued", !.key = driver[d].day],
             execs' = [execs EXCEPT ![e] = row],
             NEW pc \in {"scheduled", "stepping"},
             driver' = [driver EXCEPT ![d] =
                 [driver[d] EXCEPT !.exec = e, !.seen = row, !.pc = pc]]
      PROVE  Allowed
  <2>1. row.status = "queued" /\ row.job = 0 /\ row \in Row
    <3>1. row.status = "queued" /\ row.job = 0
      BY <1>2 DEF NoRow
    <3>2. row = execs'[e]
      BY <1>2, Typed
    <3>3. QED
      BY <1>2, <3>1, <3>2 DEF IInv, TypeOK
  <2>2. execs[e] \in Row /\ execs[e] = NoRow
    BY <1>2 DEF IInv, TypeOK, Untouched
  <2>3. /\ stages[e] = "none" /\ collections[e] = 0
        /\ stages' = [stages EXCEPT ![e] = "claimed"]
        /\ collections' = [collections EXCEPT ![e] = 0]
    <3>1. StageOf(execs[e]) = "none" /\ execs[e].job = 0
      BY <1>2, <2>2, StageOfRow DEF NoRow
    <3>2. StageOf(row) = "claimed"
      BY <2>1, StageOfRow DEF Active
    <3>3. QED
      BY <1>2, <2>1, <3>1, <3>2, RowSeen
  <2>4. collections' = collections
    BY <2>3 DEF collections
  <2>5. Contract!Open = {}
    BY <1>2, OpenRow DEF Indexed, ActiveExecs, Contract!Open
  <2>6. holds' = holds
    <3>1. /\ \A c \in Driver \ {d} : driver'[c] = driver[c]
          /\ driver'[d].exec = e
      <4>1. driver[d] \in Proc
        BY Typed
      <4>2. [driver[d] EXCEPT !.exec = e, !.seen = row, !.pc = pc].exec = e
        BY <4>1 DEF Proc
      <4>3. QED
        BY <1>2, <4>2, Typed
    <3>2. \A c \in Driver : ~ Holds(c, e)
      BY <1>2, Typed DEF Holds, IInv, GoodProc
    <3>3. \A c \in Driver, f \in Exec : Holds(c, f)' => Holds(c, f) \/ (c = d /\ f = e)
      BY <3>1 DEF Holds
    <3>4. \A c \in Driver, f \in Exec \ {e} : Blank(c, f)' => Blank(c, f)
      BY <3>1 DEF Blank, Holds
    <3>5. Shared' \subseteq Shared
      BY <3>2, <3>3 DEF Shared
    <3>6. Raced' \subseteq Raced
      <4>1. e \notin Raced'
        BY <3>2, <3>3 DEF Raced, Blank
      <4>2. QED
        BY <3>4, <4>1 DEF Raced
    <3>7. shared' = shared /\ raced' = raced
      BY <3>5, <3>6 DEF Remember, HInv, Recalled
    <3>8. QED
      BY <3>7 DEF holds, ContractHold
  <2>7. Contract!Claim(e)
    BY <2>3, <2>4, <2>5, <2>6 DEF Contract!Claim, stages, collections, holds
  <2>8. QED
    BY <2>7, AllowedSteps
<1>3. CASE ~ UNCHANGED execs
  <2> DEFINE row == [NoRow EXCEPT !.status = "queued", !.key = driver[d].day]
  <2>1. PICK e \in Exec :
            /\ Indexed = {} /\ execs[e].status = "absent"
            /\ execs' = [execs EXCEPT ![e] = row]
            /\ driver' = [driver EXCEPT ![d] =
                 [driver[d] EXCEPT !.exec = e, !.seen = row,
                    !.pc = IF driver[d].kind = "once" THEN "scheduled" ELSE "stepping"]]
    BY <1>3 DEF Insert
  <2> HIDE DEF row
  <2>2. CASE driver[d].kind = "once"
    BY <1>2, <2>1, <2>2 DEF row
  <2>3. CASE driver[d].kind # "once"
    BY <1>2, <2>1, <2>3 DEF row
  <2>4. QED
    BY <2>2, <2>3
<1>4. QED
  BY <1>1, <1>3

\* Every step of the executor is a step of the contract, or none.
LEMMA StepSeen == IInv /\ HInv /\ [HistoryNext]_historyVars => Allowed
<1> SUFFICES ASSUME IInv, HInv, [HistoryNext]_historyVars PROVE Allowed
  OBVIOUS
<1>1. IInv' /\ HInv'
  BY NextOrderly
<1>2. CASE UNCHANGED historyVars
  <2>1. UNCHANGED <<execs, shared, raced>>
    BY <1>2 DEF historyVars, vars
  <2>2. QED
    BY <2>1, Unseen DEF stages, collections, holds, ContractStage, ContractHold
<1>3. ASSUME Remember, Next
      PROVE  Allowed
  <2>1. ASSUME NEW d \in Driver, Insert(d)
        PROVE  Allowed
    BY <1>1, <1>3, <2>1, InsertSeen
  <2>2. ASSUME NEW d \in Driver,
               \/ BeginCollection(d) \/ Interrupted(d) \/ StillRunning(d) \/ Finish(d)
               \/ Close(d) \/ Fetch(d) \/ Validate(d) \/ Ingest(d) \/ Record(d)
        PROVE  Allowed
    <3>1. PICK want \in Row, pc \in Destination : Commits(d, want, pc)
      BY <2>2, StagesCommit, RecordCommits
    <3>2. QED
      BY <1>1, <1>3, <3>1, CommitSeen
  <2>3. ASSUME NEW d \in Driver, UNCHANGED execs,
               \E new : driver' = [driver EXCEPT ![d] = new]
        PROVE  Allowed
    BY <1>1, <1>3, <2>3, DriverSeen
  <2>4. ASSUME NEW d \in Driver,
               \/ PostRun(d) \/ DailyPipeline(d) \/ DailyRefresh(d) \/ Fault(d)
               \/ Select(d) \/ LookUp(d) \/ LookAgain(d) \/ Execute(d)
               \/ Trigger(d) \/ TriggerFails(d) \/ OpenRun(d) \/ Collected(d)
               \/ CollectionFails(d) \/ Finalise(d) \/ Rejudge(d) \/ Evaluate(d)
               \/ AlreadyDecided(d) \/ Decide(d)
        PROVE  Allowed
    <3>1. UNCHANGED execs
      BY <2>4 DEF PostRun, DailyPipeline, DailyRefresh, Fault, Select, LookUp, LookAgain,
         Execute, Trigger, TriggerFails, OpenRun, Collected, CollectionFails, Finalise,
         Rejudge, Evaluate, AlreadyDecided, Decide
    <3>2. \E new : driver' = [driver EXCEPT ![d] = new]
      BY <2>4 DEF PostRun, DailyPipeline, DailyRefresh, Fault, Select, LookUp, LookAgain,
         Execute, Trigger, TriggerFails, OpenRun, Collected, CollectionFails, Finalise,
         Rejudge, Evaluate, AlreadyDecided, Decide, Join, Goto
    <3>3. QED
      BY <2>3, <3>1, <3>2
  <2>5. CASE Complete
    <3>1. UNCHANGED <<execs, driver>>
      BY <2>5 DEF Complete
    <3>2. Shared' = Shared /\ Raced' = Raced
      BY <3>1 DEF Shared, Raced, Blank, Holds
    <3>3. shared' = shared /\ raced' = raced
      BY <1>3, <3>2 DEF Remember, HInv, Recalled
    <3>4. QED
      BY <3>1, <3>3, Unseen DEF stages, collections, holds, ContractStage, ContractHold
  <2>6. QED
    BY <1>3, <2>1, <2>2, <2>4, <2>5 DEF Next, Step
<1>4. QED
  BY <1>2, <1>3 DEF HistoryNext

\* One execution open at a time, one collection or none for each, never another
\* execution's and never another one later, and decided once, of an execution
\* one driver at a time holds; and what is left of that of the others.
THEOREM ContractImplemented == HistorySpec => ImplementsContract
<1>1. HistoryInit => Contract!Init
  <2> SUFFICES ASSUME HistoryInit PROVE Contract!Init
    OBVIOUS
  <2>1. \A e \in Exec : execs[e] = NoRow /\ execs[e].job = 0
    BY DEF HistoryInit, Init, NoRow
  <2>2. ASSUME NEW e \in Exec
        PROVE  ContractStage(e) = "none" /\ ContractHold(e) = "sole"
    <3>1. ContractStage(e) = StageOf(execs[e])
      BY DEF ContractStage, StageOf
    <3>2. StageOf(NoRow) = "none"
      BY Constants, StageOfRow DEF NoRow
    <3>3. ContractHold(e) = "sole"
      BY DEF HistoryInit, ContractHold
    <3>4. QED
      BY <2>1, <3>1, <3>2, <3>3
  <2>3. QED
    BY <2>1, <2>2 DEF Contract!Init
<1>2. IInv /\ HInv /\ [HistoryNext]_historyVars
          => [Contract!Next]_(Contract!contractVars)
  BY StepSeen DEF Allowed
<1>3. QED
  BY <1>1, <1>2, OrderlyInvariant, PTL DEF HistorySpec, ImplementsContract, Contract!Spec
=============================================================================
