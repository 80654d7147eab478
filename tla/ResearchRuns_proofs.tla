------------------------- MODULE ResearchRuns_proofs -------------------------
(***************************************************************************)
(* Proofs about ResearchRuns, for every set of requests, every number of   *)
(* runs and of faults, and either kind of subject: its type invariant, its *)
(* four safety invariants and its two action properties.  The mirror on an *)
(* investigation has an invariant of its own, over that of the runs.  No   *)
(* fairness is used.                                                       *)
(***************************************************************************)
EXTENDS ResearchRuns, TLAPS

-----------------------------------------------------------------------------
(* The inductive invariant.                                                *)

\* A run is submitted once, an executor exists from then on, and as long as
\* somebody attends to a run that has not outlived its budget it is in flight.
GoodRun(r) ==
    /\ launched[r] = IF executor[r] = "none" THEN 0 ELSE 1
    /\ runs[r].status = "absent" => executor[r] = "none" /\ r \notin stale
    /\ Attended(r) /\ r \notin outlived => runs[r].status \in Active
    /\ Attended(r) => r \notin stale \ outlived

\* The row reconcile_stale_runs leaves.
Interrupted == [status |-> "failed", reason |-> "retryable"]

\* A request holds a run only between its INSERT and its submission, and what
\* it took for abandoned is still, or has been failed by another request.
GoodRequest(q) ==
    /\ requester[q].pc = "submitting" <=> requester[q].run # 0
    /\ requester[q].run # 0 => /\ runs[requester[q].run].status # "absent"
                               /\ executor[requester[q].run] = "none"
    /\ requester[q].seen \subseteq stale
    /\ \A r \in requester[q].seen \ outlived :
          runs[r].status \in Active \/ runs[r] = Interrupted

\* No two requests hold the same run.
ClaimsAreOwned ==
    \A p, q \in Requester :
        requester[p].run # 0 /\ requester[p].run = requester[q].run => p = q

IInv ==
    /\ TypeOK
    /\ OneActiveRun
    /\ \A r \in Run : GoodRun(r)
    /\ \A q \in Requester : GoodRequest(q)
    /\ ClaimsAreOwned

-----------------------------------------------------------------------------
(* Lemmas about one step.                                                  *)

\* The values the model starts from, and the one reconciliation leaves, are typed.
LEMMA Constants ==
    /\ Rest \in Req
    /\ \A r \in Run : r \in Nat \ {0}
    /\ NoRow \in Row /\ Interrupted \in Row
<1>1. Rest \in Req
  BY ResearchAssumption DEF Rest, Req, ReqPC
<1>2. \A r \in Run : r \in Nat \ {0}
  BY DEF Run
<1>3. NoRow \in Row /\ Interrupted \in Row
  BY DEF NoRow, Interrupted, Row, Reason, Active, Ended
<1>4. QED
  BY <1>1, <1>2, <1>3

\* What set_run_status leaves of the subject.
LEMMA MirrorTyped ==
    ASSUME subject \in Subject, NEW status \in Active \cup Ended
    PROVE  Mirrored(status) \in Subject
BY DEF Mirrored, MirrorOf, Subject, SubjectStatus, Active, Ended

\* The variables a step of a request that claims nothing leaves alone.
others == <<runs, executor, stale, outlived, launched>>

\* A request moves on, with nothing claimed and nothing written; what it takes
\* for abandoned is what it finds now, or found before.
LEMMA RequestMoves ==
    ASSUME IInv, NEW q \in Requester, NEW new \in Req,
           new.run = 0, new.pc # "submitting",
           new.seen \subseteq Abandoned \cup requester[q].seen,
           requester' = [requester EXCEPT ![q] = new],
           UNCHANGED others, subject' \in Subject, faults' \in 0 .. MaxFaults
    PROVE  IInv'
<1>1. TypeOK'
  BY DEF IInv, TypeOK, others
<1>2. OneActiveRun'
  BY DEF IInv, OneActiveRun, ActiveRuns, others
<1>3. ASSUME NEW r \in Run, Attended(r)'
      PROVE  Attended(r)
  BY <1>3, Constants DEF IInv, TypeOK, Attended, others
<1>4. \A r \in Run : GoodRun(r)'
  BY <1>3 DEF IInv, GoodRun, others
<1>5. ASSUME NEW p \in Requester
      PROVE  GoodRequest(p)'
  <2>1. CASE p = q
    BY <2>1 DEF IInv, TypeOK, GoodRequest, Abandoned, ActiveRuns, others
  <2>2. CASE p # q
    BY <2>2 DEF IInv, TypeOK, GoodRequest, others
  <2>3. QED
    BY <2>1, <2>2
<1>6. ClaimsAreOwned'
  BY DEF IInv, TypeOK, ClaimsAreOwned
<1>7. QED
  BY <1>1, <1>2, <1>4, <1>5, <1>6 DEF IInv

\* An executor moves on and writes its own row, which no request holds and
\* none rightly takes for abandoned.
LEMMA ExecutorMoves ==
    ASSUME IInv, NEW r \in Run, NEW row \in Row, NEW pc \in ExecPC \ {"none"},
           executor[r] \notin {"none", "gone"},
           row.status # "absent",
           row.status \in Active \/ pc = "gone" \/ r \in outlived,
           row = runs[r] \/ row.status \notin Active \/ ActiveRuns \subseteq {r},
           executor' = [executor EXCEPT ![r] = pc],
           runs' = [runs EXCEPT ![r] = row],
           UNCHANGED <<requester, stale, outlived, launched>>,
           subject' \in Subject, faults' \in 0 .. MaxFaults
    PROVE  IInv'
<1>1. TypeOK'
  BY DEF IInv, TypeOK
<1>2. OneActiveRun'
  BY DEF IInv, TypeOK, OneActiveRun, ActiveRuns
<1>3. Attended(r) /\ r \notin stale \ outlived
  BY DEF IInv, GoodRun, Attended
<1>4. ASSUME NEW k \in Run
      PROVE  GoodRun(k)'
  <2>1. CASE k = r
    <3>1. \A q \in Requester : requester[q].run # r
      BY Constants DEF IInv, GoodRequest
    <3>2. Attended(k)' => pc # "gone"
      BY <2>1, <3>1 DEF IInv, TypeOK, Attended
    <3>3. QED
      BY <2>1, <1>3, <3>2 DEF IInv, TypeOK, GoodRun
  <2>2. CASE k # r
    <3>1. Attended(k)' <=> Attended(k)
      BY <2>2 DEF IInv, TypeOK, Attended
    <3>2. QED
      BY <2>2, <3>1 DEF IInv, TypeOK, GoodRun
  <2>3. QED
    BY <2>1, <2>2
<1>5. ASSUME NEW q \in Requester
      PROVE  GoodRequest(q)'
  <2>1. GoodRequest(q) /\ r \notin requester[q].seen \ outlived
    BY <1>3 DEF IInv, GoodRequest
  <2>2. requester[q].run # r
    BY Constants DEF IInv, GoodRequest
  <2>3. requester[q] \in Req
    BY DEF IInv, TypeOK
  <2>4. QED
    BY <2>1, <2>2, <2>3 DEF IInv, TypeOK, GoodRequest, Req, Run
<1>6. ClaimsAreOwned'
  BY DEF IInv, ClaimsAreOwned
<1>7. QED
  BY <1>1, <1>2, <1>4, <1>5, <1>6 DEF IInv

-----------------------------------------------------------------------------
(* The steps of a request.                                                 *)

\* Where a request goes when it ends, or goes on with nothing in its hands.
LEMMA Moved ==
    ASSUME NEW q, NEW pc \in ReqPC \ {"submitting"}
    PROVE  /\ Rest.run = 0 /\ Rest.pc # "submitting" /\ Rest.seen = {}
           /\ [Rest EXCEPT !.pc = pc] \in Req
           /\ [Rest EXCEPT !.pc = pc].run = 0
           /\ [Rest EXCEPT !.pc = pc].pc # "submitting"
           /\ [Rest EXCEPT !.pc = pc].seen = {}
BY Constants DEF Rest, Req

\* A request ends.
LEMMA DoneKeeps ==
    ASSUME IInv, NEW q \in Requester, Done(q), UNCHANGED others,
           subject' \in Subject, faults' \in 0 .. MaxFaults
    PROVE  IInv'
<1>1. requester' = [requester EXCEPT ![q] = Rest]
  BY DEF Done
<1>2. Rest.run = 0 /\ Rest.pc # "submitting" /\ Rest.seen \subseteq Abandoned
  BY DEF Rest
<1>3. QED
  BY <1>1, <1>2, Constants, RequestMoves

\* A request goes on, without a run.
LEMMA ToKeeps ==
    ASSUME IInv, NEW q \in Requester, NEW pc \in ReqPC \ {"submitting"}, To(q, pc),
           UNCHANGED others, subject' \in Subject, faults' \in 0 .. MaxFaults
    PROVE  IInv'
<1> DEFINE new == [Rest EXCEPT !.pc = pc]
<1>1. requester' = [requester EXCEPT ![q] = new]
  BY DEF To
<1>2. new \in Req /\ new.run = 0 /\ new.pc # "submitting" /\ new.seen \subseteq Abandoned
  BY Moved
<1> HIDE DEF new
<1>3. QED
  BY <1>1, <1>2, RequestMoves

\* The actions that only move a request.
LEMMA RequestsKeep ==
    ASSUME IInv, NEW q \in Requester,
           Ask(q) \/ Poll(q) \/ Answer(q) \/ SelectStale(q) \/ LookUp(q) \/ LookAgain(q)
    PROVE  IInv'
<1>1. subject \in Subject /\ faults \in 0 .. MaxFaults /\ requester[q] \in Req
  BY DEF IInv, TypeOK
<1>2. CASE Ask(q)
  <2> DEFINE pc == IF subject.kind = "investigation" THEN "selecting"
                   ELSE IF subject.recorded THEN "enriched" ELSE "looking"
  <2>1. pc \in ReqPC \ {"submitting"}
    BY DEF ReqPC
  <2>2. To(q, pc) /\ UNCHANGED others /\ UNCHANGED <<subject, faults>>
    BY <1>2 DEF Ask, others
  <2> HIDE DEF pc
  <2>3. QED
    BY <1>1, <2>1, <2>2, ToKeeps
<1>3. CASE Poll(q)
  <2> DEFINE new == [Rest EXCEPT !.pc = "selecting", !.polls = TRUE]
  <2>1. /\ requester' = [requester EXCEPT ![q] = new]
        /\ UNCHANGED others /\ UNCHANGED <<subject, faults>>
    BY <1>3 DEF Poll, others
  <2>2. new \in Req /\ new.run = 0 /\ new.pc # "submitting" /\ new.seen \subseteq Abandoned
    BY Constants DEF Rest, Req, ReqPC
  <2> HIDE DEF new
  <2>3. QED
    BY <1>1, <2>1, <2>2, RequestMoves
<1>4. CASE Answer(q)
  BY <1>1, <1>4, DoneKeeps DEF Answer, others
<1>5. CASE SelectStale(q)
  <2>1. UNCHANGED others /\ UNCHANGED <<subject, faults>>
    BY <1>5 DEF SelectStale, others
  <2>2. requester[q].run = 0
    BY <1>5 DEF SelectStale, IInv, GoodRequest
  <2>3. ASSUME NEW pc \in {"reconciling", "looking"}, NEW agrees \in BOOLEAN,
               NEW seen \in {Abandoned, requester[q].seen},
               requester' = [requester EXCEPT ![q].pc = pc, ![q].seen = seen,
                                              ![q].agrees = agrees]
        PROVE  IInv'
    <3> DEFINE new == [requester[q] EXCEPT !.pc = pc, !.seen = seen, !.agrees = agrees]
    <3>1. requester' = [requester EXCEPT ![q] = new]
      BY <2>3, <1>1 DEF IInv, TypeOK
    <3>2. seen \subseteq Run
      BY <1>1 DEF Abandoned, ActiveRuns, Req
    <3>3. /\ new \in Req /\ new.run = 0 /\ new.pc # "submitting"
          /\ new.seen \subseteq Abandoned \cup requester[q].seen
      BY <1>1, <2>2, <3>2 DEF Req, ReqPC
    <3> HIDE DEF new
    <3>4. QED
      BY <1>1, <2>1, <3>1, <3>3, RequestMoves
  <2>4. CASE requester' = [requester EXCEPT ![q].pc = "reconciling",
                                            ![q].seen = Abandoned,
                                            ![q].agrees = subject.status = "failed"]
    BY <2>3, <2>4
  <2>5. CASE Done(q)
    BY <1>1, <2>1, <2>5, DoneKeeps
  <2>6. CASE requester' = [requester EXCEPT ![q].pc = "looking",
                                            ![q].agrees = subject.status = "ready"]
    <3>1. requester' = [requester EXCEPT ![q].pc = "looking",
                                         ![q].seen = requester[q].seen,
                                         ![q].agrees = subject.status = "ready"]
      BY <1>1, <2>6 DEF IInv, TypeOK, Req
    <3>2. QED
      BY <2>3, <3>1
  <2>7. QED
    BY <1>5, <2>4, <2>5, <2>6 DEF SelectStale
<1>6. CASE LookUp(q)
  <2>1. UNCHANGED others /\ UNCHANGED <<subject, faults>>
    BY <1>6 DEF LookUp, others
  <2>2. CASE Done(q)
    BY <1>1, <2>1, <2>2, DoneKeeps
  <2>3. CASE requester' = [requester EXCEPT ![q].pc = "claiming"]
    <3> DEFINE new == [requester[q] EXCEPT !.pc = "claiming"]
    <3>1. requester' = [requester EXCEPT ![q] = new]
      BY <2>3, <1>1 DEF IInv, TypeOK
    <3>2. requester[q].run = 0
      BY <1>6 DEF LookUp, IInv, GoodRequest
    <3>3. /\ new \in Req /\ new.run = 0 /\ new.pc # "submitting"
          /\ new.seen \subseteq Abandoned \cup requester[q].seen
      BY <1>1, <3>2 DEF Req, ReqPC
    <3> HIDE DEF new
    <3>4. QED
      BY <1>1, <2>1, <3>1, <3>3, RequestMoves
  <2>4. QED
    BY <1>6, <2>2, <2>3 DEF LookUp
<1>7. CASE LookAgain(q)
  BY <1>1, <1>7, DoneKeeps DEF LookAgain, others
<1>8. QED
  BY <1>2, <1>3, <1>4, <1>5, <1>6, <1>7

\* Reconcile fails only runs that were abandoned when it found them: whoever
\* still attends to one has outlived it.
LEMMA ReconcileKeeps ==
    ASSUME IInv, NEW q \in Requester, Reconcile(q)
    PROVE  IInv'
<1> DEFINE seen == requester[q].seen
           new == IF requester[q].polls THEN Rest ELSE [Rest EXCEPT !.pc = "looking"]
<1>1. /\ requester' = [requester EXCEPT ![q] = new]
      /\ runs' = [r \in Run |-> IF r \in seen THEN Interrupted ELSE runs[r]]
      /\ UNCHANGED <<executor, stale, outlived, launched, faults>>
  BY DEF Reconcile, Done, To, Interrupted
<1>2. /\ new \in Req
      /\ new.run = 0
      /\ new.pc # "submitting"
      /\ new.seen = {}
  BY Constants, Moved DEF ReqPC
<1>3. requester[q].run = 0 /\ seen \subseteq stale /\ seen \subseteq Run
  BY DEF Reconcile, IInv, GoodRequest, TypeOK, Req
<1>4. subject' \in Subject
  BY MirrorTyped DEF Reconcile, IInv, TypeOK, Ended
<1> HIDE DEF seen, new
<1>5. \A r \in Run : runs'[r] = Interrupted \/ runs'[r] = runs[r]
  BY <1>1
<1>6. Interrupted.status = "failed" /\ Interrupted.status \notin Active
  BY DEF Interrupted, Active
<1>7. TypeOK'
  BY <1>1, <1>2, <1>4, Constants DEF IInv, TypeOK
<1>8. OneActiveRun'
  BY <1>5, <1>6 DEF IInv, OneActiveRun, ActiveRuns
<1>9. ASSUME NEW r \in Run
      PROVE  GoodRun(r)'
  <2>1. Attended(r)' => Attended(r)
    BY <1>1, <1>2, <1>3, Constants DEF IInv, TypeOK, Attended
  <2>2. GoodRun(r)
    BY DEF IInv
  <2>3. CASE r \in seen
    <3>1. runs'[r] = Interrupted /\ r \in stale
      BY <1>1, <1>3, <2>3
    <3>2. QED
      BY <2>1, <2>2, <3>1, <1>1, <1>6 DEF GoodRun
  <2>4. CASE r \notin seen
    <3>1. runs'[r] = runs[r]
      BY <1>1, <2>4
    <3>2. QED
      BY <2>1, <2>2, <3>1, <1>1 DEF GoodRun
  <2>5. QED
    BY <2>3, <2>4
<1>10. ASSUME NEW p \in Requester
       PROVE  GoodRequest(p)'
  <2>1. CASE p = q
    <3>1. requester'[p] = new
      BY <1>1, <2>1 DEF IInv, TypeOK
    <3>2. QED
      BY <1>2, <3>1 DEF GoodRequest
  <2>2. CASE p # q
    <3>1. requester'[p] = requester[p]
      BY <1>1, <2>2 DEF IInv, TypeOK
    <3>2. requester[p] \in Req /\ GoodRequest(p)
      BY DEF IInv, TypeOK
    <3>3. requester[p].run # 0 => requester[p].run \in Run
      BY <3>2 DEF Req, Run
    <3>4. requester[p].seen \subseteq Run
      BY <3>2 DEF Req
    <3>5. QED
      BY <1>1, <1>5, <1>6, <3>1, <3>2, <3>3, <3>4 DEF GoodRequest
  <2>3. QED
    BY <2>1, <2>2
<1>11. ClaimsAreOwned'
  BY <1>1, <1>2 DEF IInv, TypeOK, ClaimsAreOwned
<1>12. QED
  BY <1>7, <1>8, <1>9, <1>10, <1>11 DEF IInv

\* The INSERT that wins: the run is new, and nobody else holds or knows it.
LEMMA InsertKeeps ==
    ASSUME IInv, NEW q \in Requester, Insert(q)
    PROVE  IInv'
<1>1. UNCHANGED <<executor, stale, outlived, launched, faults>>
  BY DEF Insert
<1>2. subject \in Subject /\ faults \in 0 .. MaxFaults /\ requester[q] \in Req
  BY DEF IInv, TypeOK
<1>3. CASE UNCHANGED <<subject, runs>> /\ Done(q)
  BY <1>1, <1>2, <1>3, DoneKeeps DEF others
<1>4. CASE UNCHANGED <<subject, runs>> /\ To(q, "relooking")
  <2>1. "relooking" \in ReqPC \ {"submitting"}
    BY DEF ReqPC
  <2>2. QED
    BY <1>1, <1>2, <1>4, <2>1, ToKeeps DEF others
<1>5. ASSUME NEW r \in Run, Indexed = {}, runs[r].status = "absent",
             runs' = [runs EXCEPT ![r].status = "queued"],
             subject' \in {subject, Mirrored("queued")},
             requester' = [requester EXCEPT ![q] =
                              [Rest EXCEPT !.pc = "submitting", !.run = r]]
      PROVE  IInv'
  <2> DEFINE new == [Rest EXCEPT !.pc = "submitting", !.run = r]
             row == [runs[r] EXCEPT !.status = "queued"]
  <2>1. /\ new \in Req
        /\ new.pc = "submitting"
        /\ new.run = r
        /\ new.seen = {}
    <3>1. r \in 0 .. MaxRuns
      BY ResearchAssumption DEF Run
    <3>2. QED
      BY <3>1, Constants DEF Rest, Req, ReqPC
  <2>2. row \in Row /\ row.status = "queued" /\ runs' = [runs EXCEPT ![r] = row]
    BY <1>5 DEF IInv, TypeOK, Row, Active
  <2>3. requester' = [requester EXCEPT ![q] = new]
    BY <1>5
  <2>4. subject' \in Subject
    BY <1>2, <1>5, MirrorTyped DEF Active
  <2>5. executor[r] = "none" /\ r \notin stale /\ r \notin outlived /\ launched[r] = 0
    BY <1>5 DEF IInv, GoodRun, TypeOK
  <2>6. \A p \in Requester : requester[p].run # r /\ r \notin requester[p].seen
    BY <1>5, <2>5, Constants DEF IInv, GoodRequest
  <2> HIDE DEF new, row
  <2>7. TypeOK'
    BY <1>1, <2>1, <2>2, <2>3, <2>4 DEF IInv, TypeOK
  <2>8. OneActiveRun'
    BY <1>5, <2>2 DEF IInv, TypeOK, OneActiveRun, ActiveRuns, Indexed
  <2>9. ASSUME NEW k \in Run
        PROVE  GoodRun(k)'
    <3>1. GoodRun(k)
      BY DEF IInv
    <3>2. CASE k = r
      BY <1>1, <2>2, <2>5, <3>1, <3>2 DEF IInv, TypeOK, GoodRun, Active
    <3>3. CASE k # r
      <4>1. Attended(k)' => Attended(k)
        BY <1>1, <2>1, <2>3, <3>3 DEF IInv, TypeOK, Attended
      <4>2. QED
        BY <1>1, <2>2, <3>1, <3>3, <4>1 DEF IInv, TypeOK, GoodRun
    <3>4. QED
      BY <3>2, <3>3
  <2>10. ASSUME NEW p \in Requester
         PROVE  GoodRequest(p)'
    <3>1. CASE p = q
      BY <1>1, <2>1, <2>2, <2>3, <2>5, <3>1, Constants DEF IInv, TypeOK, GoodRequest
    <3>2. CASE p # q
      <4>1. requester'[p] = requester[p] /\ requester[p] \in Req /\ GoodRequest(p)
        BY <2>3, <3>2 DEF IInv, TypeOK
      <4>2. QED
        BY <1>1, <2>2, <2>6, <4>1 DEF IInv, TypeOK, GoodRequest, Req, Run
    <3>3. QED
      BY <3>1, <3>2
  <2>11. ClaimsAreOwned'
    BY <2>1, <2>3, <2>6 DEF IInv, TypeOK, ClaimsAreOwned
  <2>12. QED
    BY <2>7, <2>8, <2>9, <2>10, <2>11 DEF IInv
<1>6. QED
  BY <1>3, <1>4, <1>5 DEF Insert

\* What the claim is handed to attends to it instead of the request.
LEMMA SubmitKeeps ==
    ASSUME IInv, NEW q \in Requester, Submit(q)
    PROVE  IInv'
<1> DEFINE r == requester[q].run
<1>1. /\ r \in Run
      /\ executor[r] = "none"
      /\ runs[r].status # "absent"
      /\ launched[r] = 0
      /\ Attended(r)
  <2>1. requester[q].pc = "submitting" /\ requester[q] \in Req /\ GoodRequest(q)
    BY DEF Submit, IInv, TypeOK
  <2>2. r \in Run /\ executor[r] = "none" /\ runs[r].status # "absent"
    BY <2>1 DEF GoodRequest, Req, Run
  <2>3. QED
    BY <2>2 DEF IInv, GoodRun, Attended
<1>2. /\ executor' = [executor EXCEPT ![r] = "submitted"]
      /\ launched' = [launched EXCEPT ![r] = 1]
      /\ requester' = [requester EXCEPT ![q] = Rest]
      /\ UNCHANGED <<subject, runs, stale, outlived, faults>>
  BY <1>1 DEF Submit, ExecTo, Done, IInv, TypeOK
<1>3. \A p \in Requester : p # q => requester[p].run # r
  BY <1>1, Constants DEF IInv, ClaimsAreOwned
<1>4. Rest.run = 0 /\ Rest.pc # "submitting" /\ Rest.seen = {}
  BY DEF Rest
<1> HIDE DEF r
<1>5. TypeOK'
  BY <1>2, Constants DEF IInv, TypeOK, ExecPC
<1>6. OneActiveRun'
  BY <1>2 DEF IInv, OneActiveRun, ActiveRuns
<1>7. ASSUME NEW k \in Run
      PROVE  GoodRun(k)'
  <2>1. GoodRun(k)
    BY DEF IInv
  <2>2. CASE k = r
    BY <1>1, <1>2, <2>1, <2>2 DEF IInv, TypeOK, GoodRun
  <2>3. CASE k # r
    <3>1. Attended(k)' => Attended(k)
      BY <1>2, <1>4, <2>3, Constants DEF IInv, TypeOK, Attended
    <3>2. QED
      BY <1>2, <2>1, <2>3, <3>1 DEF IInv, TypeOK, GoodRun
  <2>4. QED
    BY <2>2, <2>3
<1>8. ASSUME NEW p \in Requester
      PROVE  GoodRequest(p)'
  <2>1. CASE p = q
    BY <1>2, <1>4, <2>1 DEF IInv, TypeOK, GoodRequest
  <2>2. CASE p # q
    <3>1. requester'[p] = requester[p] /\ requester[p] \in Req /\ GoodRequest(p)
      BY <1>2, <2>2 DEF IInv, TypeOK
    <3>2. QED
      BY <1>2, <1>3, <2>2, <3>1 DEF IInv, TypeOK, GoodRequest, Req, Run
  <2>3. QED
    BY <2>1, <2>2
<1>9. ClaimsAreOwned'
  BY <1>2, <1>4 DEF IInv, TypeOK, ClaimsAreOwned
<1>10. QED
  BY <1>5, <1>6, <1>7, <1>8, <1>9 DEF IInv

\* A claim that cannot be scheduled is closed by the request that holds it.
LEMMA SubmitFailsKeeps ==
    ASSUME IInv, NEW q \in Requester, SubmitFails(q)
    PROVE  IInv'
<1> DEFINE r == requester[q].run
<1>1. r \in Run /\ executor[r] = "none" /\ runs[r].status # "absent" /\ Attended(r)
  BY DEF SubmitFails, IInv, TypeOK, GoodRequest, Req, Run, Attended
<1>2. /\ runs' = [runs EXCEPT ![r] = Interrupted]
      /\ requester' = [requester EXCEPT ![q] = Rest]
      /\ UNCHANGED <<executor, stale, outlived, launched, faults>>
  BY DEF SubmitFails, Fails, Done, Interrupted
<1>3. \A p \in Requester : p # q => requester[p].run # r
  BY <1>1, Constants DEF IInv, ClaimsAreOwned
<1>4. /\ Rest.run = 0 /\ Rest.pc # "submitting" /\ Rest.seen = {}
      /\ Interrupted.status = "failed"
  BY DEF Rest, Interrupted
<1>5. subject' \in Subject
  BY MirrorTyped DEF SubmitFails, Fails, IInv, TypeOK, Ended
<1> HIDE DEF r
<1>6. TypeOK'
  BY <1>2, <1>5, Constants DEF IInv, TypeOK
<1>7. OneActiveRun'
  BY <1>2, <1>4 DEF IInv, TypeOK, OneActiveRun, ActiveRuns, Active
<1>8. ASSUME NEW k \in Run
      PROVE  GoodRun(k)'
  <2>1. GoodRun(k)
    BY DEF IInv
  <2>2. Attended(k)' => Attended(k) /\ k # r
    BY <1>1, <1>2, <1>3, <1>4, Constants DEF IInv, TypeOK, Attended
  <2>3. QED
    BY <1>1, <1>2, <1>4, <2>1, <2>2 DEF IInv, TypeOK, GoodRun
<1>9. ASSUME NEW p \in Requester
      PROVE  GoodRequest(p)'
  <2>1. CASE p = q
    BY <1>2, <1>4, <2>1 DEF IInv, TypeOK, GoodRequest
  <2>2. CASE p # q
    <3>1. requester'[p] = requester[p] /\ requester[p] \in Req /\ GoodRequest(p)
      BY <1>2, <2>2 DEF IInv, TypeOK
    <3>2. QED
      BY <1>2, <1>3, <2>2, <3>1 DEF IInv, TypeOK, GoodRequest, Req, Run
  <2>3. QED
    BY <2>1, <2>2
<1>10. ClaimsAreOwned'
  BY <1>2, <1>4 DEF IInv, TypeOK, ClaimsAreOwned
<1>11. QED
  BY <1>6, <1>7, <1>8, <1>9, <1>10 DEF IInv

-----------------------------------------------------------------------------
(* The steps of an executor.                                               *)

\* Every step of an executor ends it or moves it, and writes no row but its own.
LEMMA ExecutorsKeep ==
    ASSUME IInv, NEW r \in Run, ExecStep(r)
    PROVE  IInv'
<1>1. /\ subject \in Subject /\ faults \in 0 .. MaxFaults /\ runs[r] \in Row
      /\ runs = [runs EXCEPT ![r] = runs[r]]
      /\ executor[r] \notin {"none", "gone"}
      /\ UNCHANGED <<requester, stale, outlived, launched, faults>>
  BY DEF IInv, TypeOK, ExecStep, Load, Begin, Plan, Acquire, IngestFails, RecordSearches,
     Judge, Discover, Succeed
<1>2. runs[r].status # "absent" /\ (runs[r].status \in Active \/ r \in outlived)
  BY <1>1 DEF IInv, GoodRun, Attended
<1>3. ASSUME NEW pc \in ExecPC \ {"none"}, ExecTo(r, pc), UNCHANGED runs,
             subject' \in Subject
      PROVE  IInv'
  BY <1>1, <1>2, <1>3, ExecutorMoves DEF ExecTo
<1>4. ASSUME NEW reason \in Reason, End(r, reason)
      PROVE  IInv'
  <2> DEFINE row == [status |-> "failed", reason |-> reason]
  <2>1. row \in Row /\ row.status # "absent" /\ row.status \notin Active
    BY DEF Row, Active, Ended
  <2>2. subject' \in Subject
    BY <1>1, <1>4, MirrorTyped DEF End, Fails, Ended
  <2>3. runs' = [runs EXCEPT ![r] = row] /\ executor' = [executor EXCEPT ![r] = "gone"]
    BY <1>4 DEF End, Fails, ExecTo
  <2>4. "gone" \in ExecPC \ {"none"}
    BY DEF ExecPC
  <2> HIDE DEF row
  <2>5. QED
    BY <1>1, <2>1, <2>2, <2>3, <2>4, ExecutorMoves
<1>5. CASE Begin(r) /\ SetStatus(r, "running") /\ Indexed \ {r} = {}
  <2> DEFINE row == [runs[r] EXCEPT !.status = "running"]
  <2>1. row \in Row /\ row.status # "absent" /\ row.status \in Active
    BY <1>1 DEF Row, Active
  <2>2. subject' \in Subject
    BY <1>1, <1>5, MirrorTyped DEF SetStatus, Active
  <2>3. runs' = [runs EXCEPT ![r] = row] /\ executor' = [executor EXCEPT ![r] = "planning"]
    <3>1. executor' = [executor EXCEPT ![r] = "planning"]
      BY <1>1, <1>5 DEF Begin, ExecTo
    <3>2. runs' = [runs EXCEPT ![r] = row]
      BY <1>5 DEF SetStatus, IInv, TypeOK
    <3>3. QED
      BY <3>1, <3>2
  <2>4. "planning" \in ExecPC \ {"none"} /\ ActiveRuns \subseteq {r}
    BY <1>5 DEF ExecPC, Indexed
  <2> HIDE DEF row
  <2>5. QED
    BY <1>1, <2>1, <2>2, <2>3, <2>4, ExecutorMoves
<1>6. CASE Succeed(r)
  <2> DEFINE row == [status |-> "succeeded", reason |-> "none"]
  <2>1. row \in Row /\ row.status # "absent" /\ row.status \notin Active
    BY DEF Row, Active, Ended, Reason
  <2>2. subject' \in Subject
    BY <1>1, <1>6, MirrorTyped DEF Succeed, Ended
  <2>3. runs' = [runs EXCEPT ![r] = row] /\ executor' = [executor EXCEPT ![r] = "gone"]
    BY <1>6 DEF Succeed, ExecTo
  <2>4. "gone" \in ExecPC \ {"none"}
    BY DEF ExecPC
  <2> HIDE DEF row
  <2>5. QED
    BY <1>1, <2>1, <2>2, <2>3, <2>4, ExecutorMoves
<1>7. CASE RecordSearches(r)
  <2>1. subject' \in Subject
    BY <1>1, <1>7 DEF RecordSearches, Subject
  <2>2. "judging" \in ExecPC \ {"none"}
    BY DEF ExecPC
  <2>3. QED
    BY <1>3, <1>7, <2>1, <2>2 DEF RecordSearches
\* What is left of the actions either ends the executor or only moves it.
<1>8. /\ {"retryable", "final"} \subseteq Reason
      /\ {"beginning", "acquiring", "recording", "discovering", "succeeding",
          "gone"} \subseteq ExecPC \ {"none"}
  BY DEF Reason, ExecPC
<1>9. CASE Load(r) \/ Discover(r)
  <2>1. PICK pc \in ExecPC \ {"none"} : ExecTo(r, pc)
    BY <1>8, <1>9 DEF Load, Discover
  <2>2. UNCHANGED <<subject, runs>>
    BY <1>9 DEF Load, Discover
  <2>3. QED
    BY <1>1, <1>3, <2>1, <2>2
<1>10. CASE Begin(r) /\ ExecTo(r, "gone") /\ UNCHANGED <<subject, runs>>
  BY <1>1, <1>3, <1>8, <1>10
<1>11. CASE Plan(r) \/ Acquire(r) \/ Judge(r)
  <2>1. \/ \E reason \in Reason : End(r, reason)
        \/ \E pc \in ExecPC \ {"none"} : ExecTo(r, pc) /\ UNCHANGED <<subject, runs>>
    BY <1>8, <1>11 DEF Plan, Acquire, Judge
  <2>2. QED
    BY <1>1, <1>3, <1>4, <2>1
<1>12. CASE IngestFails(r)
  <2> DEFINE row == [status |-> "failed", reason |-> "retryable"]
  <2>1. row \in Row /\ row.status # "absent" /\ row.status \notin Active
    BY DEF Row, Reason, Active, Ended
  <2>2. subject' \in Subject
    <3>1. Mirrored("failed") \in Subject
      BY <1>1, MirrorTyped DEF Ended
    <3>2. subject' = [Mirrored("failed") EXCEPT !.recorded = TRUE]
      BY <1>12 DEF IngestFails
    <3>3. QED
      BY <3>1, <3>2 DEF Subject
  <2>3. runs' = [runs EXCEPT ![r] = row] /\ executor' = [executor EXCEPT ![r] = "gone"]
    BY <1>12 DEF IngestFails, ExecTo
  <2>4. "gone" \in ExecPC \ {"none"}
    BY DEF ExecPC
  <2> HIDE DEF row
  <2>5. QED
    BY <1>1, <2>1, <2>2, <2>3, <2>4, ExecutorMoves
<1>13. QED
  BY <1>5, <1>6, <1>7, <1>9, <1>10, <1>11, <1>12 DEF ExecStep, Begin

-----------------------------------------------------------------------------
(* Time and faults.                                                        *)

\* A run that ages either is attended to, and outlives its budget, or is not.
LEMMA AgeKeeps ==
    ASSUME IInv, NEW r \in Run, Age(r)
    PROVE  IInv'
<1>1. /\ stale' = stale \cup {r}
      /\ outlived' = IF Attended(r) THEN outlived \cup {r} ELSE outlived
      /\ UNCHANGED <<subject, runs, executor, requester, launched, faults>>
      /\ runs[r].status \in Active
  BY DEF Age, ActiveRuns
<1>2. TypeOK'
  BY <1>1 DEF IInv, TypeOK
<1>3. OneActiveRun' /\ ClaimsAreOwned'
  BY <1>1 DEF IInv, OneActiveRun, ActiveRuns, ClaimsAreOwned
<1>4. ASSUME NEW k \in Run
      PROVE  GoodRun(k)'
  <2>1. GoodRun(k) /\ (Attended(k)' <=> Attended(k))
    BY <1>1 DEF IInv, Attended
  <2>2. runs[r].status # "absent"
    BY <1>1 DEF Active
  <2>3. QED
    BY <1>1, <2>1, <2>2 DEF GoodRun
<1>5. \A q \in Requester : GoodRequest(q)'
  BY <1>1 DEF IInv, GoodRequest
<1>6. QED
  BY <1>2, <1>3, <1>4, <1>5 DEF IInv

\* A death takes attention from a run, never gives it any.
LEMMA FaultKeeps ==
    ASSUME IInv, Fault
    PROVE  IInv'
<1>1. /\ UNCHANGED <<subject, runs, stale, outlived, launched>>
      /\ subject' \in Subject /\ faults' \in 0 .. MaxFaults
  BY ResearchAssumption DEF Fault, IInv, TypeOK
<1>2. CASE Crash
  <2>1. /\ executor' = [r \in Run |-> IF executor[r] = "none" THEN "none" ELSE "gone"]
        /\ requester' = [q \in Requester |-> Rest]
        /\ Rest.run = 0 /\ Rest.pc # "submitting" /\ Rest.seen = {}
    BY <1>2 DEF Crash, Rest
  <2>2. TypeOK'
    BY <1>1, <2>1, Constants DEF IInv, TypeOK, ExecPC
  <2>3. OneActiveRun' /\ ClaimsAreOwned'
    BY <1>1, <2>1 DEF IInv, OneActiveRun, ActiveRuns, ClaimsAreOwned
  <2>4. ASSUME NEW r \in Run
        PROVE  GoodRun(r)'
    <3>1. ~Attended(r)'
      BY <2>1, Constants DEF Attended
    <3>2. QED
      BY <1>1, <2>1, <3>1 DEF IInv, GoodRun
  <2>5. \A q \in Requester : GoodRequest(q)'
    BY <1>1, <2>1 DEF GoodRequest
  <2>6. QED
    BY <2>2, <2>3, <2>4, <2>5 DEF IInv
<1>3. ASSUME NEW r \in Run, Vanish(r)
      PROVE  IInv'
  <2>1. runs[r] \in Row /\ runs' = [runs EXCEPT ![r] = runs[r]]
    BY <1>1 DEF IInv, TypeOK
  <2>2. executor[r] \notin {"none", "gone"} /\ runs[r].status # "absent"
    BY <1>3 DEF Vanish, IInv, GoodRun
  <2>3. /\ "gone" \in ExecPC \ {"none"}
        /\ executor' = [executor EXCEPT ![r] = "gone"]
        /\ UNCHANGED requester
    BY <1>3 DEF Vanish, ExecTo, ExecPC
  <2>4. QED
    BY <1>1, <2>1, <2>2, <2>3, ExecutorMoves
<1>4. ASSUME NEW q \in Requester, Drop(q)
      PROVE  IInv'
  BY <1>1, <1>4, DoneKeeps DEF Drop, others
<1>5. QED
  BY <1>2, <1>3, <1>4 DEF Fault

-----------------------------------------------------------------------------
(* The theorems.                                                           *)

\* It holds before anybody asked.
LEMMA Initially == Init => IInv
<1> SUFFICES ASSUME Init PROVE IInv
  OBVIOUS
<1>1. TypeOK
  <2>1. subject \in Subject
    BY ResearchAssumption DEF Init, Subject, SubjectStatus
  <2>2. /\ runs \in [Run -> Row]
        /\ executor \in [Run -> ExecPC]
        /\ requester \in [Requester -> Req]
        /\ launched \in [Run -> Nat]
    BY Constants DEF Init, ExecPC
  <2>3. stale \subseteq Run /\ outlived \subseteq stale /\ faults \in 0 .. MaxFaults
    BY ResearchAssumption DEF Init
  <2>4. QED
    BY <2>1, <2>2, <2>3 DEF TypeOK
<1>2. \A q \in Requester : requester[q] = Rest
  BY DEF Init
<1>3. Rest.run = 0 /\ Rest.pc # "submitting" /\ Rest.seen = {}
  BY DEF Rest
<1>4. \A r \in Run : runs[r].status = "absent" /\ executor[r] = "none"
  BY DEF Init, NoRow
<1>5. OneActiveRun
  BY <1>4 DEF OneActiveRun, ActiveRuns, Active
<1>6. \A r \in Run : GoodRun(r)
  BY <1>2, <1>3, <1>4, Constants DEF Init, GoodRun, Attended
<1>7. (\A q \in Requester : GoodRequest(q)) /\ ClaimsAreOwned
  BY <1>2, <1>3 DEF GoodRequest, ClaimsAreOwned
<1>8. QED
  BY <1>1, <1>5, <1>6, <1>7 DEF IInv

\* No step of a request, an executor, the clock or a fault breaks it.
LEMMA StepKeeps == IInv /\ [Next]_vars => IInv'
<1> SUFFICES ASSUME IInv, [Next]_vars PROVE IInv'
  OBVIOUS
<1>1. ASSUME NEW q \in Requester, Ask(q) \/ Poll(q) \/ ReqStep(q)
      PROVE  IInv'
  BY <1>1, RequestsKeep, ReconcileKeeps, InsertKeeps, SubmitKeeps,
     SubmitFailsKeeps DEF ReqStep
<1>2. ASSUME NEW r \in Run, ExecStep(r) \/ Age(r)
      PROVE  IInv'
  BY <1>2, ExecutorsKeep, AgeKeeps
<1>3. CASE Fault
  BY <1>3, FaultKeeps
<1>4. CASE UNCHANGED vars
  BY <1>4 DEF vars, IInv, TypeOK, OneActiveRun, ActiveRuns, GoodRun, Attended,
     GoodRequest, ClaimsAreOwned
<1>5. QED
  BY <1>1, <1>2, <1>3, <1>4 DEF Next

\* A run in flight is attended to by one party at most, or by nobody.
THEOREM InductiveInvariant == Spec => []IInv
<1>1. Init => IInv
  BY Initially
<1>2. IInv /\ [Next]_vars => IInv'
  BY StepKeeps
<1>3. QED
  BY <1>1, <1>2, PTL DEF Spec

\* Every variable keeps its type.
THEOREM TypeCorrect == Spec => []TypeOK
<1>1. IInv => TypeOK
  BY DEF IInv
<1>2. QED
  BY <1>1, InductiveInvariant, PTL

\* Two clicks, two tabs, a late executor and a reconciliation never leave two
\* runs of one subject in flight (the partial unique index, runs.py, enrichment.py).
THEOREM RunsAreExclusive == Spec => []OneActiveRun
<1>1. IInv => OneActiveRun
  BY DEF IInv
<1>2. QED
  BY <1>1, InductiveInvariant, PTL

\* However a claim race ends, one executor is submitted for a run.
THEOREM ClaimsLaunchOnce == Spec => []LaunchedOnce
<1>1. IInv => LaunchedOnce
  BY DEF IInv, GoodRun, LaunchedOnce
<1>2. QED
  BY <1>1, InductiveInvariant, PTL

\* Two executors spend provider calls for one subject only if one of them has
\* outlived STALE_RUN_AFTER_SECONDS.
THEOREM SpendingIsExclusive == Spec => []OneSpender
<1>1. IInv => OneSpender
  <2> SUFFICES ASSUME IInv, NEW r \in Spending, NEW k \in Spending,
                      r \notin outlived, k \notin outlived
               PROVE  r = k
    BY DEF OneSpender
  <2>1. \A j \in Spending : j \in Run /\ Attended(j)
    BY DEF Spending, Attended
  <2>2. r \in ActiveRuns /\ k \in ActiveRuns
    BY <2>1 DEF IInv, GoodRun, ActiveRuns
  <2>3. QED
    BY <2>2 DEF IInv, OneActiveRun
<1>2. QED
  BY <1>1, InductiveInvariant, PTL

\* A run that has ended is attended to by nobody, unless its executor outlived
\* the budget; and whatever was taken for abandoned was failed the same way.
THEOREM VerdictsAreFinal == Spec => EndedIsFinal
<1> DEFINE A == \A r \in Run \ outlived :
                   runs[r].status \in Ended => runs'[r] = runs[r]
<1>1. IInv /\ [Next]_vars => A
  <2> SUFFICES ASSUME IInv, [Next]_vars, NEW r \in Run, r \notin outlived,
                      runs[r].status \in Ended
               PROVE  runs'[r] = runs[r]
    OBVIOUS
  <2>1. ~Attended(r) /\ runs[r].status \notin Active /\ runs[r].status # "absent"
    BY DEF IInv, GoodRun, Ended, Active
  <2>2. ASSUME NEW q \in Requester, Reconcile(q)
        PROVE  runs'[r] = runs[r]
    BY <2>1, <2>2 DEF IInv, GoodRequest, Reconcile, Interrupted
  <2>3. ASSUME NEW q \in Requester, Insert(q)
        PROVE  runs'[r] = runs[r]
    BY <2>1, <2>3 DEF IInv, TypeOK, Insert, SetStatus
  <2>4. ASSUME NEW q \in Requester, SubmitFails(q)
        PROVE  runs'[r] = runs[r]
    <3>1. requester[q].run # r
      BY <2>1 DEF Attended
    <3>2. QED
      BY <2>4, <3>1 DEF IInv, TypeOK, SubmitFails, Fails
  <2>5. ASSUME NEW q \in Requester, Ask(q) \/ Poll(q) \/ ReqStep(q)
        PROVE  runs'[r] = runs[r]
    BY <2>2, <2>3, <2>4, <2>5 DEF ReqStep, Ask, Poll, Answer, SelectStale,
       LookUp, LookAgain, Submit
  <2>6. ASSUME NEW k \in Run, ExecStep(k)
        PROVE  runs'[r] = runs[r]
    <3>1. k # r
      BY <2>1, <2>6 DEF Attended, ExecStep, Load, Begin, Plan, Acquire, IngestFails,
         RecordSearches, Judge, Discover, Succeed
    <3>2. QED
      BY <2>6, <3>1 DEF IInv, TypeOK, ExecStep, Load, Begin, Plan, Acquire, IngestFails,
         RecordSearches, Judge, Discover, Succeed, SetStatus, End, Fails
  <2>7. ASSUME NEW k \in Run, Age(k)
        PROVE  runs'[r] = runs[r]
    BY <2>7 DEF Age
  <2>8. CASE Fault \/ UNCHANGED vars
    BY <2>8 DEF Fault, vars
  <2>9. QED
    BY <2>5, <2>6, <2>7, <2>8 DEF Next
<1>2. IInv /\ [Next]_vars => [A]_vars
  BY <1>1
<1>3. Spec => [][A]_vars
  BY <1>2, InductiveInvariant, PTL DEF Spec
<1>4. QED
  BY <1>3 DEF EndedIsFinal

\* Only ageing out fails a run whose executor has done its research.
THEOREM ResearchSurvives == Spec => ResearchIsKept
<1> DEFINE A == \A r \in Run \ stale :
                   executor[r] \in {"discovering", "succeeding"}
                       => runs'[r].status # "failed"
<1>1. IInv /\ [Next]_vars => A
  <2> SUFFICES ASSUME IInv, [Next]_vars, NEW r \in Run, r \notin stale,
                      executor[r] \in {"discovering", "succeeding"}
               PROVE  runs'[r].status # "failed"
    OBVIOUS
  <2>1. runs[r].status \in Active /\ runs[r] \in Row /\ executor[r] # "none"
    BY DEF IInv, TypeOK, GoodRun, Attended
  <2>2. runs[r].status # "failed" /\ runs[r].status # "absent"
    BY <2>1 DEF Active
  <2>3. ASSUME NEW q \in Requester, Reconcile(q)
        PROVE  runs'[r] = runs[r]
    BY <2>3 DEF IInv, GoodRequest, Reconcile
  <2>4. ASSUME NEW q \in Requester, Insert(q)
        PROVE  runs'[r] = runs[r]
    BY <2>2, <2>4 DEF IInv, TypeOK, Insert, SetStatus
  <2>5. ASSUME NEW q \in Requester, SubmitFails(q)
        PROVE  runs'[r] = runs[r]
    <3>1. requester[q].run # r
      BY <2>1, <2>5, Constants DEF IInv, GoodRequest
    <3>2. QED
      BY <2>5, <3>1 DEF IInv, TypeOK, SubmitFails, Fails
  <2>6. ASSUME NEW q \in Requester, Ask(q) \/ Poll(q) \/ ReqStep(q)
        PROVE  runs'[r] = runs[r]
    BY <2>3, <2>4, <2>5, <2>6 DEF ReqStep, Ask, Poll, Answer, SelectStale,
       LookUp, LookAgain, Submit
  <2>7. ASSUME NEW k \in Run, ExecStep(k)
        PROVE  runs'[r] = runs[r] \/ runs'[r].status = "succeeded"
    <3>1. CASE k = r
      BY <2>7, <3>1 DEF IInv, TypeOK, ExecStep, Load, Begin, Plan, Acquire, IngestFails,
         RecordSearches, Judge, Discover, Succeed
    <3>2. CASE k # r
      BY <2>7, <3>2 DEF IInv, TypeOK, ExecStep, Load, Begin, Plan, Acquire, IngestFails,
         RecordSearches, Judge, Discover, Succeed, SetStatus, End, Fails
    <3>3. QED
      BY <3>1, <3>2
  <2>8. ASSUME NEW k \in Run, Age(k)
        PROVE  runs'[r] = runs[r]
    BY <2>8 DEF Age
  <2>9. ASSUME Fault \/ UNCHANGED vars
        PROVE  runs'[r] = runs[r]
    BY <2>9 DEF Fault, vars
  <2>10. runs'[r] = runs[r] \/ runs'[r].status = "succeeded"
    BY <2>6, <2>7, <2>8, <2>9 DEF Next
  <2>11. QED
    BY <2>2, <2>10
<1>2. IInv /\ [Next]_vars => [A]_vars
  BY <1>1
<1>3. Spec => [][A]_vars
  BY <1>2, InductiveInvariant, PTL DEF Spec
<1>4. QED
  BY <1>3 DEF ResearchIsKept

-----------------------------------------------------------------------------
(* The mirror on an investigation.                                         *)

\* Runs are inserted in order, and what is in flight is the latest of them,
\* as long as no executor outlived its run.
InOrder ==
    /\ \A k, r \in Run : k < r /\ runs[k].status = "absent" => runs[r].status = "absent"
    /\ outlived = {} => \A r \in ActiveRuns, k \in Run : r < k => runs[k].status = "absent"

\* A request ages out what it found.  One whose session holds the status it
\* would write found it after a run: READY of one that was claimed, or FAILED,
\* which no one changes while the runs it is about to fail are in flight with
\* nobody attending to them.
GoodHold(q) ==
    /\ requester[q].pc = "reconciling" => requester[q].seen # {}
    /\ requester[q].agrees =>
        /\ requester[q].pc = "reconciling" /\ outlived = {} =>
              \A r \in requester[q].seen \cap ActiveRuns : subject.status = "failed"
        /\ requester[q].pc \in {"looking", "claiming"} =>
              \E r \in Run : runs[r].status # "absent"

\* It holds nothing.
HoldsNothing(q) == ~requester[q].agrees /\ requester[q].pc # "reconciling"

MirrorInv ==
    /\ InOrder
    /\ subject.kind = "investigation" =>
          /\ (\A r \in Run : runs[r].status = "absent") => subject.status = "draft"
          /\ \A q \in Requester : GoodHold(q)
    /\ MirrorsTheLatest

\* The latest run is the one after which there is none.
LEMMA Latest ==
    ASSUME NEW r \in Run
    PROVE  IsLatest(r) <=> /\ runs[r].status # "absent"
                           /\ \A k \in Run : k > r => runs[k].status = "absent"
<1>1. r # 0
  BY Constants
<1>2. QED
  BY <1>1 DEF IsLatest

\* What a mirrored write leaves on an investigation.
LEMMA MirrorReads ==
    ASSUME subject \in Subject, NEW status
    PROVE  /\ Mirrored(status).kind = subject.kind
           /\ subject.kind = "investigation" => Mirrored(status).status = MirrorOf(status)
BY DEF Mirrored, Subject

\* A step that writes neither a run nor the mirror, and leaves no session with
\* a status that was not found after a run.
LEMMA MirrorStays ==
    ASSUME IInv, MirrorInv, UNCHANGED runs,
           subject'.kind = subject.kind, subject'.status = subject.status,
           outlived' = {} => outlived = {},
           \A q \in Requester : subject.kind = "investigation" => GoodHold(q)'
    PROVE  MirrorInv'
<1>1. InOrder'
  BY DEF MirrorInv, InOrder, ActiveRuns
<1>2. MirrorsTheLatest'
  BY DEF MirrorInv, MirrorsTheLatest, IsLatest
<1>3. QED
  BY <1>1, <1>2 DEF MirrorInv

\* A session that holds what it held still agrees.
LEMMA HoldsOn ==
    ASSUME UNCHANGED runs, subject'.status = subject.status,
           outlived' = {} => outlived = {},
           NEW q \in Requester, GoodHold(q), requester'[q] = requester[q]
    PROVE  GoodHold(q)'
BY DEF GoodHold, ActiveRuns

\* A party that attends to a run writes it, and the mirror with it.
LEMMA MirrorFollows ==
    ASSUME IInv, MirrorInv, NEW r \in Run, Attended(r), runs[r].status # "absent",
           NEW row \in Row, row.status \in {"running", "succeeded", "failed"},
           runs' = [runs EXCEPT ![r] = row],
           subject'.kind = subject.kind,
           subject.kind = "investigation" => subject'.status = row.status,
           outlived' = outlived,
           \A q \in Requester : requester'[q] = requester[q] \/ HoldsNothing(q)'
    PROVE  MirrorInv'
<1>1. runs'[r] = row /\ \A k \in Run \ {r} : runs'[k] = runs[k]
  BY DEF IInv, TypeOK
<1>2. row.status # "absent"
  OBVIOUS
<1>3. outlived = {} => r \in ActiveRuns /\ r \notin stale
  BY DEF IInv, GoodRun, ActiveRuns
<1>4. \A k \in Run : runs'[k].status = "absent" <=> runs[k].status = "absent"
  BY <1>1, <1>2
<1>5. outlived = {} => ActiveRuns' \subseteq {r}
  BY <1>1, <1>3 DEF IInv, OneActiveRun, ActiveRuns
<1>6. InOrder'
  BY <1>3, <1>4, <1>5 DEF MirrorInv, InOrder
<1>7. ASSUME NEW q \in Requester, subject.kind = "investigation"
      PROVE  GoodHold(q)'
  <2>1. GoodHold(q) /\ GoodRequest(q)
    BY <1>7 DEF MirrorInv, IInv
  <2>2. outlived = {} => r \notin requester[q].seen
    BY <1>3, <2>1 DEF GoodRequest
  <2>3. QED
    BY <1>4, <1>5, <2>1, <2>2 DEF GoodHold, HoldsNothing
<1>8. MirrorsTheLatest'
  <2> SUFFICES ASSUME subject.kind = "investigation", outlived = {},
                      NEW k \in Run, IsLatest(k)'
               PROVE  subject'.status = MirrorOf(runs'[k].status)
    BY DEF MirrorsTheLatest
  <2>1. IsLatest(k)
    BY <1>4 DEF IsLatest
  <2>2. IsLatest(r)
    BY <1>3, Latest DEF MirrorInv, InOrder
  <2>3. k = r
    BY <2>1, <2>2, Latest DEF Run
  <2>4. QED
    BY <1>1, <2>3 DEF MirrorOf
<1>9. QED
  BY <1>2, <1>4, <1>6, <1>7, <1>8 DEF MirrorInv

\* Requests that only move: those that read the mirror read it after a run.
LEMMA RequestsMirror ==
    ASSUME IInv, MirrorInv, NEW q \in Requester,
           \/ Ask(q) \/ Poll(q) \/ Answer(q) \/ SelectStale(q) \/ LookUp(q)
           \/ LookAgain(q) \/ Submit(q)
    PROVE  MirrorInv'
<1>1. UNCHANGED <<subject, runs, outlived>>
  BY DEF Ask, Poll, Answer, SelectStale, LookUp, LookAgain, Submit
<1>2. ~Rest.agrees /\ Rest.pc = "idle"
  BY DEF Rest
<1>3. ASSUME NEW p \in Requester, subject.kind = "investigation"
      PROVE  GoodHold(p)'
  <2>1. GoodHold(p)
    BY <1>3 DEF MirrorInv
  <2>2. requester[q] \in Req
    BY DEF IInv, TypeOK
  <2>3. CASE p # q
    <3>1. requester'[p] = requester[p]
      BY <2>3 DEF Ask, Poll, Answer, SelectStale, LookUp, LookAgain, Submit,
         Done, To, IInv, TypeOK
    <3>2. QED
      BY <1>1, <2>1, <3>1, HoldsOn
  <2>4. CASE p = q /\ (Ask(q) \/ Poll(q) \/ Answer(q) \/ LookAgain(q) \/ Submit(q))
    <3>1. HoldsNothing(q)'
      BY <1>2, <2>4 DEF Ask, Poll, Answer, LookAgain, Submit, Done, To, IInv, TypeOK, Rest,
         HoldsNothing
    <3>2. QED
      BY <2>4, <3>1 DEF GoodHold, HoldsNothing
  <2>5. CASE p = q /\ SelectStale(q)
    <3>1. \/ requester'[q] = Rest
          \/ /\ Abandoned # {}
             /\ requester'[q] = [requester[q] EXCEPT !.pc = "reconciling",
                                                     !.seen = Abandoned,
                                                     !.agrees = subject.status = "failed"]
          \/ requester'[q] = [requester[q] EXCEPT !.pc = "looking",
                                                  !.agrees = subject.status = "ready"]
      BY <2>5 DEF SelectStale, Done, IInv, TypeOK
    <3>2. CASE requester'[q] = Rest
      BY <1>2, <2>5, <3>2 DEF GoodHold
    <3>3. CASE /\ Abandoned # {}
               /\ requester'[q] = [requester[q] EXCEPT !.pc = "reconciling",
                                                       !.seen = Abandoned,
                                                       !.agrees = subject.status = "failed"]
      <4>1. /\ requester'[q].pc = "reconciling"
            /\ requester'[q].agrees <=> subject.status = "failed"
            /\ requester'[q].seen # {}
        BY <2>2, <3>3 DEF Req
      <4>2. QED
        BY <1>1, <2>5, <4>1 DEF GoodHold
    <3>4. CASE requester'[q] = [requester[q] EXCEPT !.pc = "looking",
                                                    !.agrees = subject.status = "ready"]
      <4>1. /\ requester'[q].pc = "looking"
            /\ requester'[q].agrees <=> subject.status = "ready"
        BY <2>2, <3>4 DEF Req
      <4>2. subject.status = "ready" => \E r \in Run : runs[r].status # "absent"
        BY <1>3 DEF MirrorInv
      <4>3. QED
        BY <1>1, <2>5, <4>1, <4>2 DEF GoodHold
    <3>5. QED
      BY <3>1, <3>2, <3>3, <3>4
  <2>6. CASE p = q /\ LookUp(q)
    <3>1. \/ requester'[q] = Rest
          \/ requester'[q] = [requester[q] EXCEPT !.pc = "claiming"]
      BY <2>6 DEF LookUp, Done, IInv, TypeOK
    <3>2. CASE requester'[q] = Rest
      BY <1>2, <2>6, <3>2 DEF GoodHold
    <3>3. CASE requester'[q] = [requester[q] EXCEPT !.pc = "claiming"]
      <4>1. /\ requester'[q].pc = "claiming" /\ requester[q].pc = "looking"
            /\ requester'[q].agrees = requester[q].agrees
        BY <2>2, <2>6, <3>3 DEF Req, LookUp
      <4>2. QED
        BY <1>1, <2>1, <2>6, <4>1 DEF GoodHold
    <3>4. QED
      BY <3>1, <3>2, <3>3
  <2>7. QED
    BY <2>3, <2>4, <2>5, <2>6
<1>4. QED
  BY <1>1, <1>3, MirrorStays

\* A claim that cannot be scheduled is closed, and the mirror with it.
LEMMA SubmitFailsMirrors ==
    ASSUME IInv, MirrorInv, NEW q \in Requester, SubmitFails(q)
    PROVE  MirrorInv'
<1> DEFINE r == requester[q].run
<1>1. r \in Run /\ runs[r].status # "absent" /\ Attended(r)
  BY DEF SubmitFails, IInv, TypeOK, GoodRequest, Req, Run, Attended
<1>2. /\ runs' = [runs EXCEPT ![r] = Interrupted]
      /\ requester' = [requester EXCEPT ![q] = Rest]
      /\ outlived' = outlived
      /\ subject' = Mirrored("failed")
  BY DEF SubmitFails, Fails, Done, Interrupted
<1>3. /\ Interrupted \in Row /\ Interrupted.status = "failed"
      /\ ~Rest.agrees /\ Rest.pc = "idle"
  BY Constants DEF Interrupted, Rest
<1>4. /\ subject'.kind = subject.kind
      /\ subject.kind = "investigation" => subject'.status = "failed"
  BY <1>2, MirrorReads DEF IInv, TypeOK, MirrorOf
<1>5. \A p \in Requester : requester'[p] = requester[p] \/ HoldsNothing(p)'
  BY <1>2, <1>3 DEF IInv, TypeOK, HoldsNothing
<1> HIDE DEF r
<1>6. QED
  BY <1>1, <1>2, <1>3, <1>4, <1>5, MirrorFollows

\* An executor that writes its row writes the mirror with it.
LEMMA ExecutorsMirror ==
    ASSUME IInv, MirrorInv, NEW r \in Run, ExecStep(r)
    PROVE  MirrorInv'
<1>1. /\ executor[r] \notin {"none", "gone"}
      /\ UNCHANGED <<requester, stale, outlived, launched, faults>>
      /\ subject \in Subject /\ runs[r] \in Row /\ runs \in [Run -> Row]
  BY DEF IInv, TypeOK, ExecStep, Load, Begin, Plan, Acquire, IngestFails, RecordSearches,
     Judge, Discover, Succeed
<1>2. Attended(r) /\ runs[r].status # "absent"
  BY <1>1 DEF IInv, GoodRun, Attended
<1>3. ASSUME UNCHANGED runs, subject'.kind = subject.kind,
             subject'.status = subject.status
      PROVE  MirrorInv'
  <2>1. \A q \in Requester : subject.kind = "investigation" => GoodHold(q)'
    BY <1>1, <1>3, HoldsOn DEF MirrorInv
  <2>2. QED
    BY <1>1, <1>3, <2>1, MirrorStays
<1>4. ASSUME NEW row \in Row, row.status \in {"running", "succeeded", "failed"},
             runs' = [runs EXCEPT ![r] = row],
             subject'.kind = subject.kind,
             subject.kind = "investigation" => subject'.status = row.status
      PROVE  MirrorInv'
  BY <1>1, <1>2, <1>4, MirrorFollows
<1>5. ASSUME NEW reason \in Reason, Fails(r, reason)
      PROVE  MirrorInv'
  <2> DEFINE row == [status |-> "failed", reason |-> reason]
  <2>1. row \in Row /\ row.status = "failed"
    BY DEF Row, Ended
  <2>2. runs' = [runs EXCEPT ![r] = row]
    BY <1>5 DEF Fails
  <2>3. /\ subject'.kind = subject.kind
        /\ subject.kind = "investigation" => subject'.status = "failed"
    BY <1>1, <1>5, MirrorReads DEF Fails, MirrorOf
  <2> HIDE DEF row
  <2>4. QED
    BY <1>4, <2>1, <2>2, <2>3
<1>6. CASE Begin(r) /\ SetStatus(r, "running")
  <2> DEFINE row == [runs[r] EXCEPT !.status = "running"]
  <2>1. row \in Row /\ row.status = "running"
    BY <1>1 DEF Row, Active
  <2>2. runs' = [runs EXCEPT ![r] = row]
    BY <1>1, <1>6 DEF SetStatus
  <2>3. /\ subject'.kind = subject.kind
        /\ subject.kind = "investigation" => subject'.status = "running"
    BY <1>1, <1>6, MirrorReads DEF SetStatus, MirrorOf
  <2> HIDE DEF row
  <2>4. QED
    BY <1>4, <2>1, <2>2, <2>3
<1>7. CASE Succeed(r)
  <2> DEFINE row == [status |-> "succeeded", reason |-> "none"]
  <2>1. row \in Row /\ row.status = "succeeded"
    BY DEF Row, Ended, Reason
  <2>2. runs' = [runs EXCEPT ![r] = row]
    BY <1>7 DEF Succeed
  <2>3. /\ subject'.kind = subject.kind
        /\ subject.kind = "investigation" => subject'.status = "succeeded"
    BY <1>1, <1>7, MirrorReads DEF Succeed, MirrorOf
  <2> HIDE DEF row
  <2>4. QED
    BY <1>4, <2>1, <2>2, <2>3
<1>8. CASE IngestFails(r)
  <2> DEFINE row == [status |-> "failed", reason |-> "retryable"]
             mirrored == Mirrored("failed")
  <2>1. row \in Row /\ row.status = "failed"
    BY DEF Row, Ended, Reason
  <2>2. runs' = [runs EXCEPT ![r] = row] /\ subject' = [mirrored EXCEPT !.recorded = TRUE]
    BY <1>8 DEF IngestFails
  <2>3. /\ mirrored \in Subject
        /\ mirrored.kind = subject.kind
        /\ subject.kind = "investigation" => mirrored.status = "failed"
    BY <1>1, MirrorTyped, MirrorReads DEF Ended, MirrorOf
  <2> HIDE DEF row, mirrored
  <2>4. /\ subject'.kind = subject.kind
        /\ subject.kind = "investigation" => subject'.status = "failed"
    BY <2>2, <2>3 DEF Subject
  <2>5. QED
    BY <1>4, <2>1, <2>2, <2>4
<1>9. CASE RecordSearches(r)
  <2>1. /\ UNCHANGED runs
        /\ subject'.kind = subject.kind /\ subject'.status = subject.status
    BY <1>1, <1>9 DEF RecordSearches, Subject
  <2>2. QED
    BY <1>3, <2>1
<1>10. {"retryable", "final"} \subseteq Reason
  BY DEF Reason
\* What is left either fails the run or writes nothing.
<1>11. CASE \/ Load(r) \/ Plan(r) \/ Acquire(r) \/ Judge(r) \/ Discover(r)
            \/ Begin(r) /\ UNCHANGED <<subject, runs>>
  <2>1. \/ UNCHANGED <<subject, runs>>
        \/ \E reason \in Reason : Fails(r, reason)
    BY <1>10, <1>11 DEF Load, Plan, Acquire, Judge, Discover, End
  <2>2. QED
    BY <1>3, <1>5, <2>1
<1>12. QED
  BY <1>6, <1>7, <1>8, <1>9, <1>11 DEF ExecStep, Begin

\* The INSERT that wins finds no run in flight: the mirror then reads a verdict,
\* or nothing yet, and is written unless the session found it READY.
LEMMA InsertMirrors ==
    ASSUME IInv, MirrorInv, NEW q \in Requester, Insert(q)
    PROVE  MirrorInv'
<1>1. /\ UNCHANGED <<outlived, stale>>
      /\ subject \in Subject /\ requester[q] \in Req /\ runs \in [Run -> Row]
      /\ \A p \in Requester \ {q} : requester'[p] = requester[p]
      /\ HoldsNothing(q)'
  <2> DEFINE moved == \A p \in Requester \ {q} : requester'[p] = requester[p]
  <2>1. ASSUME NEW new, ~new.agrees, new.pc # "reconciling",
               requester' = [requester EXCEPT ![q] = new]
        PROVE  HoldsNothing(q)' /\ moved
    BY <2>1 DEF IInv, TypeOK, HoldsNothing
  <2>2. /\ ~Rest.agrees /\ Rest.pc # "reconciling"
        /\ ~[Rest EXCEPT !.pc = "relooking"].agrees
        /\ [Rest EXCEPT !.pc = "relooking"].pc # "reconciling"
        /\ \A r : /\ ~[Rest EXCEPT !.pc = "submitting", !.run = r].agrees
                  /\ [Rest EXCEPT !.pc = "submitting", !.run = r].pc # "reconciling"
    BY DEF Rest
  <2>3. HoldsNothing(q)' /\ moved
    <3> HIDE DEF moved
    <3>1. CASE Done(q)
      BY <2>1, <2>2, <3>1 DEF Done
    <3>2. CASE To(q, "relooking")
      BY <2>1, <2>2, <3>2 DEF To
    <3>3. CASE \E r \in Run : requester' = [requester EXCEPT ![q] =
                              [Rest EXCEPT !.pc = "submitting", !.run = r]]
      BY <2>1, <2>2, <3>3
    <3>4. QED
      BY <3>1, <3>2, <3>3 DEF Insert
  <2>4. QED
    BY <2>3 DEF Insert, IInv, TypeOK
<1>2. CASE UNCHANGED <<subject, runs>>
  <2>1. ASSUME NEW p \in Requester, subject.kind = "investigation"
        PROVE  GoodHold(p)'
    <3>1. CASE p = q
      BY <1>1, <3>1 DEF GoodHold, HoldsNothing
    <3>2. CASE p # q
      BY <1>1, <1>2, <2>1, <3>2, HoldsOn DEF MirrorInv
    <3>3. QED
      BY <3>1, <3>2
  <2>2. QED
    BY <1>1, <1>2, <2>1, MirrorStays
<1>3. ASSUME NEW r \in Run, Indexed = {}, runs[r].status = "absent",
             \A k \in Run : k < r => runs[k].status # "absent",
             runs' = [runs EXCEPT ![r].status = "queued"],
             subject' = IF requester[q].agrees THEN subject ELSE Mirrored("queued"),
             requester[q].pc = "claiming"
      PROVE  MirrorInv'
  <2>1. runs'[r].status = "queued" /\ \A k \in Run \ {r} : runs'[k] = runs[k]
    BY <1>1, <1>3 DEF Row
  <2>2. ActiveRuns = {} /\ ActiveRuns' = {r}
    BY <1>3, <2>1 DEF Indexed, ActiveRuns, Active
  <2>3. \A k \in Run : k > r => runs[k].status = "absent"
    BY <1>3 DEF MirrorInv, InOrder
  <2>4. InOrder'
    BY <1>3, <2>1, <2>2, <2>3 DEF InOrder, Run
  <2>5. /\ subject'.kind = subject.kind
        /\ subject.kind = "investigation" /\ ~requester[q].agrees
              => subject'.status = "ready"
    BY <1>1, <1>3, MirrorReads DEF MirrorOf
  <2>6. ASSUME NEW p \in Requester, subject.kind = "investigation"
        PROVE  GoodHold(p)'
    <3>1. CASE p = q
      BY <1>1, <3>1 DEF GoodHold, HoldsNothing
    <3>2. CASE p # q
      <4>1. requester'[p] = requester[p] /\ GoodHold(p) /\ GoodRequest(p)
        BY <1>1, <2>6, <3>2 DEF MirrorInv, IInv
      <4>2. r \notin stale
        BY <1>3 DEF IInv, GoodRun
      <4>3. r \notin requester'[p].seen
        BY <4>1, <4>2 DEF GoodRequest
      <4>4. \E k \in Run : runs'[k].status # "absent"
        BY <2>1
      <4>5. QED
        BY <2>2, <4>1, <4>3, <4>4 DEF GoodHold
    <3>3. QED
      BY <3>1, <3>2
  <2>7. MirrorsTheLatest'
    <3> SUFFICES ASSUME subject.kind = "investigation", outlived = {},
                        NEW k \in Run, IsLatest(k)'
                 PROVE  \/ subject'.status = MirrorOf(runs'[k].status)
                        \/ subject'.status = "failed"
                        \/ subject'.status = "succeeded" /\ runs'[k].status \in Active
      BY <1>1, <2>5 DEF MirrorsTheLatest
    <3>1. k = r
      BY <2>1, <2>3 DEF IsLatest, Run
    <3>2. CASE ~requester[q].agrees
      BY <2>1, <2>5, <3>1, <3>2 DEF MirrorOf
    <3>3. CASE requester[q].agrees
      <4>1. PICK j \in Run : runs[j].status # "absent"
        BY <1>3, <3>3 DEF MirrorInv, GoodHold
      <4>2. j < r
        BY <1>3, <2>3, <4>1 DEF Run
      <4> DEFINE last == r - 1
      <4>3. last \in Run /\ last < r
        BY <4>2, ResearchAssumption DEF Run
      <4>4. \A i \in Run : i > last => i = r \/ i > r
        BY ResearchAssumption DEF Run
      <4> HIDE DEF last
      <4>5. runs[last].status # "absent"
        BY <1>3, <4>3
      <4>6. IsLatest(last)
        BY <1>3, <2>3, <4>3, <4>4, <4>5, Latest
      <4>7. runs[last].status \in Ended
        BY <1>1, <2>2, <4>3, <4>5 DEF Row, ActiveRuns
      <4>8. MirrorOf(runs[last].status) \in {"failed", "succeeded"}
        BY <4>7 DEF MirrorOf, Ended
      <4>9. subject.status \in {"failed", "succeeded"}
        BY <4>3, <4>6, <4>8 DEF MirrorInv, MirrorsTheLatest
      <4>10. QED
        BY <1>3, <2>1, <3>1, <3>3, <4>9 DEF Active
    <3>4. QED
      BY <3>2, <3>3
  <2>8. QED
    BY <2>1, <2>4, <2>5, <2>6, <2>7 DEF MirrorInv
<1>4. QED
  BY <1>2, <1>3 DEF Insert

\* Ageing out writes FAILED over the runs and the mirror, or finds the mirror
\* FAILED and leaves it: then it still is, if the latest run is one of them.
LEMMA ReconcileMirrors ==
    ASSUME IInv, MirrorInv, NEW q \in Requester, Reconcile(q)
    PROVE  MirrorInv'
<1> DEFINE seen == requester[q].seen
<1>1. /\ runs' = [r \in Run |-> IF r \in seen THEN Interrupted ELSE runs[r]]
      /\ subject' = IF requester[q].agrees THEN subject ELSE Mirrored("failed")
      /\ requester[q].pc = "reconciling"
      /\ UNCHANGED <<outlived, stale>>
      /\ subject \in Subject /\ runs \in [Run -> Row]
      /\ \A p \in Requester \ {q} : requester'[p] = requester[p]
      /\ HoldsNothing(q)'
  BY DEF Reconcile, Done, To, IInv, TypeOK, Rest, Interrupted, HoldsNothing
<1>2. Interrupted.status = "failed"
  BY DEF Interrupted
<1>3. seen \subseteq stale /\ GoodRequest(q)
  BY DEF IInv, GoodRequest
<1> HIDE DEF seen
<1>4. \A r \in Run : runs'[r].status = "absent" <=> runs[r].status = "absent"
  BY <1>1, <1>2, <1>3 DEF IInv, GoodRun
<1>5. ActiveRuns' \subseteq ActiveRuns
  BY <1>1, <1>2 DEF ActiveRuns, Active
<1>6. InOrder'
  BY <1>1, <1>4, <1>5 DEF MirrorInv, InOrder
<1>7. /\ subject'.kind = subject.kind
      /\ subject.kind = "investigation"
            => subject'.status \in {subject.status, "failed"}
      /\ subject.kind = "investigation" /\ ~requester[q].agrees
            => subject'.status = "failed"
  BY <1>1, MirrorReads DEF MirrorOf
<1>8. ASSUME NEW p \in Requester, subject.kind = "investigation"
      PROVE  GoodHold(p)'
  <2>1. CASE p = q
    BY <1>1, <2>1 DEF GoodHold, HoldsNothing
  <2>2. CASE p # q
    <3>1. requester'[p] = requester[p] /\ GoodHold(p)
      BY <1>1, <1>8, <2>2 DEF MirrorInv
    <3>2. QED
      BY <1>1, <1>4, <1>5, <1>7, <1>8, <3>1 DEF GoodHold
  <2>3. QED
    BY <2>1, <2>2
<1>9. MirrorsTheLatest'
  <2> SUFFICES ASSUME subject.kind = "investigation", outlived = {},
                      NEW r \in Run, IsLatest(r)'
               PROVE  \/ subject'.status = MirrorOf(runs'[r].status)
                      \/ subject'.status = "failed"
                      \/ subject'.status = "succeeded" /\ runs'[r].status \in Active
    BY <1>1, <1>7 DEF MirrorsTheLatest
  <2>1. IsLatest(r)
    BY <1>4 DEF IsLatest
  <2>2. CASE ~requester[q].agrees
    BY <1>7, <2>2
  <2>3. CASE requester[q].agrees /\ r \notin seen
    BY <1>1, <2>1, <2>3 DEF MirrorInv, MirrorsTheLatest
  <2>4. CASE requester[q].agrees /\ r \in seen
    <3>1. CASE r \in ActiveRuns
      BY <1>1, <2>4, <3>1 DEF MirrorInv, GoodHold, seen
    <3>2. CASE r \notin ActiveRuns
      <4>1. runs[r] = Interrupted
        BY <1>3, <2>4, <3>2 DEF GoodRequest, ActiveRuns, seen
      <4>2. runs'[r] = runs[r]
        BY <1>1, <2>4, <4>1
      <4>3. QED
        BY <1>1, <2>1, <2>4, <4>2 DEF MirrorInv, MirrorsTheLatest
    <3>3. QED
      BY <3>1, <3>2
  <2>5. QED
    BY <2>2, <2>3, <2>4
<1>10. ASSUME subject.kind = "investigation", \A r \in Run : runs[r].status = "absent"
       PROVE  subject'.status = "draft"
  <2>1. PICK r \in seen : r \in Run
    BY <1>1, <1>3, <1>10 DEF MirrorInv, GoodHold, IInv, TypeOK, seen
  <2>2. runs[r].status # "absent"
    BY <1>3, <2>1 DEF IInv, GoodRun
  <2>3. QED
    BY <1>10, <2>1, <2>2
<1>11. QED
  BY <1>4, <1>6, <1>7, <1>8, <1>9, <1>10 DEF MirrorInv

\* Time and deaths write nothing, and take from a session what it holds.
LEMMA OthersMirror ==
    ASSUME IInv, MirrorInv, (\E r \in Run : Age(r)) \/ Fault
    PROVE  MirrorInv'
<1>1. UNCHANGED <<subject, runs>> /\ (outlived' = {} => outlived = {})
  BY DEF Age, Fault
<1>2. \A q \in Requester : requester'[q] = requester[q] \/ HoldsNothing(q)'
  BY DEF Age, Fault, Crash, Vanish, Drop, Done, Rest, IInv, TypeOK, HoldsNothing
<1>3. ASSUME NEW q \in Requester, subject.kind = "investigation"
      PROVE  GoodHold(q)'
  <2>1. CASE requester'[q] = requester[q]
    BY <1>1, <1>3, <2>1, HoldsOn DEF MirrorInv
  <2>2. CASE HoldsNothing(q)'
    BY <2>2 DEF GoodHold, HoldsNothing
  <2>3. QED
    BY <1>2, <2>1, <2>2
<1>4. QED
  BY <1>1, <1>3, MirrorStays

\* It holds before anybody asked, and no step breaks it.
LEMMA MirrorKeeps ==
    /\ Init => MirrorInv
    /\ IInv /\ MirrorInv /\ [Next]_vars => MirrorInv'
<1>1. ASSUME Init
      PROVE  MirrorInv
  <2>1. \A r \in Run : runs[r].status = "absent"
    BY <1>1 DEF Init, NoRow
  <2>2. InOrder /\ MirrorsTheLatest
    BY <2>1, Latest DEF InOrder, MirrorsTheLatest, ActiveRuns, Active
  <2>3. \A q \in Requester : GoodHold(q)
    BY <1>1 DEF Init, GoodHold, Rest
  <2>4. subject.status = "draft"
    BY <1>1 DEF Init
  <2>5. QED
    BY <2>2, <2>3, <2>4 DEF MirrorInv
<1>2. ASSUME IInv, MirrorInv, [Next]_vars
      PROVE  MirrorInv'
  <2>1. ASSUME NEW q \in Requester, Ask(q) \/ Poll(q) \/ ReqStep(q)
        PROVE  MirrorInv'
    BY <1>2, <2>1, RequestsMirror, ReconcileMirrors, InsertMirrors,
       SubmitFailsMirrors DEF ReqStep
  <2>2. ASSUME NEW r \in Run, ExecStep(r) \/ Age(r)
        PROVE  MirrorInv'
    BY <1>2, <2>2, ExecutorsMirror, OthersMirror
  <2>3. CASE Fault
    BY <1>2, <2>3, OthersMirror
  <2>4. CASE UNCHANGED vars
    BY <1>2, <2>4 DEF vars, MirrorInv, InOrder, ActiveRuns, GoodHold, MirrorsTheLatest,
       IsLatest
  <2>5. QED
    BY <1>2, <2>1, <2>2, <2>3, <2>4 DEF Next
<1>3. QED
  BY <1>1, <1>2

\* set_run_status: while no executor outlived its run, an investigation never
\* reads READY or RUNNING but as its latest run does, nor SUCCEEDED over a later
\* failure, whatever sessions that read it too early interleave.
THEOREM MirrorIsHonest == Spec => []MirrorsTheLatest
<1>1. Init => MirrorInv
  BY MirrorKeeps
<1>2. IInv /\ MirrorInv /\ [Next]_vars => MirrorInv'
  BY MirrorKeeps
<1>3. MirrorInv => MirrorsTheLatest
  BY DEF MirrorInv
<1>4. QED
  BY <1>1, <1>2, <1>3, InductiveInvariant, PTL DEF Spec

=============================================================================
