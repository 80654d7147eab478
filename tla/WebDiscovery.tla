----------------------------- MODULE WebDiscovery -----------------------------
(***************************************************************************)
(* The web phases of the runs of one investigation: both families of       *)
(* searches are run (web_intelligence/execution.py), what they found is    *)
(* judged and stored in one transaction (investigations/                   *)
(* web_intelligence.py), and the run reports it (investigations/           *)
(* execution.py, progress.py).                                             *)
(*                                                                         *)
(* Two runs of an investigation are in their web phases at once when the   *)
(* older one was aged out while its executor lived (module ResearchRuns).  *)
(* They meet in the database: a row written and not committed is locked,   *)
(* and everything else of a transaction is invisible until it commits.     *)
(***************************************************************************)
EXTENDS Naturals, FiniteSets

CONSTANTS
    Runs,      \* the runs of the investigation
    Pages,     \* pages on the web, by canonical URL
    Reach,     \* the pages that the searches of a family can find
    Planned,   \* searches planned per family
    NoRun, NoRows, NoPage

Families == {"demand", "competitors"}

ASSUME PlannedAssumption == Planned \in [Families -> Nat]
ASSUME ReachAssumption == IsFiniteSet(Pages) /\ Reach \in [Families -> SUBSET Pages]
ASSUME RunAssumption == NoRun \notin Runs

VARIABLES
    stage,     \* where each run's executor is
    found,     \* what its searches brought
    todo,      \* its candidates that are not judged yet
    upsert,    \* the verdict it is writing, and whether its SELECT found a row
    written,   \* its evidence rows that are flushed and not committed
    tally,     \* how many candidates it judged and accepted
    rows,      \* committed: its search runs and their hits
    evidence,  \* committed: the run whose verdict each evidence row holds
    phases     \* committed: what its run row says of the web phases

local == <<found, todo, upsert, written, tally>>
vars == <<stage, local, rows, evidence, phases>>

-----------------------------------------------------------------------------
Stage == {"researching", "searching", "judging", "committed", "aborted",
          "closed", "dead"}

\* One page as a candidate of one family.
Candidate == Families \X Pages

\* The searches of a family that were served, of those planned, and the
\* distinct pages of them all.
Found(f) == {b \in [served : 0 .. Planned[f], pages : SUBSET Reach[f]] :
                b.served = 0 => b.pages = {}}
AllFound == {b \in [Families -> UNION {Found(f) : f \in Families}] :
                \A f \in Families : b[f] \in Found(f)}
ASSUME RowsAssumption == NoRows \notin AllFound

NoneFound == [f \in Families |-> [served |-> 0, pages |-> {}]]

Upsert == [candidate : Candidate, exists : BOOLEAN]
NoUpsert == [candidate |-> NoPage]

Tally == [Families -> [judged : Nat, accepted : Nat]]
NoTally == [f \in Families |-> [judged |-> 0, accepted |-> 0]]

PhaseState == {"pending", "running", "complete", "partial", "failed", "skipped"}
Phase == [state : PhaseState, total : Nat, completed : Nat, served : Nat,
          candidates : Nat, judged : Nat, accepted : Nat]
Phases(state) ==
    [f \in Families |-> [state |-> state, total |-> Planned[f], completed |-> 0,
                         served |-> 0, candidates |-> 0, judged |-> 0, accepted |-> 0]]

Init ==
    /\ stage = [r \in Runs |-> "researching"]
    /\ found = [r \in Runs |-> NoneFound]
    /\ todo = [r \in Runs |-> {}]
    /\ upsert = [r \in Runs |-> NoUpsert]
    /\ written = [r \in Runs |-> {}]
    /\ tally = [r \in Runs |-> NoTally]
    /\ rows = [r \in Runs |-> NoRows]
    /\ evidence = [c \in Candidate |-> NoRun]
    /\ phases = [r \in Runs |-> Phases("pending")]

-----------------------------------------------------------------------------
(* The searches.                                                           *)

To(r, s) == stage' = [stage EXCEPT ![r] = s]

\* No search provider is configured.
Skip(r) ==
    /\ stage[r] = "researching"
    /\ To(r, "closed")
    /\ phases' = [phases EXCEPT ![r] = Phases("skipped")]
    /\ UNCHANGED <<local, rows, evidence>>

\* A progress write commits on its own, and one that fails is swallowed.
Start(r) ==
    /\ stage[r] = "researching"
    /\ To(r, "searching")
    /\ phases' \in {phases, [phases EXCEPT ![r] = Phases("running")]}
    /\ UNCHANGED <<local, rows, evidence>>

\* Every search has ended, in whatever order; a page found by several is one
\* candidate of its family.
SearchesReturn(r) ==
    /\ stage[r] = "searching"
    /\ \E b \in AllFound :
          /\ found' = [found EXCEPT ![r] = b]
          /\ todo' = [todo EXCEPT ![r] = {c \in Candidate : c[2] \in b[c[1]].pages}]
    /\ To(r, "judging")
    /\ UNCHANGED <<upsert, written, tally, rows, evidence, phases>>

-----------------------------------------------------------------------------
(* The judgement of the candidates, in one transaction.                    *)

\* Demand is judged and written before competitors, in the order of the ranks.
Due(r) ==
    {c \in todo[r] : c[1] = "competitors" => \A d \in todo[r] : d[1] = c[1]}

Idle(r) == stage[r] = "judging" /\ upsert[r] = NoUpsert

Take(r, c) ==
    /\ Idle(r)
    /\ c \in Due(r)
    /\ todo' = [todo EXCEPT ![r] = @ \ {c}]
    /\ UNCHANGED <<stage, found, written, rows, evidence, phases>>

\* The classifier gives no verdict.
Decline(r, c) ==
    /\ Take(r, c)
    /\ UNCHANGED <<upsert, tally>>

\* The page is about something else: the verdict is counted and not kept.
Dismiss(r, c) ==
    /\ Take(r, c)
    /\ tally' = [tally EXCEPT ![r][c[1]].judged = @ + 1]
    /\ UNCHANGED upsert

\* Defect: the row selected is kept in place of whether there was one.
AcceptSelecting(r, c) ==
    /\ Take(r, c)
    /\ tally' = [tally EXCEPT ![r][c[1]].judged = @ + 1, ![r][c[1]].accepted = @ + 1]
    /\ upsert' = [upsert EXCEPT ![r] = [candidate |-> c, exists |-> evidence[c]]]

\* The SELECT sees what is committed.
Accept(r, c) ==
    /\ Take(r, c)
    /\ tally' = [tally EXCEPT ![r][c[1]].judged = @ + 1, ![r][c[1]].accepted = @ + 1]
    /\ upsert' = [upsert EXCEPT ![r] = [candidate |-> c,
                                        exists |-> evidence[c] # NoRun]]

Writing(r) == stage[r] = "judging" /\ upsert[r] # NoUpsert

\* The statement of r waits for the transaction of s to end.
Waits(r, s) == Writing(r) /\ s # r /\ upsert[r].candidate \in written[s]

Refused(r) == ~upsert[r].exists /\ evidence[upsert[r].candidate] # NoRun

\* Defect: each verdict is committed as it is written.
WriteCommitting(r) ==
    /\ Writing(r)
    /\ ~Refused(r)
    /\ evidence' = [evidence EXCEPT ![upsert[r].candidate] = r]
    /\ upsert' = [upsert EXCEPT ![r] = NoUpsert]
    /\ UNCHANGED <<stage, found, todo, written, tally, rows, phases>>

Write(r) ==
    /\ Writing(r)
    /\ \A s \in Runs : ~Waits(r, s)
    /\ ~Refused(r)
    /\ written' = [written EXCEPT ![r] = @ \cup {upsert[r].candidate}]
    /\ upsert' = [upsert EXCEPT ![r] = NoUpsert]
    /\ UNCHANGED <<stage, found, todo, tally, rows, evidence, phases>>

Commit(r) ==
    /\ Idle(r)
    /\ todo[r] = {}
    /\ evidence' = [c \in Candidate |-> IF c \in written[r] THEN r ELSE evidence[c]]
    /\ rows' = [rows EXCEPT ![r] = found[r]]
    /\ written' = [written EXCEPT ![r] = {}]
    /\ To(r, "committed")
    /\ UNCHANGED <<found, todo, upsert, tally, phases>>

-----------------------------------------------------------------------------
(* An exception rolls the transaction back: the rows of both families go.  *)

\* What the executor held in memory or had not committed.
Forget(r) ==
    /\ found' = [found EXCEPT ![r] = NoneFound]
    /\ todo' = [todo EXCEPT ![r] = {}]
    /\ upsert' = [upsert EXCEPT ![r] = NoUpsert]
    /\ written' = [written EXCEPT ![r] = {}]
    /\ tally' = [tally EXCEPT ![r] = NoTally]

Abort(r) ==
    /\ Forget(r)
    /\ To(r, "aborted")
    /\ UNCHANGED <<rows, evidence, phases>>

\* The classifier raises, or the database is lost.
Fail(r) == stage[r] = "judging" /\ Abort(r)

\* The unique index refuses an insert: the row came after the SELECT.
Conflict(r) == Writing(r) /\ Refused(r) /\ Abort(r)

\* The database ends a cycle of waits by refusing the statement of one of it.
Victim(r) ==
    /\ \E cycle \in SUBSET Runs :
          r \in cycle /\ \A s \in cycle : \E t \in cycle : Waits(s, t)
    /\ Abort(r)

-----------------------------------------------------------------------------
(* What the run says of its web phases.                                    *)

\* Defect: the phase is complete once every search has ended.
FamilyResultEnded(r, f) ==
    [state |-> "complete", total |-> Planned[f], completed |-> Planned[f],
     served |-> found[r][f].served, candidates |-> Cardinality(found[r][f].pages),
     judged |-> tally[r][f].judged, accepted |-> tally[r][f].accepted]

FamilyResult(r, f) ==
    LET served == found[r][f].served
    IN [state |-> IF served = 0 THEN "failed"
                  ELSE IF served < Planned[f] THEN "partial" ELSE "complete",
        total |-> Planned[f], completed |-> Planned[f], served |-> served,
        candidates |-> Cardinality(found[r][f].pages),
        judged |-> tally[r][f].judged, accepted |-> tally[r][f].accepted]

\* A family with no search planned keeps the state it has.
Result(r) ==
    IF stage[r] = "aborted" THEN Phases("failed")
    ELSE [f \in Families |-> IF Planned[f] = 0 THEN Phases("running")[f]
                                               ELSE FamilyResult(r, f)]

\* A progress write, which may be lost: the write that closes the run as
\* succeeded brings the same phases.
Report(r) ==
    /\ stage[r] \in {"committed", "aborted"}
    /\ phases' = [phases EXCEPT ![r] = Result(r)]
    /\ UNCHANGED <<stage, local, rows, evidence>>

Close(r) ==
    /\ stage[r] \in {"committed", "aborted"}
    /\ phases' = [phases EXCEPT ![r] = Result(r)]
    /\ To(r, "closed")
    /\ Forget(r)
    /\ UNCHANGED <<rows, evidence>>

\* The server stops.
Die(r) ==
    /\ stage[r] \notin {"closed", "dead"}
    /\ To(r, "dead")
    /\ Forget(r)
    /\ UNCHANGED <<rows, evidence, phases>>

-----------------------------------------------------------------------------
Judge(r) == \E c \in Candidate : Decline(r, c) \/ Dismiss(r, c) \/ Accept(r, c)

Step(r) ==
    \/ Skip(r) \/ Start(r) \/ SearchesReturn(r) \/ Judge(r) \/ Write(r) \/ Commit(r)
    \/ Conflict(r) \/ Victim(r) \/ Report(r) \/ Close(r)

Next == \E r \in Runs : Step(r) \/ Fail(r) \/ Die(r)

Spec == Init /\ [][Next]_vars

-----------------------------------------------------------------------------
\* Every variable keeps its type; that a family reports no more searches served
\* than planned, nor a page no search of it could find, is part of it.
TypeOK ==
    /\ stage \in [Runs -> Stage]
    /\ found \in [Runs -> AllFound]
    /\ todo \in [Runs -> SUBSET Candidate]
    /\ upsert \in [Runs -> Upsert \cup {NoUpsert}]
    /\ written \in [Runs -> SUBSET Candidate]
    /\ tally \in [Runs -> Tally]
    /\ rows \in [Runs -> AllFound \cup {NoRows}]
    /\ evidence \in [Candidate -> Runs \cup {NoRun}]
    /\ phases \in [Runs -> [Families -> Phase]]

\* What the run row says of a family is what the database holds of it: a phase
\* is complete or partial only over committed searches that it counts right,
\* failed over none that was served and kept, and every verdict it counts as
\* accepted has its evidence row, whatever other runs committed or rolled back
\* meanwhile (WebPhaseProgress.from_result, discover_web_evidence).
ReportedAsStored ==
    \A r \in Runs, f \in Families :
        LET p == phases[r][f]
        IN /\ p.state \in {"complete", "partial"} =>
                 /\ rows[r] # NoRows
                 /\ p.served = rows[r][f].served
                 /\ (p.state = "complete") <=> (p.served = Planned[f])
                 /\ p.candidates = Cardinality(rows[r][f].pages)
                 /\ p.judged <= p.candidates
                 /\ p.accepted <= p.judged
                 /\ p.accepted <= Cardinality({u \in Pages : evidence[<<f, u>>] # NoRun})
           /\ p.state = "failed" /\ rows[r] # NoRows => rows[r][f].served = 0

\* No verdict without its provenance: the run whose verdict an evidence row
\* holds has committed its searches, and one of that family found the page
\* (_persist_family: hits and evidence stand or fall together).
EvidenceHasProvenance ==
    \A c \in Candidate :
        evidence[c] # NoRun =>
            LET brought == rows[evidence[c]]
            IN brought # NoRows /\ c[2] \in brought[c[1]].pages
=============================================================================
