--------------------------- MODULE HealingHistory ---------------------------
(***************************************************************************)
(* What RecallGuard keeps to as long as two invocations never decide about *)
(* the collector at once.  Nothing in the code ensures that: the open      *)
(* incident is read, judged and repaired over many commits under no lock   *)
(* and no unique index.  So this module adds to Healing what it needs to   *)
(* say how far each promise goes: history variables, which the actions of  *)
(* Healing set and never read.                                             *)
(*                                                                         *)
(* Invocations may overlap in everything else: one may collect, wait to be *)
(* judged, find its run healthy or report while another repairs, and one   *)
(* takes up what another left behind.                                      *)
(***************************************************************************)
EXTENDS Healing

VARIABLES
    overlapped,   \* whether two invocations ever decided at once
    orphaned      \* incidents in flight whose invocation died over them

history == <<overlapped, orphaned>>
historyVars == <<vars, history>>

-----------------------------------------------------------------------------
\* From the SELECT of active_incident to the verdict, a worker acts on what it
\* read of the incident.  A clean run of a healthy collector reads nothing.
Deciding(w) == proc[w].pc \notin {"idle", "collecting", "judging", "reporting"}

Overlap == \E v, w \in Worker : v # w /\ Deciding(v) /\ Deciding(w)

InFlight == {i \in Incident : incidents[i].status \in Lifecycle}

\* The incidents of the workers that this step stops short of their report.
Dropped == {proc[w].inc : w \in {v \in Worker : /\ proc[v].pc # "reporting"
                                                /\ proc'[v].pc = "idle"}}

Remember ==
    /\ overlapped' = (overlapped \/ Overlap')
    /\ orphaned' = (orphaned \cup Dropped) \cap InFlight'

HistoryInit == Init /\ overlapped = FALSE /\ orphaned = {}

HistoryNext == Next /\ Remember

HistorySpec == HistoryInit /\ [][HistoryNext]_historyVars /\ Fairness

-----------------------------------------------------------------------------
(* Invariants, up to the first overlap.                                    *)

\* active_incident: a collector has at most one unresolved incident, however
\* often its runs fail, whoever judges them, and wherever an invocation dies,
\* unless two invocations decided about it at once.
OneActiveIncident ==
    ~ overlapped =>
        \A i, j \in Incident : IsActive(i) /\ IsActive(j) => i = j

\* verify_recovery: an incident closed as extraction drift was closed by a run
\* that started after its candidate was registered, in an attempt whose
\* candidate was approved and deployed: a commit of two overlapping decisions
\* may lose the events this is read from, and no other may.
DriftVerifiedByRepair ==
    ~ overlapped =>
        \A i \in Incident :
            incidents[i].status = "recovered" /\ incidents[i].class = "extraction_drift"
                => RepairVerified(incidents[i])

\* The budget is on what is asked of the provider: never more refactor_template
\* requests than attempts on the row, crashes and lost answers included, unless
\* two overlapping decisions counted the same attempt.
TriggersWithinBudget ==
    ~ overlapped => \A i \in Incident : posts[i] <= incidents[i].attempts

\* Every way out of a repair hands the incident back, timeouts and unusable
\* answers included: one in flight is in the hands of an invocation, or of one
\* that died over it.
InFlightIsDriven ==
    ~ overlapped =>
        \A i \in InFlight \ orphaned : \E w \in Worker : proc[w].inc = i

-----------------------------------------------------------------------------
(* What a step may never do, up to the first overlap.                      *)

\* resume_or_execute asks the provider first: no refactor_template is posted,
\* and paid for, on top of a live repair, whoever left it running.
NoTriggerOnLiveRepair ==
    [][posts' # posts /\ ~ overlapped => job.st \notin Live]_historyVars

\* approve_healing names a collector, not a candidate: the gate it opens is
\* still that of the job whose preview passed.
ApprovesWhatItReviewed ==
    [][job'.approved /\ ~ job.approved /\ ~ overlapped
           => \E w \in Worker : /\ proc[w].pc = "approving"
                                /\ w \in job.previewed]_historyVars

-----------------------------------------------------------------------------
(* The lifecycle all this implements, whatever the invocations do: once two *)
(* decisions overlap, the collector is contended.                           *)

\* The open incident, NoRow when the collector is healthy or contended.
OpenRow ==
    LET open == ActiveIncidents IN
        IF open = {} \/ overlapped THEN NoRow
        ELSE incidents[CHOOSE i \in open : TRUE]

LifeState ==
    LET status == OpenRow.status IN
        CASE overlapped -> "contended"
          [] ~ overlapped /\ status = "absent" -> "healthy"
          [] status \in Lifecycle -> "in_repair"
          [] OTHER -> status

LifeAdvice ==
    LET action == OpenRow.action IN
        IF action \in {"retry", "request_heal"} THEN action ELSE "other"

LifeProof ==
    LET closed == {i \in Incident : incidents[i].status = "recovered"} IN
        IF closed = {} \/ overlapped THEN 0
        ELSE incidents[CHOOSE i \in closed : \A j \in closed : j <= i].verRun

Life == INSTANCE IncidentLifecycle WITH
    state    <- LifeState,
    attempts <- OpenRow.attempts,
    advice   <- LifeAdvice,
    since    <- OpenRow.detectedAt,
    proof    <- LifeProof

ImplementsLifecycle == Life!Spec

=============================================================================
