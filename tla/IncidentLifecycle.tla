-------------------------- MODULE IncidentLifecycle --------------------------
(***************************************************************************)
(* What RecallGuard promises about one collector, with no processes, no    *)
(* provider and no rows: how its reliability state may move, what each     *)
(* move costs, and what evidence closes an incident.  It is the reliability*)
(* state of app/recallguard/service.py as collector_reliability_state      *)
(* reports it, HEALING, VALIDATING and VERIFYING told apart no further.    *)
(*                                                                         *)
(* It is promised while one invocation at a time decides about the         *)
(* collector.  Two that decide at once contend, and nothing is promised    *)
(* from there on.                                                          *)
(***************************************************************************)
EXTENDS Naturals

CONSTANTS MaxAttempts, MaxRuns

VARIABLES
    state,     \* the collector's reliability state
    attempts,  \* autonomous repair attempts the open incident has used
    advice,    \* what the diagnosis recommends: retry, request_heal, other
    since,     \* how many runs had started when the incident was detected
    proof      \* the run that closed the last incident, 0 before any did

lifeVars == <<state, attempts, advice, since, proof>>

Advice == {"retry", "request_heal", "other"}

Init ==
    /\ state = "healthy"
    /\ attempts = 0
    /\ advice = "other"
    /\ since = 0
    /\ proof = 0

\* A failing run opens the one incident.
Detect ==
    /\ state = "healthy"
    /\ state' = "degraded"
    /\ attempts' = 0
    /\ advice' \in Advice
    /\ since' \in 1 .. MaxRuns
    /\ UNCHANGED proof

\* A later failing run changes the diagnosis, never while a repair is under
\* way or a human owns the incident.
Rediagnose ==
    /\ state = "degraded"
    /\ advice' \in Advice
    /\ UNCHANGED <<state, attempts, since, proof>>

\* A repair starts: it costs an attempt, and there are only so many.
Attempt ==
    /\ state = "degraded"
    /\ advice = "request_heal"
    /\ attempts < MaxAttempts
    /\ state' = "in_repair"
    /\ attempts' = attempts + 1
    /\ UNCHANGED <<advice, since, proof>>

\* A repair that was started before is taken up again, at no cost.
TakeUp ==
    /\ state = "degraded"
    /\ advice = "request_heal"
    /\ attempts >= 1
    /\ state' = "in_repair"
    /\ UNCHANGED <<attempts, advice, since, proof>>

HandBack ==
    /\ state = "in_repair"
    /\ state' = "degraded"
    /\ UNCHANGED <<attempts, advice, since, proof>>

\* A human gets the incident once the budget is spent, and keeps it.
Escalate ==
    /\ state = "degraded"
    /\ attempts = MaxAttempts
    /\ state' = "manual_review"
    /\ advice' = "other"
    /\ UNCHANGED <<attempts, since, proof>>

\* A run newer than the incident, and never used as proof before, closes it:
\* a verified repair, or the retry that disproves an outage.
Recover ==
    /\ \/ state = "in_repair"
       \/ state = "degraded" /\ advice = "retry"
    /\ proof' \in (since + 1) .. MaxRuns
    /\ proof' # proof
    /\ state' = "healthy"
    /\ attempts' = 0
    /\ advice' = "other"
    /\ since' = 0

\* A second invocation decides while the first still does.
Contend ==
    /\ state' = "contended"
    /\ attempts' = 0
    /\ advice' = "other"
    /\ since' = 0
    /\ proof' = 0

Next == Detect \/ Rediagnose \/ Attempt \/ TakeUp \/ HandBack \/ Escalate
        \/ Recover \/ Contend

Spec == Init /\ [][Next]_lifeVars

=============================================================================
