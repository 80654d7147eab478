------------------------------ MODULE MCHealing ------------------------------
(* Instances of HealingHistory for TLC. *)
EXTENDS HealingHistory, TLC

\* Every way a collection may end, and the ones a crash-prone run is given.
AllOutcomes == Outcome
MainOutcomes == {"clean", "drift", "outage"}

\* Workers are interchangeable; used where no liveness is checked.
Symmetry == Permutations(Worker)

\* Bound: nothing is asked of a behaviour after its first overlap, and the
\* last of its collections is started by an invocation that is alone with the
\* repair: the other is idle, and the job is not one that it has previewed.
Apart(w) == proc[w].pc = "idle" /\ w \notin job.previewed

Bounded ==
    /\ ~ overlapped
    /\ started = MaxRuns
           => \A v, w \in Worker : v # w => Apart(v) \/ Apart(w)
=============================================================================
