------------------------- MODULE MCPipelineExecutor -------------------------
(* Instances of ExecutorHistory for TLC. *)
EXTENDS ExecutorHistory, TLC

\* Drivers are interchangeable; used where no liveness is checked.
Symmetry == Permutations(Driver)

\* Bound: what follows once two drivers shared an execution concerns the first
\* one, beside which another may be claimed; after a race, nobody dies.
Bounded ==
    /\ shared # {} => \A e \in Exec \ {1} : execs[e].status \in {"absent", "queued"}
    /\ raced # {} => /\ faults = 0
                     /\ \A e \in Exec \ {1} : execs[e].status = "absent"
=============================================================================
