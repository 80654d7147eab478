---------------------------- MODULE MCResearchRuns ----------------------------
(* Instances of ResearchRuns for TLC. *)
EXTENDS ResearchRuns

BothKinds == {"investigation", "opportunity"}
InvestigationOnly == {"investigation"}
OpportunityOnly == {"opportunity"}
=============================================================================
