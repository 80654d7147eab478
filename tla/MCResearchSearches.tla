-------------------------- MODULE MCResearchSearches --------------------------
(* Instances of ResearchSearches for TLC. *)
EXTENDS ResearchSearches

ThreeQueries == 3
=============================================================================
