-------------------------- MODULE MCMatchingEngine --------------------------
(* A small instance of MatchingEngine for TLC. *)
EXTENDS MatchingEngineRefinement, TLC

CONSTANTS o1, o2, o3

MCId    == {o1, o2, o3}
MCPrice == {1, 2}

=============================================================================
