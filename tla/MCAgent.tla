-------------------------------- MODULE MCAgent --------------------------------
(* Small instances of AgentController for TLC. *)
EXTENDS AgentController, TLC

CONSTANTS c1, c2, s1, s2   \* model values the configurations draw from

Symmetry == Permutations(Clusters)

=============================================================================
