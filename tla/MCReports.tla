------------------------------- MODULE MCReports -------------------------------
(* A small instance of StatusReports for TLC: a worker node and another     *)
(* one, one gateway, and two writers at a time.                            *)
EXTENDS StatusReports

CONSTANTS n1, n2, g1   \* model values the configuration draws from

=============================================================================
