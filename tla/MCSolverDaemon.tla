--------------------------- MODULE MCSolverDaemon ---------------------------
(***************************************************************************)
(* SolverDaemon for TLC: its callers and its shapes are interchangeable.   *)
(***************************************************************************)
EXTENDS SolverDaemon, TLC

CallerSymmetry == Permutations(Callers) \cup Permutations(Shapes)
=============================================================================
