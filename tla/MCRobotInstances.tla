-------------------------- MODULE MCRobotInstances --------------------------
(***************************************************************************)
(* A small instance of RobotInstances.                                     *)
(***************************************************************************)
EXTENDS RobotInstances, TLC

Symmetry == Permutations(Callers) \cup Permutations(Servers)
=============================================================================
