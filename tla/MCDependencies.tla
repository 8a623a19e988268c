--------------------------- MODULE MCDependencies ---------------------------
(* Instances of the dependency graph for TLC. *)
EXTENDS Dependencies, TLC

CONSTANTS c1, c2

\* Callers are interchangeable.
CallerSymmetry == Permutations(Callers)
=============================================================================
