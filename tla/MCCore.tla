-------------------------------- MODULE MCCore --------------------------------
(* Instances of the execution core for TLC. *)
EXTENDS AttemptRefinement, TLC

CONSTANTS g1, t1, t2, p1, p2, a1, a2, a3, o1, o2, o3, w1, w2, c1, c2

\* Every task belongs to the one goal; every plan to the first task.
SameGoal   == [t \in Tasks |-> g1]
FirstTask  == [p \in Plans |-> t1]

\* Ids of one kind are interchangeable when the functions above do not tell them apart.
SymmetryPlans == Permutations({a2, a3}) \cup Permutations({p1, p2})
                 \cup Permutations({c1, c2})
=============================================================================
