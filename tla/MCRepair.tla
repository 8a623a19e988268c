------------------------------- MODULE MCRepair -------------------------------
(* Instances of integrity repair for TLC. *)
EXTENDS Repair, TLC

CONSTANTS g1, t1, p1, p2, a1, o1, o2, h1, h2

TheGoal == [t \in Tasks |-> g1]
TheTask == [p \in Plans |-> t1]

\* Each kind's repairs include one that undoes a final state, one that ends the
\* object, and one that touches the field other rows hang on.
RepairGoal   == {[status |-> "CANCELLED"]}
RepairTask   == {[status |-> "ACTIVE"], [status |-> "FAILED"], [active |-> p1], [active |-> NoPlan]}
RepairPlan   == {[status |-> "DRAFT"], [status |-> "SUPERSEDED"]}
RepairAction == {[status |-> s] : s \in {"PENDING", "EXECUTING", "OBSERVED"}}
RepairObl    == {[owner |-> t1], [disposition |-> "OPEN"]}

Symmetry == Permutations({h1, h2})
=============================================================================
