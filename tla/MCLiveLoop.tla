------------------------------ MODULE MCLiveLoop ------------------------------
(* Instances of the live loop for TLC. *)
EXTENDS LiveLoop, TLC

CONSTANTS p1, p2, s1, s2, s3, v1, v2

\* The model lists the step that waits first; the second plan has one step.
TwoPlans  == [p \in Plans |-> IF p = p1 THEN <<s1, s2>> ELSE <<s3>>]
WaitFirst == [p \in Plans |-> IF p = p1
                THEN [s \in {s1, s2} |-> IF s = s1 THEN {s2} ELSE {}]
                ELSE [s \in {s3} |-> {}]]

\* Every step of the first plan has a verification of its own.
Both == [v \in Vers |-> IF v = v1 THEN s1 ELSE s2]
=============================================================================
