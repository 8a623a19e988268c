------------------------------ MODULE MCEvidence ------------------------------
(* Instances of the evidence chain for TLC. *)
EXTENDS Evidence, TLC

CONSTANTS g1, t1, a1, a2, s1, s2, f1, x, y, v1, v2

TheGoal == [t \in Tasks |-> g1]
Own     == [a \in Actions |-> IF a = a1 THEN s1 ELSE s2]
OneFile == [a \in Actions |-> f1]
AskForX == [a \in Actions |-> x]

\* The first verification is a requirement of the first step; the second is not
\* a requirement of any step.
FirstBound == [v \in Vers |-> IF v = v1 THEN s1 ELSE NoStep]
WriteRead  == [v \in Vers |-> IF v = v1 THEN "verify_file_write"
                                        ELSE "verify_file_read"]
=============================================================================
