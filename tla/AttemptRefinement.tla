-------------------------- MODULE AttemptRefinement --------------------------
(***************************************************************************)
(* The execution core implements the attempt ledger: the ledger's stage is *)
(* read off the action row, except that a CANCELLED row says nothing about *)
(* whether the attempt ran, which only the threads and the world know.     *)
(***************************************************************************)
EXTENDS Core

InFlight(w, a) ==
  /\ worker[w].action = a
  /\ worker[w].pc \in {"begun", "returned", "no_effect", "raised"}

MayHaveRun(a) == effect[a] = 1 \/ \E w \in Workers : InFlight(w, a)

LedgerStage(a) ==
  CASE action[a].status = "ABSENT"          -> "unborn"
    [] action[a].status = "PENDING"         -> "intended"
    [] action[a].status = "EXECUTING"       -> "started"
    [] action[a].status = "OBSERVED"        -> "succeeded"
    [] action[a].status = "FAILED"          -> "no_effect"
    [] action[a].status = "UNKNOWN_OUTCOME" -> "uncertain"
    [] OTHER -> IF MayHaveRun(a) THEN "revoked" ELSE "withdrawn"

Ledger == INSTANCE AttemptLedger
            WITH Attempts <- Actions,
                 stage <- [a \in Actions |-> LedgerStage(a)],
                 done <- effect

\* Laws 7 to 10 together (execute_action with every race around it): whatever
\* threads, retries, freezes, plan changes, crashes and recoveries do to the
\* rows, what happens to an attempt is what the ledger allows.
ImplementsLedger == Ledger!LedgerSpec
=============================================================================
