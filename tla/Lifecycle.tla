------------------------------ MODULE Lifecycle ------------------------------
(***************************************************************************)
(* The lifecycle vocabulary of the state foundation: the persisted         *)
(* statuses, the transition tables and the terminal sets of v5/enums.py.   *)
(* A table is a function from the non-terminal statuses to the statuses    *)
(* each may reach; a status outside its domain is terminal.                *)
(***************************************************************************)

GOAL_TRANSITIONS ==
  [ACTIVE  |-> {"PAUSED", "BLOCKED", "COMPLETED", "CANCELLED", "ARCHIVED"},
   PAUSED  |-> {"ACTIVE", "COMPLETED", "CANCELLED", "ARCHIVED"},
   BLOCKED |-> {"ACTIVE", "CANCELLED"}]

TASK_TRANSITIONS ==
  [PENDING |-> {"ACTIVE", "CANCELLED", "FAILED", "ARCHIVED"},
   ACTIVE  |-> {"PAUSED", "BLOCKED", "COMPLETED", "CANCELLED", "FAILED",
                "ARCHIVED"},
   PAUSED  |-> {"ACTIVE", "COMPLETED", "CANCELLED", "ARCHIVED"},
   BLOCKED |-> {"ACTIVE", "CANCELLED"}]

\* There is no ACTIVE plan status: activity is derived from the task's pointer.
PLAN_TRANSITIONS ==
  [DRAFT   |-> {"BLOCKED", "COMPLETED", "FAILED", "CANCELLED", "SUPERSEDED",
                "ARCHIVED"},
   BLOCKED |-> {"DRAFT", "CANCELLED"}]

STEP_TRANSITIONS ==
  [PENDING   |-> {"READY", "BLOCKED", "CANCELLED", "SKIPPED"},
   READY     |-> {"EXECUTING", "BLOCKED", "CANCELLED", "SKIPPED", "FAILED"},
   EXECUTING |-> {"COMPLETED", "FAILED", "BLOCKED", "CANCELLED"},
   BLOCKED   |-> {"READY", "CANCELLED", "SKIPPED"}]

ACTION_TRANSITIONS ==
  [PENDING   |-> {"EXECUTING", "CANCELLED"},
   EXECUTING |-> {"OBSERVED", "UNKNOWN_OUTCOME", "FAILED", "CANCELLED"}]

GOAL_TERMINAL   == {"COMPLETED", "CANCELLED", "ARCHIVED"}
TASK_TERMINAL   == {"COMPLETED", "FAILED", "CANCELLED", "ARCHIVED"}
PLAN_TERMINAL   == {"COMPLETED", "FAILED", "CANCELLED", "SUPERSEDED", "ARCHIVED"}
STEP_TERMINAL   == {"COMPLETED", "FAILED", "CANCELLED", "SKIPPED"}
ACTION_TERMINAL == {"OBSERVED", "UNKNOWN_OUTCOME", "FAILED", "CANCELLED"}

GoalStatus   == DOMAIN GOAL_TRANSITIONS \cup GOAL_TERMINAL
TaskStatus   == DOMAIN TASK_TRANSITIONS \cup TASK_TERMINAL
PlanStatus   == DOMAIN PLAN_TRANSITIONS \cup PLAN_TERMINAL
StepStatus   == DOMAIN STEP_TRANSITIONS \cup STEP_TERMINAL
ActionStatus == DOMAIN ACTION_TRANSITIONS \cup ACTION_TERMINAL

IntegrityStatus == {"OK", "FROZEN", "ABANDONED_UNREPAIRABLE"}

\* table.get(status, frozenset()) contains target: the move is contracted.
Contracted(table, status, target) ==
  /\ status \in DOMAIN table
  /\ target \in table[status]

\* plan_is_active: the pointer names the plan and the plan is not dead.
plan_is_active(pointer, p, status) ==
  /\ pointer = p
  /\ status \notin {"CANCELLED", "SUPERSEDED", "ARCHIVED"}
=============================================================================
