-------------------------------- MODULE Work --------------------------------
(***************************************************************************)
(* The work service (v5/work.py) at the grain of goals, tasks and plans:   *)
(* who may be active, who is terminal, and which obligations leave with a  *)
(* terminal object.  Every operation is one write transaction.             *)
(*                                                                         *)
(* A task row keeps its revision, because a retry trigger remembers it     *)
(* across transactions; goals and plans do not, nobody does.  What         *)
(* complete_object asks of children and of required verifications is a     *)
(* free choice here: the guard is not refused, so every history the code   *)
(* allows is included.                                                     *)
(***************************************************************************)
EXTENDS Obligations, Naturals

CONSTANTS Plans,            \* plan ids
          PlanTask,         \* the task each plan was created under
          NoPlan,           \* active_plan_id is NULL
          MaxAttempts,      \* the tasks' retry budget
          MaxRev,           \* bound: transition_object moves a task only below
                            \* this revision
          MovedGoals,       \* bound: the goals whose operations are called
          GoalTargets,      \* the target statuses callers pass to
          TaskTargets,      \* transition_object, for each kind of object
          PlanTargets

ASSUME WorkConstants ==
  /\ PlanTask \in [Plans -> Tasks]
  /\ NoPlan \notin Plans
  /\ MovedGoals \subseteq Goals
  /\ MaxAttempts \in Nat
  /\ MaxRev \in Nat

VARIABLES goal, task, plan

workVars == <<goal, task, plan>>

GoalRow == [status: GoalStatus, integrity: IntegrityStatus]
TaskRow == [status: TaskStatus, integrity: IntegrityStatus, rev: Nat,
            active: Plans \cup {NoPlan}, used: Nat]
PlanRow == [status: PlanStatus, successor: Plans \cup {NoPlan}]

\* create_goal, create_task, create_plan: the rows as they are inserted.
NewGoal == [status |-> "ACTIVE", integrity |-> "OK"]
NewTask == [status |-> "PENDING", integrity |-> "OK", rev |-> 0,
            active |-> NoPlan, used |-> 0]
NewPlan == [status |-> "DRAFT", successor |-> NoPlan]

\* Pointing the task at a plan (or at none) bumps its revision.
Point(t, p) == task' = [task EXCEPT ![t].active = p, ![t].rev = @ + 1]

\* Mutant: does not ask that the plan is a DRAFT.
activate_plan_Any(t, p) ==
  /\ task[t].status \in {"ACTIVE", "BLOCKED"}
  /\ \/ task[t].active = NoPlan
     \/ /\ task[t].active # NoPlan
        /\ plan[task[t].active].status \in {"SUPERSEDED", "CANCELLED", "FAILED"}
  /\ PlanTask[p] = t
  /\ Point(t, p)
  /\ UNCHANGED <<goal, plan, obligation>>

activate_plan(t, p) ==
  /\ task[t].status \in {"ACTIVE", "BLOCKED"}
  /\ \/ task[t].active = NoPlan
     \/ /\ task[t].active # NoPlan
        /\ plan[task[t].active].status \in {"SUPERSEDED", "CANCELLED", "FAILED"}
  /\ PlanTask[p] = t
  /\ plan[p].status = "DRAFT"
  /\ Point(t, p)
  /\ UNCHANGED <<goal, plan, obligation>>

supersede_plan(t, old, new) ==
  /\ task[t].status \in {"ACTIVE", "BLOCKED"}
  /\ task[t].active = old
  /\ PlanTask[old] = t
  /\ PlanTask[new] = t
  /\ plan[new].status = "DRAFT"
  /\ plan' = [plan EXCEPT ![old] = [status |-> "SUPERSEDED", successor |-> new]]
  /\ Point(t, new)
  /\ UNCHANGED <<goal, obligation>>

\* Mutant: forgets to clear the plan pointer.
CloseTask_KeepsPlan(t, target) ==
  /\ task' = [task EXCEPT ![t].status = target, ![t].rev = @ + 1]
  /\ TransferSubtree(t)
  /\ UNCHANGED <<goal, plan>>

\* A task reaches `target` and, in the same transaction, loses its plan pointer
\* and gives its OPEN obligations to the registry.
CloseTask(t, target) ==
  /\ task' = [task EXCEPT ![t].status = target, ![t].active = NoPlan,
                          ![t].rev = @ + 1]
  /\ TransferSubtree(t)
  /\ UNCHANGED <<goal, plan>>

CloseGoal(g, target) ==
  /\ goal' = [goal EXCEPT ![g].status = target]
  /\ TransferSubtree(g)
  /\ UNCHANGED <<task, plan>>

\* complete_object asks only that the status is not terminal.
complete_task(t) ==
  /\ task[t].integrity = "OK"
  /\ task[t].status \in DOMAIN TASK_TRANSITIONS
  /\ CloseTask(t, "COMPLETED")

complete_goal(g) ==
  /\ goal[g].integrity = "OK"
  /\ goal[g].status \in DOMAIN GOAL_TRANSITIONS
  /\ CloseGoal(g, "COMPLETED")

\* Mutant: does not consult the transition table.
terminate_task_Uncontracted(t, target) ==
  /\ task[t].integrity = "OK"
  /\ task[t].status # target
  /\ CloseTask(t, target)

\* Mutant: integrity is not looked at.
terminate_task_Frozen(t, target) ==
  /\ Contracted(TASK_TRANSITIONS, task[t].status, target)
  /\ CloseTask(t, target)

\* cancel_task, cancel_goal and archive_object.
terminate_task(t, target) ==
  /\ task[t].integrity = "OK"
  /\ Contracted(TASK_TRANSITIONS, task[t].status, target)
  /\ CloseTask(t, target)

terminate_goal(g, target) ==
  /\ goal[g].integrity = "OK"
  /\ Contracted(GOAL_TRANSITIONS, goal[g].status, target)
  /\ CloseGoal(g, target)

\* transition_object: any contracted target, the status and nothing else.
transition_task(t, target) ==
  /\ task[t].rev < MaxRev
  /\ task[t].integrity = "OK"
  /\ Contracted(TASK_TRANSITIONS, task[t].status, target)
  /\ task' = [task EXCEPT ![t].status = target, ![t].rev = @ + 1]
  /\ UNCHANGED <<goal, plan, obligation>>

transition_goal(g, target) ==
  /\ goal[g].integrity = "OK"
  /\ Contracted(GOAL_TRANSITIONS, goal[g].status, target)
  /\ goal' = [goal EXCEPT ![g].status = target]
  /\ UNCHANGED <<task, plan, obligation>>

transition_plan(p, target) ==
  /\ Contracted(PLAN_TRANSITIONS, plan[p].status, target)
  /\ plan' = [plan EXCEPT ![p].status = target]
  /\ UNCHANGED <<goal, task, obligation>>

\* freeze_object; freezing what is FROZEN already changes nothing.
freeze_task(t) ==
  /\ task[t].integrity # "FROZEN"
  /\ task' = [task EXCEPT ![t].integrity = "FROZEN", ![t].rev = @ + 1]
  /\ UNCHANGED <<goal, plan, obligation>>

freeze_goal(g) ==
  /\ goal[g].integrity # "FROZEN"
  /\ goal' = [goal EXCEPT ![g].integrity = "FROZEN"]
  /\ UNCHANGED <<task, plan, obligation>>

WorkInit ==
  /\ goal = [g \in Goals |-> NewGoal]
  /\ task = [t \in Tasks |-> NewTask]
  /\ plan = [p \in Plans |-> NewPlan]
  /\ obligation = [o \in Obls |-> NoObl]

WorkNext ==
  \/ \E t \in Tasks :
       \/ \E p \in Plans : activate_plan(t, p)
       \/ \E old, new \in Plans : supersede_plan(t, old, new)
       \/ complete_task(t)
       \/ \E target \in {"CANCELLED", "ARCHIVED"} : terminate_task(t, target)
       \/ \E target \in TaskTargets : transition_task(t, target)
       \/ freeze_task(t)
  \/ \E g \in MovedGoals :
       \/ complete_goal(g)
       \/ \E target \in {"CANCELLED", "ARCHIVED"} : terminate_goal(g, target)
       \/ \E target \in GoalTargets : transition_goal(g, target)
       \/ freeze_goal(g)
  \/ \E p \in Plans : \E target \in PlanTargets : transition_plan(p, target)
=============================================================================
