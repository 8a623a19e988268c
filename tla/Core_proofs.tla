----------------------------- MODULE Core_proofs -----------------------------
(***************************************************************************)
(* What the execution core promises, for every set of actions, threads,    *)
(* plans and tasks.                                                        *)
(*                                                                         *)
(* Attempts: at most one effect per attempt, only after a durable intent   *)
(* and recorded truthfully, and every step is a step of the attempt        *)
(* ledger.  Facts about the transition tables come first, then types, then *)
(* the attempts, then the refinement.                                      *)
(*                                                                         *)
(* Endings: what is terminal stays so, what ends hands its open            *)
(* obligations over in the same step, an uncertain attempt stays owed for  *)
(* ever, and what plans and retries keep meanwhile.  This part says once   *)
(* how a step may move each kind of row; its theorems read off those       *)
(* moves.                                                                  *)
(***************************************************************************)
EXTENDS Core, AttemptRefinement, FiniteSetTheorems, TLAPS

(* What the transition tables promise, as facts the other proofs cite.     *)

\* A contracted move of each kind of object leaves a status that is not
\* terminal and reaches a status of that kind (GOAL_ to ACTION_TRANSITIONS).
LEMMA GoalMoves ==
  ASSUME NEW s, NEW target, Contracted(GOAL_TRANSITIONS, s, target)
  PROVE  s \notin GOAL_TERMINAL /\ target \in GoalStatus
BY DEF Contracted, GOAL_TRANSITIONS, GOAL_TERMINAL, GoalStatus

\* The same for tasks.
LEMMA TaskMoves ==
  ASSUME NEW s, NEW target, Contracted(TASK_TRANSITIONS, s, target)
  PROVE  s \notin TASK_TERMINAL /\ target \in TaskStatus
BY DEF Contracted, TASK_TRANSITIONS, TASK_TERMINAL, TaskStatus

\* The same for plans.
LEMMA PlanMoves ==
  ASSUME NEW s, NEW target, Contracted(PLAN_TRANSITIONS, s, target)
  PROVE  s \notin PLAN_TERMINAL /\ target \in PlanStatus
BY DEF Contracted, PLAN_TRANSITIONS, PLAN_TERMINAL, PlanStatus

\* An attempt starts only from PENDING.
LEMMA StartsFromPending ==
  ASSUME NEW s
  PROVE  Contracted(ACTION_TRANSITIONS, s, "EXECUTING") <=> s = "PENDING"
BY DEF Contracted, ACTION_TRANSITIONS

\* An attempt is settled only from EXECUTING.
LEMMA SettlesFromExecuting ==
  ASSUME NEW s, NEW target \in {"OBSERVED", "UNKNOWN_OUTCOME", "FAILED"}
  PROVE  Contracted(ACTION_TRANSITIONS, s, target) <=> s = "EXECUTING"
BY DEF Contracted, ACTION_TRANSITIONS

\* An attempt is cancelled only before it is settled.
LEMMA CancelsUnsettled ==
  ASSUME NEW s
  PROVE  Contracted(ACTION_TRANSITIONS, s, "CANCELLED")
         <=> s \in {"PENDING", "EXECUTING"}
BY DEF Contracted, ACTION_TRANSITIONS

\* No status is both terminal and the origin of a move.
LEMMA TerminalHasNoMoves ==
  /\ DOMAIN GOAL_TRANSITIONS \cap GOAL_TERMINAL = {}
  /\ DOMAIN TASK_TRANSITIONS \cap TASK_TERMINAL = {}
  /\ DOMAIN PLAN_TRANSITIONS \cap PLAN_TERMINAL = {}
  /\ DOMAIN STEP_TRANSITIONS \cap STEP_TERMINAL = {}
  /\ DOMAIN ACTION_TRANSITIONS \cap ACTION_TERMINAL = {}
BY DEF GOAL_TRANSITIONS, GOAL_TERMINAL, TASK_TRANSITIONS, TASK_TERMINAL,
       PLAN_TRANSITIONS, PLAN_TERMINAL, STEP_TRANSITIONS, STEP_TERMINAL,
       ACTION_TRANSITIONS, ACTION_TERMINAL

\* The statuses the operations write by name exist.
LEMMA NamedStatuses ==
  /\ {"ACTIVE", "COMPLETED", "CANCELLED", "ARCHIVED"} \subseteq GoalStatus
  /\ {"PENDING", "COMPLETED", "CANCELLED", "ARCHIVED"} \subseteq TaskStatus
  /\ {"DRAFT", "SUPERSEDED"} \subseteq PlanStatus
  /\ ActionStatus = {"PENDING", "EXECUTING", "OBSERVED", "UNKNOWN_OUTCOME",
                     "FAILED", "CANCELLED"}
BY DEF GoalStatus, TaskStatus, PlanStatus, ActionStatus, GOAL_TRANSITIONS,
       GOAL_TERMINAL, TASK_TRANSITIONS, TASK_TERMINAL, PLAN_TRANSITIONS,
       PLAN_TERMINAL, ACTION_TRANSITIONS, ACTION_TERMINAL

-----------------------------------------------------------------------------
(* Types.  TypeOK is not inductive by itself: the owner of an obligation   *)
(* is found through an action's plan, so it takes that an existing action  *)
(* has one, and that a busy thread holds an existing action.               *)

Exists(a) == action[a].status # "ABSENT"

RowsHavePlans == \A a \in Actions : Exists(a) => action[a].plan \in Plans

ThreadsHoldRows ==
  \A w \in Workers : worker[w].pc # "idle" =>
    worker[w].action \in Actions /\ Exists(worker[w].action)

TriggersHoldRows ==
  \A c \in Triggers : trigger[c].action # NoAction => Exists(trigger[c].action)

TypeInv == TypeOK /\ RowsHavePlans /\ ThreadsHoldRows /\ TriggersHoldRows

-----------------------------------------------------------------------------
(* The ways the operations write rows.                                     *)

\* The owner an uncertain outcome is charged to is a task (_owning_task_id_locked).
LEMMA OwnerIsTask ==
  ASSUME TypeInv, NEW a \in Actions, Exists(a)
  PROVE  TaskOf(a) \in Tasks
BY WorkConstants DEF TypeInv, RowsHavePlans, TaskOf

\* An obligation that is minted has a row's type (save_new_obligation).
LEMMA MintType ==
  ASSUME obligation \in [Obls -> OblRow], NEW o \in Obls, NEW a \in Actions,
         NEW owner \in Owners, Mint(o, a, owner)
  PROVE  obligation' \in [Obls -> OblRow]
BY DEF Mint, OblRow, Disposition

\* Handing a subtree over keeps every row's type
\* (transfer_subtree_obligations_to_uor_locked).
LEMMA TransferSubtreeType ==
  ASSUME obligation \in [Obls -> OblRow], NEW obj, TransferSubtree(obj)
  PROVE  obligation' \in [Obls -> OblRow]
BY DEF TransferSubtree, OblRow, Owners

\* A status write keeps the action rows, their plans and who exists.
LEMMA SetStatusType ==
  ASSUME TypeInv, NEW a \in Actions, Exists(a),
         NEW target \in ActionStatus, SetStatus(a, target)
  PROVE  /\ action' \in [Actions -> ActionRow]
         /\ RowsHavePlans'
         /\ \A b \in Actions : Exists(b)' <=> Exists(b)
BY NamedStatuses DEF TypeInv, TypeOK, ActionRow, RowsHavePlans, Exists, SetStatus

\* An inserted row has a plan, and no row disappears.
LEMMA InsertType ==
  ASSUME TypeInv, NEW a \in Actions, NEW p \in Plans,
         NEW origin \in Actions \cup {NoAction}, Insert(a, p, origin)
  PROVE  /\ action' \in [Actions -> ActionRow]
         /\ RowsHavePlans'
         /\ \A b \in Actions : Exists(b) => Exists(b)'
BY NamedStatuses DEF TypeInv, TypeOK, ActionRow, RowsHavePlans, Exists, Insert,
   IntegrityStatus

\* Closing a task keeps the task rows' type (_terminal_transition).
LEMMA CloseTaskType ==
  ASSUME TypeOK, NEW t \in Tasks, NEW target \in TaskStatus, CloseTask(t, target)
  PROVE  task' \in [Tasks -> TaskRow] /\ obligation' \in [Obls -> OblRow]
BY TransferSubtreeType DEF TypeOK, CloseTask, TaskRow

\* Closing a goal keeps the goal rows' type (_terminal_transition).
LEMMA CloseGoalType ==
  ASSUME TypeOK, NEW g \in Goals, NEW target \in GoalStatus, CloseGoal(g, target)
  PROVE  goal' \in [Goals -> GoalRow] /\ obligation' \in [Obls -> OblRow]
BY TransferSubtreeType DEF TypeOK, CloseGoal, GoalRow

\* Pointing a task at a plan keeps its row's type (activate_plan).
LEMMA PointType ==
  ASSUME TypeOK, NEW t \in Tasks, NEW p \in Plans \cup {NoPlan}, Point(t, p)
  PROVE  task' \in [Tasks -> TaskRow]
BY DEF TypeOK, Point, TaskRow

-----------------------------------------------------------------------------
(* The steps.                                                              *)

WorkTypes ==
  /\ obligation \in [Obls -> OblRow]
  /\ goal \in [Goals -> GoalRow]
  /\ task \in [Tasks -> TaskRow]
  /\ plan \in [Plans -> PlanRow]

\* Every operation of the work service keeps the rows' types.
LEMMA WorkKeepsTypes ==
  ASSUME TypeOK, WorkNext
  PROVE  WorkTypes'
<1> USE DEF TypeOK, WorkTypes
<1>1. ASSUME NEW t \in Tasks, NEW p \in Plans, activate_plan(t, p)
      PROVE  WorkTypes'
  BY <1>1, PointType DEF activate_plan
<1>2. ASSUME NEW t \in Tasks, NEW old \in Plans, NEW new \in Plans,
             supersede_plan(t, old, new)
      PROVE  WorkTypes'
  BY <1>2, PointType, NamedStatuses DEF supersede_plan, PlanRow
<1>3. ASSUME NEW t \in Tasks, complete_task(t)
      PROVE  WorkTypes'
  <2>1. CloseTask(t, "COMPLETED")
    BY <1>3 DEF complete_task
  <2> QED
    BY <2>1, CloseTaskType, NamedStatuses DEF CloseTask
<1>4. ASSUME NEW t \in Tasks, NEW target \in {"CANCELLED", "ARCHIVED"},
             terminate_task(t, target)
      PROVE  WorkTypes'
  <2>1. CloseTask(t, target)
    BY <1>4 DEF terminate_task
  <2> QED
    BY <2>1, CloseTaskType, NamedStatuses DEF CloseTask
<1>5. ASSUME NEW t \in Tasks, NEW target \in TaskTargets,
             transition_task(t, target)
      PROVE  WorkTypes'
  BY <1>5, TaskMoves DEF transition_task, TaskRow
<1>6. ASSUME NEW t \in Tasks, freeze_task(t)
      PROVE  WorkTypes'
  BY <1>6 DEF freeze_task, TaskRow, IntegrityStatus
<1>7. ASSUME NEW g \in Goals, complete_goal(g)
      PROVE  WorkTypes'
  <2>1. CloseGoal(g, "COMPLETED")
    BY <1>7 DEF complete_goal
  <2> QED
    BY <2>1, CloseGoalType, NamedStatuses DEF CloseGoal
<1>8. ASSUME NEW g \in Goals, NEW target \in {"CANCELLED", "ARCHIVED"},
             terminate_goal(g, target)
      PROVE  WorkTypes'
  <2>1. CloseGoal(g, target)
    BY <1>8 DEF terminate_goal
  <2> QED
    BY <2>1, CloseGoalType, NamedStatuses DEF CloseGoal
<1>9. ASSUME NEW g \in Goals, NEW target \in GoalTargets,
             transition_goal(g, target)
      PROVE  WorkTypes'
  BY <1>9, GoalMoves DEF transition_goal, GoalRow
<1>10. ASSUME NEW g \in Goals, freeze_goal(g)
       PROVE  WorkTypes'
  BY <1>10 DEF freeze_goal, GoalRow, IntegrityStatus
<1>11. ASSUME NEW p \in Plans, NEW target \in PlanTargets,
              transition_plan(p, target)
       PROVE  WorkTypes'
  BY <1>11, PlanMoves DEF transition_plan, PlanRow
<1> QED
  BY <1>1, <1>2, <1>3, <1>4, <1>5, <1>6, <1>7, <1>8, <1>9, <1>10, <1>11,
     WorkConstants
  DEF WorkNext

\* Every operation of the obligations service keeps the rows' types.
LEMMA ObligationsKeepTypes ==
  ASSUME TypeOK, ObligationStep
  PROVE  obligation' \in [Obls -> OblRow]
<1> USE DEF TypeOK
<1>1. ASSUME NEW o \in Obls, NEW a \in Actions, NEW owner \in Owners,
             create_obligation(o, a, owner)
      PROVE  obligation' \in [Obls -> OblRow]
  BY <1>1, MintType DEF create_obligation
<1>2. ASSUME NEW o \in Obls, NEW new \in Owners, NEW expected \in Owners,
             transfer_obligation(o, new, expected)
      PROVE  obligation' \in [Obls -> OblRow]
  BY <1>2 DEF transfer_obligation, OblRow
<1>3. ASSUME NEW o \in Obls, abandon_obligation(o)
      PROVE  obligation' \in [Obls -> OblRow]
  BY <1>3 DEF abandon_obligation, OblRow, Disposition
<1>4. ASSUME NEW o \in Obls, resolve_obligation(o, observed)
      PROVE  obligation' \in [Obls -> OblRow]
  BY <1>4 DEF resolve_obligation, OblRow, Disposition
<1> QED
  BY <1>1, <1>2, <1>3, <1>4 DEF ObligationStep

\* create_action, cancel_action and freeze_action keep the type invariant.
LEMMA ActionKeepsTypes ==
  ASSUME TypeInv, NEW a \in Actions, ActionStep(a), UNCHANGED procVars
  PROVE  TypeInv'
<1> USE DEF TypeInv, TypeOK, procVars, ThreadsHoldRows, TriggersHoldRows
<1>1. ASSUME NEW p \in Plans, create_action(a, p)
      PROVE  TypeInv'
  BY <1>1, InsertType DEF create_action, Worker, Trigger
<1>2. CASE cancel_action(a)
  <2>1. Exists(a)
    BY <1>2, CancelsUnsettled DEF cancel_action, MayBecome, Exists
  <2> QED
    BY <1>2, <2>1, SetStatusType, NamedStatuses DEF cancel_action, Worker, Trigger
<1>3. CASE freeze_action(a)
  <2>1. /\ action' \in [Actions -> ActionRow]
        /\ RowsHavePlans'
        /\ \A b \in Actions : Exists(b)' <=> Exists(b)
    BY <1>3 DEF freeze_action, ActionRow, IntegrityStatus, RowsHavePlans, Exists
  <2> QED
    BY <1>3, <2>1 DEF freeze_action, Worker, Trigger
<1> QED
  BY <1>1, <1>2, <1>3 DEF ActionStep

\* A thread's own steps keep the type invariant (execute_action).
LEMMA ThreadKeepsTypes ==
  ASSUME TypeInv, NEW w \in Workers, UNCHANGED procVars,
         Executing(w) \/ \E a \in Actions : hold_action(w, a)
  PROVE  TypeInv'
<1> USE DEF TypeInv, TypeOK, procVars, ThreadsHoldRows, TriggersHoldRows
<1> DEFINE a == worker[w].action
<1>1. ASSUME NEW b \in Actions, hold_action(w, b)
      PROVE  TypeInv'
  <2>1. worker' \in [Workers -> Worker] /\ ThreadsHoldRows'
    BY <1>1 DEF hold_action, rowVars, Worker, WorkerPC, ActionRow, Exists
  <2> QED
    BY <1>1, <2>1 DEF hold_action, rowVars, workVars, RowsHavePlans, Exists
<1>2. CASE begin_executing(w)
  <2>1. a \in Actions /\ Exists(a)
    BY <1>2 DEF begin_executing
  <2>2. /\ action' \in [Actions -> ActionRow]
        /\ RowsHavePlans'
        /\ \A b \in Actions : Exists(b)' <=> Exists(b)
    BY <1>2, <2>1, SetStatusType, NamedStatuses DEF begin_executing
  <2>3. worker' \in [Workers -> Worker] /\ ThreadsHoldRows'
    BY <1>2, <2>1, <2>2 DEF begin_executing, Worker, WorkerPC
  <2> QED
    BY <1>2, <2>2, <2>3 DEF begin_executing, Trigger
<1>3. CASE begin_rejected(w) \/ report_rejected(w)
  <2>1. /\ worker' = [worker EXCEPT ![w] = Idle]
        /\ UNCHANGED <<rowVars, effect, trigger>>
    BY <1>3 DEF begin_rejected, report_rejected
  <2>2. worker' \in [Workers -> Worker] /\ ThreadsHoldRows'
    BY <2>1 DEF rowVars, Worker, WorkerPC, Idle, Exists
  <2> QED
    BY <2>1, <2>2 DEF rowVars, workVars, RowsHavePlans, Exists
<1>4. CASE capability_returns(w) \/ capability_refuses(w) \/ capability_raises(w)
  <2>1. PICK pc \in WorkerPC : /\ worker[w].pc = "begun"
                              /\ worker' = [worker EXCEPT ![w].pc = pc]
                              /\ UNCHANGED <<rowVars, trigger>>
    BY <1>4 DEF capability_returns, capability_refuses, capability_raises, WorkerPC
  <2>2. worker' \in [Workers -> Worker]
    BY <2>1 DEF Worker
  <2>3. ThreadsHoldRows'
    BY <2>1 DEF rowVars, Exists
  <2>4. effect' \in [Actions -> Nat]
    BY <1>4 DEF capability_returns, capability_refuses, capability_raises
  <2> QED
    BY <2>1, <2>2, <2>3, <2>4 DEF rowVars, workVars, RowsHavePlans, Exists
<1>5. CASE mark_observed(w) \/ mark_failed(w)
  <2>1. a \in Actions /\ Exists(a)
    BY <1>5 DEF mark_observed, mark_failed
  <2>2. /\ action' \in [Actions -> ActionRow]
        /\ RowsHavePlans'
        /\ \A b \in Actions : Exists(b)' <=> Exists(b)
    BY <1>5, <2>1, SetStatusType, NamedStatuses DEF mark_observed, mark_failed
  <2>3. worker' \in [Workers -> Worker] /\ ThreadsHoldRows'
    BY <1>5, <2>1, <2>2 DEF mark_observed, mark_failed, Worker, WorkerPC, Idle
  <2> QED
    BY <1>5, <2>1, <2>2, <2>3 DEF mark_observed, mark_failed, Trigger
<1>6. CASE mark_unknown_outcome(w)
  <2>1. a \in Actions /\ Exists(a)
    BY <1>6 DEF mark_unknown_outcome
  <2>2. /\ action' \in [Actions -> ActionRow]
        /\ RowsHavePlans'
        /\ \A b \in Actions : Exists(b)' <=> Exists(b)
    BY <1>6, <2>1, SetStatusType, NamedStatuses
    DEF mark_unknown_outcome, unknown_outcome
  <2>3. worker' \in [Workers -> Worker] /\ ThreadsHoldRows'
    BY <1>6, <2>1, <2>2 DEF mark_unknown_outcome, Worker, WorkerPC, Idle
  <2>4. obligation' \in [Obls -> OblRow]
    BY <1>6, <2>1, MintType, OwnerIsTask
    DEF mark_unknown_outcome, unknown_outcome, Owners
  <2> QED
    BY <1>6, <2>2, <2>3, <2>4 DEF mark_unknown_outcome, Trigger
<1> QED
  BY <1>1, <1>2, <1>3, <1>4, <1>5, <1>6 DEF Executing

\* Deciding on a retry, making it and being refused keep the type invariant.
LEMMA RetryKeepsTypes ==
  ASSUME TypeInv, NEW c \in Triggers, RetryStep(c), UNCHANGED procVars
  PROVE  TypeInv'
<1> USE DEF TypeInv, TypeOK, procVars, ThreadsHoldRows, TriggersHoldRows
<1>1. ASSUME NEW a \in Actions, decide_retry(c, a)
      PROVE  TypeInv'
  <2>1. Exists(a)
    BY <1>1 DEF decide_retry, Retryable, Exists
  <2>2. task[TaskOf(a)].rev \in Nat
    BY <2>1, OwnerIsTask DEF TaskRow
  <2>3. trigger' \in [Triggers -> Trigger] /\ TriggersHoldRows'
    BY <1>1, <2>1, <2>2 DEF decide_retry, rowVars, Trigger, Exists
  <2> QED
    BY <1>1, <2>3 DEF decide_retry, rowVars, RowsHavePlans, Exists
<1>2. CASE retry_action(c)
  <2> DEFINE a == trigger[c].action
  <2>1. a \in Actions /\ Exists(a) /\ action[a].plan \in Plans
    BY <1>2 DEF retry_action, Trigger, RowsHavePlans
  <2>2. PICK b \in Actions : Insert(b, action[a].plan, a)
    BY <1>2 DEF retry_action
  <2>3. /\ action' \in [Actions -> ActionRow]
        /\ RowsHavePlans'
        /\ \A d \in Actions : Exists(d) => Exists(d)'
    BY <2>1, <2>2, InsertType
  <2>4. task' \in [Tasks -> TaskRow]
    BY <1>2, <2>1, OwnerIsTask DEF retry_action, ChargeRetry, TaskRow
  <2>5. trigger' \in [Triggers -> Trigger] /\ TriggersHoldRows'
    BY <1>2, <2>3 DEF retry_action, Trigger, NoTrigger
  <2> QED
    BY <1>2, <2>3, <2>4, <2>5 DEF retry_action, Worker
<1>3. CASE retry_rejected(c)
  <2>1. trigger' \in [Triggers -> Trigger] /\ TriggersHoldRows'
    BY <1>3 DEF retry_rejected, rowVars, Trigger, NoTrigger, Exists
  <2> QED
    BY <1>3, <2>1 DEF retry_rejected, rowVars, RowsHavePlans, Exists
<1> QED
  BY <1>1, <1>2, <1>3 DEF RetryStep

\* Dying, restarting and recovering keep the type invariant (recover).
LEMMA ProcessKeepsTypes ==
  ASSUME TypeInv, crash \/ restart \/ Recovering
  PROVE  TypeInv'
<1> USE DEF TypeInv, TypeOK, ThreadsHoldRows, TriggersHoldRows
<1>1. CASE crash
  BY <1>1 DEF crash, rowVars, Worker, WorkerPC, Idle, Trigger, NoTrigger,
              RowsHavePlans, Exists
<1>2. CASE restart
  BY <1>2 DEF restart, rowVars, RowsHavePlans, Exists
<1>3. ASSUME NEW a \in Actions, recover_marks(a)
      PROVE  TypeInv'
  <2>1. Exists(a)
    BY <1>3, SettlesFromExecuting DEF recover_marks, Uncertain, MayBecome, Exists
  <2>2. /\ action' \in [Actions -> ActionRow]
        /\ RowsHavePlans'
        /\ \A b \in Actions : Exists(b)' <=> Exists(b)
    BY <1>3, <2>1, SetStatusType, NamedStatuses DEF recover_marks, unknown_outcome
  <2>3. obligation' \in [Obls -> OblRow]
    BY <1>3, <2>1, MintType, OwnerIsTask DEF recover_marks, unknown_outcome, Owners
  <2> QED
    BY <1>3, <2>2, <2>3 DEF recover_marks, Worker, Trigger
<1>4. ASSUME NEW a \in Actions, recover_skips(a)
      PROVE  TypeInv'
  BY <1>4 DEF recover_skips, rowVars, RowsHavePlans, Exists
<1>5. CASE recovered
  BY <1>5 DEF recovered, rowVars, RowsHavePlans, Exists
<1> QED
  BY <1>1, <1>2, <1>3, <1>4, <1>5 DEF Recovering

\* The initial rows, threads and process are well typed (Store is empty).
LEMMA TypesInitially ==
  ASSUME Init
  PROVE  TypeInv
BY NamedStatuses
DEF Init, WorkInit, NewGoal, NewTask, NewPlan, NoObl, NoRow, Idle, NoTrigger,
    TypeInv, TypeOK, RowsHavePlans, ThreadsHoldRows, TriggersHoldRows, Exists,
    OblRow, Disposition, Owners, GoalRow, TaskRow, PlanRow, ActionRow, Worker,
    WorkerPC, Trigger, IntegrityStatus

\* Every step keeps the type invariant.
LEMMA StepKeepsTypes ==
  ASSUME TypeInv, [Next]_vars
  PROVE  TypeInv'
<1>1. CASE WorkStep /\ UNCHANGED procVars
  BY <1>1, WorkKeepsTypes
  DEF WorkStep, procVars, TypeInv, TypeOK, WorkTypes, RowsHavePlans,
      ThreadsHoldRows, TriggersHoldRows, Exists
<1>2. CASE ObligationStep /\ UNCHANGED procVars
  BY <1>2, ObligationsKeepTypes
  DEF ObligationStep, workVars, procVars, TypeInv, TypeOK, RowsHavePlans,
      ThreadsHoldRows, TriggersHoldRows, Exists
<1>3. CASE UNCHANGED vars
  BY <1>3 DEF vars, rowVars, procVars, TypeInv, TypeOK, RowsHavePlans,
              ThreadsHoldRows, TriggersHoldRows, Exists
<1> QED
  BY <1>1, <1>2, <1>3, ActionKeepsTypes, ThreadKeepsTypes, RetryKeepsTypes,
     ProcessKeepsTypes
  DEF Next, Serving

\* Every reachable state of the execution core is well typed.
THEOREM TypesAlwaysOK == Spec => []TypeOK
<1>1. TypeInv => TypeOK
  BY DEF TypeInv
<1> QED
  BY <1>1, TypesInitially, StepKeepsTypes, PTL DEF Spec

-----------------------------------------------------------------------------
(* Attempts.  The invariant ties each thread to the row it is working on.  *)
(* A thread in flight owns its attempt: nobody else is in flight for it,   *)
(* nothing but a cancellation has moved it, and how far the thread has     *)
(* come says what has happened outside.                                    *)

\* Threads exist only while the process serves.
QuietUnlessUp == process # "up" => \A w \in Workers : worker[w] = Idle

\* While a thread is in flight only a cancellation moves its attempt.
InFlightUnsettled ==
  \A w \in Workers, a \in Actions :
    InFlight(w, a) => action[a].status \in {"EXECUTING", "CANCELLED"}

\* An attempt has one thread.
OneThreadEach ==
  \A v, w \in Workers, a \in Actions : InFlight(v, a) /\ InFlight(w, a) => v = w

\* What a thread has done to the world, by how far it has come.
EffectByProgress ==
  \A w \in Workers :
    /\ worker[w].pc \in {"begun", "no_effect"} => effect[worker[w].action] = 0
    /\ worker[w].pc = "returned" => effect[worker[w].action] = 1

\* What has happened to the world, by what the row says.
EffectByStatus ==
  \A a \in Actions :
    /\ effect[a] \in {0, 1}
    /\ action[a].status \in {"ABSENT", "PENDING", "FAILED"} => effect[a] = 0
    /\ action[a].status = "OBSERVED" => effect[a] = 1

AttemptInv ==
  /\ QuietUnlessUp
  /\ InFlightUnsettled
  /\ OneThreadEach
  /\ EffectByProgress
  /\ EffectByStatus
  /\ ObservationIffObserved

-----------------------------------------------------------------------------
(* The steps.                                                              *)

\* A step that touches no action row, no thread and not the world keeps the
\* invariant: all of the work and obligations services, and a trigger's waiting.
LEMMA QuietSteps ==
  ASSUME AttemptInv, UNCHANGED <<action, observed, effect, worker>>,
         process' = "up" \/ \A w \in Workers : worker[w] = Idle
  PROVE  AttemptInv'
BY DEF AttemptInv, QuietUnlessUp, InFlightUnsettled, OneThreadEach,
       EffectByProgress, EffectByStatus, ObservationIffObserved, InFlight

\* Inserting an attempt (create_action, retry_action) keeps the invariant.
LEMMA InsertSteps ==
  ASSUME TypeInv, AttemptInv, NEW a \in Actions, NEW p \in Plans,
         NEW origin \in Actions \cup {NoAction}, Insert(a, p, origin),
         UNCHANGED <<observed, effect, worker, process>>
  PROVE  AttemptInv'
<1> USE DEF TypeInv, TypeOK, AttemptInv
<1>1. /\ action[a].status = "ABSENT"
      /\ action'[a].status = "PENDING"
      /\ \A b \in Actions \ {a} : action'[b] = action[b]
  BY DEF Insert
<1>2. \A w \in Workers : ~InFlight(w, a)
  BY <1>1 DEF InFlightUnsettled
<1>3. QuietUnlessUp' /\ OneThreadEach' /\ EffectByProgress'
  BY DEF QuietUnlessUp, OneThreadEach, EffectByProgress, InFlight
<1>4. InFlightUnsettled'
  BY <1>1, <1>2 DEF InFlightUnsettled, InFlight
<1>5. EffectByStatus' /\ ObservationIffObserved'
  BY <1>1 DEF EffectByStatus, ObservationIffObserved
<1> QED
  BY <1>3, <1>4, <1>5

\* Cancelling an attempt, and freezing one, keep the invariant.
LEMMA HostSteps ==
  ASSUME TypeInv, AttemptInv, NEW a \in Actions,
         cancel_action(a) \/ freeze_action(a), UNCHANGED process
  PROVE  AttemptInv'
<1> USE DEF TypeInv, TypeOK, AttemptInv
<1>1. /\ UNCHANGED <<observed, effect, worker>>
      /\ \A b \in Actions :
           \/ action'[b].status = action[b].status
           \/ /\ action'[b].status = "CANCELLED"
              /\ action[b].status \in {"PENDING", "EXECUTING"}
  BY CancelsUnsettled
  DEF cancel_action, freeze_action, SetStatus, MayBecome, ActionRow
<1>2. QuietUnlessUp' /\ OneThreadEach' /\ EffectByProgress'
  BY <1>1 DEF QuietUnlessUp, OneThreadEach, EffectByProgress, InFlight
<1>3. InFlightUnsettled'
  BY <1>1 DEF InFlightUnsettled, InFlight
<1>4. EffectByStatus' /\ ObservationIffObserved'
  BY <1>1 DEF EffectByStatus, ObservationIffObserved
<1> QED
  BY <1>2, <1>3, <1>4

\* A thread that takes an action up or lets it go keeps the invariant.
LEMMA TakeOrLetGo ==
  ASSUME TypeInv, AttemptInv, NEW w \in Workers, NEW r,
         worker' = [worker EXCEPT ![w] = r],
         r.pc \in {"idle", "holding"}, process = "up",
         UNCHANGED <<action, observed, effect, process>>
  PROVE  AttemptInv'
<1> USE DEF TypeInv, TypeOK, AttemptInv
<1>1. /\ worker'[w] = r
      /\ \A v \in Workers \ {w} : worker'[v] = worker[v]
  OBVIOUS
<1>2. \A v \in Workers, a \in Actions : InFlight(v, a)' => InFlight(v, a)
  BY <1>1 DEF InFlight
<1>3. InFlightUnsettled' /\ OneThreadEach'
  BY <1>2 DEF InFlightUnsettled, OneThreadEach
<1>4. EffectByProgress'
  BY <1>1 DEF EffectByProgress
<1> QED
  BY <1>3, <1>4 DEF QuietUnlessUp, EffectByStatus, ObservationIffObserved

\* A thread that settles its attempt and lets it go keeps the invariant, when
\* what it writes is true.
LEMMA Settle ==
  ASSUME TypeInv, AttemptInv, NEW w \in Workers, NEW a \in Actions,
         NEW target \in {"OBSERVED", "FAILED", "UNKNOWN_OUTCOME"},
         InFlight(w, a), action[a].status = "EXECUTING", SetStatus(a, target),
         worker' = [worker EXCEPT ![w] = Idle],
         target = "OBSERVED" => effect[a] = 1,
         target = "FAILED" => effect[a] = 0,
         observed' = IF target = "OBSERVED" THEN observed \cup {a} ELSE observed,
         process = "up", UNCHANGED <<effect, process>>
  PROVE  AttemptInv'
<1> USE DEF TypeInv, TypeOK, AttemptInv
<1>1. /\ worker'[w] = Idle
      /\ \A v \in Workers \ {w} : worker'[v] = worker[v]
      /\ action'[a].status = target
      /\ \A b \in Actions \ {a} : action'[b] = action[b]
  BY DEF SetStatus, ActionRow
<1>2. \A v \in Workers, b \in Actions : InFlight(v, b)' => InFlight(v, b) /\ b # a
  BY <1>1 DEF InFlight, Idle, OneThreadEach
<1>3. InFlightUnsettled' /\ OneThreadEach'
  BY <1>1, <1>2 DEF InFlightUnsettled, OneThreadEach
<1>4. EffectByProgress'
  BY <1>1 DEF EffectByProgress, Idle
<1>5. EffectByStatus' /\ ObservationIffObserved'
  BY <1>1 DEF EffectByStatus, ObservationIffObserved
<1> QED
  BY <1>3, <1>4, <1>5 DEF QuietUnlessUp

\* A thread that starts its attempt keeps the invariant: the attempt was
\* PENDING, so nobody was in flight for it and nothing had happened.
LEMMA BeginStep ==
  ASSUME TypeInv, AttemptInv, NEW w \in Workers, begin_executing(w),
         process = "up", UNCHANGED process
  PROVE  AttemptInv'
<1> DEFINE a == worker[w].action
<1> USE DEF TypeInv, TypeOK, AttemptInv
<1>1. /\ a \in Actions
      /\ action[a].status = "PENDING"
      /\ effect[a] = 0
      /\ \A v \in Workers : ~InFlight(v, a)
  BY StartsFromPending
  DEF begin_executing, MayBecome, ThreadsHoldRows, EffectByStatus,
      InFlightUnsettled
<1>2. /\ worker'[w].action = a
      /\ worker'[w].pc = "begun"
      /\ \A v \in Workers \ {w} : worker'[v] = worker[v]
      /\ action'[a].status = "EXECUTING"
      /\ \A b \in Actions \ {a} : action'[b] = action[b]
      /\ UNCHANGED <<observed, effect>>
  BY <1>1 DEF begin_executing, SetStatus, ActionRow, Worker
<1>3. \A v \in Workers, b \in Actions :
        InFlight(v, b)' <=> InFlight(v, b) \/ (v = w /\ b = a)
  BY <1>1, <1>2 DEF InFlight, begin_executing
<1>4. InFlightUnsettled' /\ OneThreadEach'
  BY <1>1, <1>2, <1>3 DEF InFlightUnsettled, OneThreadEach
<1>5. EffectByProgress'
  BY <1>1, <1>2 DEF EffectByProgress
<1>6. EffectByStatus' /\ ObservationIffObserved'
  BY <1>1, <1>2 DEF EffectByStatus, ObservationIffObserved
<1> QED
  BY <1>4, <1>5, <1>6 DEF QuietUnlessUp

\* The capability's return, its refusal and its exception keep the invariant.
LEMMA CapabilityStep ==
  ASSUME TypeInv, AttemptInv, NEW w \in Workers,
         capability_returns(w) \/ capability_refuses(w) \/ capability_raises(w),
         process = "up", UNCHANGED process
  PROVE  AttemptInv'
<1> DEFINE a == worker[w].action
<1> USE DEF TypeInv, TypeOK, AttemptInv
<1>1. /\ a \in Actions
      /\ InFlight(w, a)
      /\ effect[a] = 0
      /\ action[a].status \in {"EXECUTING", "CANCELLED"}
      /\ \A v \in Workers \ {w} : ~InFlight(v, a)
  BY DEF capability_returns, capability_refuses, capability_raises,
         ThreadsHoldRows, InFlight, InFlightUnsettled, OneThreadEach,
         EffectByProgress
<1>2. /\ worker'[w].action = a
      /\ worker'[w].pc \in {"returned", "no_effect", "raised"}
      /\ \A v \in Workers \ {w} : worker'[v] = worker[v]
      /\ effect'[a] \in {0, 1}
      /\ worker'[w].pc = "returned" => effect'[a] = 1
      /\ worker'[w].pc = "no_effect" => effect'[a] = 0
      /\ \A b \in Actions \ {a} : effect'[b] = effect[b]
      /\ UNCHANGED <<action, observed>>
  BY <1>1 DEF capability_returns, capability_refuses, capability_raises,
              rowVars, Worker
<1>3. \A v \in Workers, b \in Actions : InFlight(v, b)' <=> InFlight(v, b)
  BY <1>1, <1>2 DEF InFlight
<1>4. InFlightUnsettled' /\ OneThreadEach'
  BY <1>2, <1>3 DEF InFlightUnsettled, OneThreadEach
<1>5. EffectByProgress'
  <2> SUFFICES ASSUME NEW v \in Workers, worker'[v].pc \notin {"idle", "holding"}
               PROVE  /\ worker'[v].pc \in {"begun", "no_effect"}
                         => effect'[worker'[v].action] = 0
                      /\ worker'[v].pc = "returned"
                         => effect'[worker'[v].action] = 1
    BY DEF EffectByProgress
  <2>1. CASE v = w
    BY <2>1, <1>2
  <2>2. CASE v # w
    <3>1. worker'[v] = worker[v] /\ worker[v].action \in Actions \ {a}
      BY <2>2, <1>1, <1>2 DEF ThreadsHoldRows, InFlight, Worker, WorkerPC
    <3> QED
      BY <3>1, <1>2 DEF EffectByProgress
  <2> QED
    BY <2>1, <2>2
<1>6. EffectByStatus' /\ ObservationIffObserved'
  BY <1>1, <1>2 DEF EffectByStatus, ObservationIffObserved
<1> QED
  BY <1>4, <1>5, <1>6 DEF QuietUnlessUp

\* Every step of a thread keeps the invariant.
LEMMA ThreadSteps ==
  ASSUME TypeInv, AttemptInv, NEW w \in Workers, process = "up",
         UNCHANGED procVars,
         Executing(w) \/ \E a \in Actions : hold_action(w, a)
  PROVE  AttemptInv'
<1> DEFINE a == worker[w].action
<1>0. UNCHANGED process
  BY DEF procVars
<1>1. ASSUME NEW b \in Actions, hold_action(w, b)
      PROVE  AttemptInv'
  BY <1>1, <1>0, TakeOrLetGo DEF hold_action, rowVars
<1>2. CASE begin_rejected(w) \/ report_rejected(w)
  BY <1>2, <1>0, TakeOrLetGo DEF begin_rejected, report_rejected, rowVars, Idle
<1>3. CASE mark_observed(w)
  <2>1. a \in Actions /\ InFlight(w, a) /\ effect[a] = 1
    BY <1>3 DEF mark_observed, TypeInv, ThreadsHoldRows, InFlight, AttemptInv,
                EffectByProgress
  <2>2. action[a].status = "EXECUTING"
    BY <1>3, SettlesFromExecuting DEF mark_observed, Observable, MayBecome
  <2> QED
    BY <1>3, <1>0, <2>1, <2>2, Settle DEF mark_observed
<1>4. CASE mark_failed(w)
  <2>1. a \in Actions /\ InFlight(w, a) /\ effect[a] = 0
    BY <1>4 DEF mark_failed, TypeInv, ThreadsHoldRows, InFlight, AttemptInv,
                EffectByProgress
  <2>2. action[a].status = "EXECUTING"
    BY <1>4, SettlesFromExecuting DEF mark_failed, Failable, MayBecome
  <2> QED
    BY <1>4, <1>0, <2>1, <2>2, Settle DEF mark_failed
<1>5. CASE mark_unknown_outcome(w)
  <2>1. a \in Actions /\ InFlight(w, a)
    BY <1>5 DEF mark_unknown_outcome, TypeInv, ThreadsHoldRows, InFlight
  <2>2. action[a].status = "EXECUTING"
    BY <1>5, SettlesFromExecuting DEF mark_unknown_outcome, Uncertain, MayBecome
  <2> QED
    BY <1>5, <1>0, <2>1, <2>2, Settle DEF mark_unknown_outcome, unknown_outcome
<1> QED
  BY <1>0, <1>1, <1>2, <1>3, <1>4, <1>5, BeginStep, CapabilityStep DEF Executing

\* Dying, restarting and recovering keep the invariant. What recover() marks
\* is EXECUTING, and no thread is left to contradict it.
LEMMA ProcessSteps ==
  ASSUME TypeInv, AttemptInv, crash \/ restart \/ Recovering
  PROVE  AttemptInv'
<1> USE DEF TypeInv, TypeOK, AttemptInv
<1>1. CASE crash
  <2>1. /\ \A w \in Workers : worker'[w] = Idle
        /\ UNCHANGED <<action, observed, effect>>
    BY <1>1 DEF crash, rowVars
  <2> QED
    BY <2>1 DEF Idle, QuietUnlessUp, InFlightUnsettled, OneThreadEach,
                EffectByProgress, EffectByStatus, ObservationIffObserved, InFlight
<1>2. CASE restart
  BY <1>2, QuietSteps DEF restart, rowVars, QuietUnlessUp
<1>3. ASSUME NEW a \in Actions, process = "recovering", recover_marks(a)
      PROVE  AttemptInv'
  <2>1. /\ action[a].status = "EXECUTING"
        /\ action'[a].status = "UNKNOWN_OUTCOME"
        /\ \A b \in Actions \ {a} : action'[b] = action[b]
        /\ UNCHANGED <<observed, effect, worker, process>>
    BY <1>3, SettlesFromExecuting
    DEF recover_marks, Uncertain, MayBecome, unknown_outcome, SetStatus, ActionRow
  <2>2. \A w \in Workers : worker[w] = Idle /\ worker'[w] = Idle
    BY <1>3, <2>1 DEF QuietUnlessUp
  <2>3. QuietUnlessUp' /\ InFlightUnsettled' /\ OneThreadEach' /\ EffectByProgress'
    BY <2>2 DEF QuietUnlessUp, InFlightUnsettled, OneThreadEach,
                EffectByProgress, InFlight, Idle
  <2>4. EffectByStatus' /\ ObservationIffObserved'
    BY <2>1 DEF EffectByStatus, ObservationIffObserved
  <2> QED
    BY <2>3, <2>4
<1>4. ASSUME NEW a \in Actions, process = "recovering", recover_skips(a)
      PROVE  AttemptInv'
  BY <1>4, QuietSteps DEF recover_skips, rowVars, QuietUnlessUp
<1>5. CASE process = "recovering" /\ recovered
  BY <1>5, QuietSteps DEF recovered, rowVars
<1> QED
  BY <1>1, <1>2, <1>3, <1>4, <1>5 DEF Recovering

\* A retry request's steps keep the invariant.
LEMMA RetrySteps ==
  ASSUME TypeInv, AttemptInv, NEW c \in Triggers, RetryStep(c), process = "up",
         UNCHANGED procVars
  PROVE  AttemptInv'
<1>1. CASE retry_action(c)
  <2>1. PICK b \in Actions :
          Insert(b, action[trigger[c].action].plan, trigger[c].action)
    BY <1>1 DEF retry_action
  <2>2. /\ trigger[c].action \in Actions
        /\ action[trigger[c].action].plan \in Plans
    BY <1>1 DEF retry_action, TypeInv, TypeOK, Trigger, TriggersHoldRows,
                RowsHavePlans
  <2> QED
    BY <1>1, <2>1, <2>2, InsertSteps DEF retry_action, procVars
<1>2. CASE retry_rejected(c) \/ \E a \in Actions : decide_retry(c, a)
  BY <1>2, QuietSteps DEF retry_rejected, decide_retry, rowVars, procVars
<1> QED
  BY <1>1, <1>2 DEF RetryStep

\* Every step keeps the invariant.
LEMMA StepKeepsAttempts ==
  ASSUME TypeInv, AttemptInv, [Next]_vars
  PROVE  AttemptInv'
<1>1. CASE Serving
  <2>1. CASE WorkStep \/ ObligationStep
    BY <1>1, <2>1, QuietSteps DEF Serving, WorkStep, ObligationStep, procVars
  <2>2. ASSUME NEW a \in Actions, ActionStep(a)
        PROVE  AttemptInv'
    BY <1>1, <2>2, InsertSteps, HostSteps
    DEF Serving, ActionStep, create_action, procVars
  <2>3. ASSUME NEW w \in Workers,
               Executing(w) \/ \E a \in Actions : hold_action(w, a)
        PROVE  AttemptInv'
    BY <1>1, <2>3, ThreadSteps DEF Serving
  <2>4. ASSUME NEW c \in Triggers, RetryStep(c)
        PROVE  AttemptInv'
    BY <1>1, <2>4, RetrySteps DEF Serving
  <2> QED
    BY <1>1, <2>1, <2>2, <2>3, <2>4 DEF Serving
<1>2. CASE UNCHANGED vars
  BY <1>2, QuietSteps DEF vars, rowVars, procVars, AttemptInv, QuietUnlessUp
<1> QED
  BY <1>1, <1>2, ProcessSteps DEF Next

\* Nothing has happened yet when the store is empty.
LEMMA AttemptsInitially ==
  ASSUME Init
  PROVE  AttemptInv
BY DEF Init, AttemptInv, QuietUnlessUp, InFlightUnsettled, OneThreadEach,
       EffectByProgress, EffectByStatus, ObservationIffObserved, InFlight,
       NoRow, Idle

-----------------------------------------------------------------------------
(* The theorems.                                                           *)

\* The invariant holds of every reachable state (execute_action, recover).
THEOREM AttemptInvariance == Spec => [](TypeInv /\ AttemptInv)
<1>1. Init => TypeInv /\ AttemptInv
  BY TypesInitially, AttemptsInitially
<1>2. TypeInv /\ AttemptInv /\ [Next]_vars => (TypeInv /\ AttemptInv)'
  BY StepKeepsTypes, StepKeepsAttempts
<1> QED
  BY <1>1, <1>2, PTL DEF Spec

\* Law 8 (begin_executing before the capability runs): no attempt has had an
\* effect unless its intent was durable first.
THEOREM EffectsFollowIntent == Spec => []EffectAfterIntent
<1>1. TypeInv /\ AttemptInv => EffectAfterIntent
  BY DEF AttemptInv, EffectByStatus, EffectAfterIntent
<1> QED
  BY <1>1, AttemptInvariance, PTL

\* Laws 7 and 10 (begin_executing's compare-and-set): no attempt has its effect
\* twice.
THEOREM EffectsHappenOnce == Spec => []AtMostOneEffect
<1>1. TypeInv /\ AttemptInv => AtMostOneEffect
  BY DEF AttemptInv, EffectByStatus, AtMostOneEffect
<1> QED
  BY <1>1, AttemptInvariance, PTL

\* Law 9 (mark_observed, mark_failed, recover): what is recorded of an attempt
\* is what happened.
THEOREM OutcomesAreTruthful == Spec => []TruthfulOutcome
<1>1. ASSUME TypeInv, AttemptInv, NEW a \in Actions
      PROVE  /\ classify_action_state(a) = "KNOWN_COMPLETED" => effect[a] = 1
             /\ classify_action_state(a) = "KNOWN_NOT_STARTED"
                => effect[a] = 0 \/ action[a].status = "CANCELLED"
  <2> DEFINE status == action[a].status
  <2>1. status \in ActionStatus \cup {"ABSENT"}
    BY <1>1 DEF TypeInv, TypeOK, ActionRow
  <2>2. a \in observed <=> status = "OBSERVED"
    BY <1>1 DEF AttemptInv, ObservationIffObserved
  <2>3. /\ status \in {"ABSENT", "PENDING", "FAILED"} => effect[a] = 0
        /\ status = "OBSERVED" => effect[a] = 1
    BY <1>1 DEF AttemptInv, EffectByStatus
  <2> QED
    BY <2>1, <2>2, <2>3, NamedStatuses DEF classify_action_state
<1>2. TypeInv /\ AttemptInv => TruthfulOutcome
  BY <1>1 DEF TruthfulOutcome
<1> QED
  BY <1>2, AttemptInvariance, PTL

\* Contract 8 row 5 (mark_observed's one transaction): no crash or race leaves
\* an Observation row without its OBSERVED status, or the reverse.
THEOREM ObservationsMatchStatus == Spec => []ObservationIffObserved
<1>1. TypeInv /\ AttemptInv => ObservationIffObserved
  BY DEF AttemptInv
<1> QED
  BY <1>1, AttemptInvariance, PTL

-----------------------------------------------------------------------------
(* The execution core implements the attempt ledger.  Every step of the    *)
(* core is one ledger step for one attempt, a process death that withdraws *)
(* several at once, or a stutter.                                          *)

LedgerMoves == [Ledger!LedgerNext]_<<[a \in Actions |-> LedgerStage(a)], effect>>

\* What the stage says of the row and of MayHaveRun (LedgerStage).
LEMMA StageByStatus ==
  ASSUME NEW a \in Actions
  PROVE  /\ action[a].status = "ABSENT" => LedgerStage(a) = "unborn"
         /\ action[a].status = "PENDING" => LedgerStage(a) = "intended"
         /\ action[a].status = "EXECUTING" => LedgerStage(a) = "started"
         /\ action[a].status = "OBSERVED" => LedgerStage(a) = "succeeded"
         /\ action[a].status = "FAILED" => LedgerStage(a) = "no_effect"
         /\ action[a].status = "UNKNOWN_OUTCOME" => LedgerStage(a) = "uncertain"
         /\ action[a].status = "CANCELLED"
              => \/ MayHaveRun(a) /\ LedgerStage(a) = "revoked"
                 \/ ~MayHaveRun(a) /\ LedgerStage(a) = "withdrawn"
<1>1. CASE action[a].status # "CANCELLED"
  BY <1>1 DEF LedgerStage
<1>2. CASE action[a].status = "CANCELLED" /\ MayHaveRun(a)
  BY <1>2 DEF LedgerStage
<1>3. CASE action[a].status = "CANCELLED" /\ ~MayHaveRun(a)
  BY <1>3 DEF LedgerStage
<1> QED
  BY <1>1, <1>2, <1>3

\* A row whose status, effect and threads stay as they are keeps its stage.
LEMMA SameStage ==
  ASSUME TypeInv, NEW a \in Actions, action'[a].status = action[a].status,
         \/ action[a].status # "CANCELLED"
         \/ MayHaveRun(a)' <=> MayHaveRun(a)
  PROVE  LedgerStage(a)' = LedgerStage(a)
<1>1. CASE action[a].status # "CANCELLED"
  <2>1. action[a].status \in {"ABSENT", "PENDING", "EXECUTING", "OBSERVED",
                             "UNKNOWN_OUTCOME", "FAILED"}
    BY <1>1, NamedStatuses DEF TypeInv, TypeOK, ActionRow
  <2> QED
    BY <2>1 DEF LedgerStage
<1>2. CASE action[a].status = "CANCELLED" /\ MayHaveRun(a)
  <2>1. MayHaveRun(a)'
    BY <1>2
  <2> QED
    BY <1>2, <2>1 DEF LedgerStage
<1>3. CASE action[a].status = "CANCELLED" /\ ~MayHaveRun(a)
  <2>1. ~MayHaveRun(a)'
    BY <1>3
  <2> QED
    BY <1>3, <2>1 DEF LedgerStage
<1> QED
  BY <1>1, <1>2, <1>3

\* When no stage and no effect changes, the ledger stutters.
LEMMA Stutters ==
  ASSUME \A a \in Actions : LedgerStage(a)' = LedgerStage(a), UNCHANGED effect
  PROVE  LedgerMoves
BY DEF LedgerMoves

\* When one attempt's stage changes the way a ledger step says, it is that step.
LEMMA OneMoves ==
  ASSUME NEW a \in Actions, UNCHANGED effect,
         \A b \in Actions \ {a} : LedgerStage(b)' = LedgerStage(b),
         \/ LedgerStage(a) = "unborn" /\ LedgerStage(a)' = "intended"
         \/ LedgerStage(a) = "intended" /\ LedgerStage(a)' \in {"started", "withdrawn"}
         \/ LedgerStage(a) = "started" /\ LedgerStage(a)' \in {"revoked", "uncertain"}
         \/ LedgerStage(a) = "started" /\ LedgerStage(a)' = "succeeded" /\ effect[a] = 1
         \/ LedgerStage(a) = "started" /\ LedgerStage(a)' = "no_effect" /\ effect[a] = 0
  PROVE  LedgerMoves
<1> DEFINE from == LedgerStage(a)
           to   == LedgerStage(a)'
<1>1. Ledger!Move(a, from, to)
  BY DEF Ledger!Move
<1>2. Ledger!LedgerStep(a)
  BY <1>1 DEF Ledger!LedgerStep, Ledger!Intend, Ledger!Start, Ledger!Withdraw,
              Ledger!Revoke, Ledger!Doubt, Ledger!Succeed, Ledger!Fail
<1> QED
  BY <1>2 DEF LedgerMoves, Ledger!LedgerNext

\* When some attempts that have had no effect become withdrawn, it is a
\* withdrawal.
LEMMA SomeWithdrawn ==
  ASSUME NEW S \in SUBSET Actions, UNCHANGED effect,
         \A a \in S : /\ LedgerStage(a) \in {"started", "revoked"}
                      /\ LedgerStage(a)' = "withdrawn"
                      /\ effect[a] = 0,
         \A a \in Actions \ S : LedgerStage(a)' = LedgerStage(a)
  PROVE  LedgerMoves
<1>1. Ledger!WithdrawAll(S)
  BY DEF Ledger!WithdrawAll
<1> QED
  BY <1>1 DEF LedgerMoves, Ledger!LedgerNext

\* The same for one attempt.
LEMMA OneWithdrawn ==
  ASSUME NEW a \in Actions, UNCHANGED effect, effect[a] = 0,
         LedgerStage(a) \in {"started", "revoked"}, LedgerStage(a)' = "withdrawn",
         \A b \in Actions \ {a} : LedgerStage(b)' = LedgerStage(b)
  PROVE  LedgerMoves
<1>1. {a} \in SUBSET Actions
  OBVIOUS
<1>2. \A b \in {a} : /\ LedgerStage(b) \in {"started", "revoked"}
                     /\ LedgerStage(b)' = "withdrawn"
                     /\ effect[b] = 0
  OBVIOUS
<1> HIDE DEF LedgerMoves
<1> QED
  BY <1>1, <1>2, SomeWithdrawn

\* When one attempt acts and no stage changes, it is an act.
LEMMA OneActs ==
  ASSUME NEW a \in Actions, LedgerStage(a) \in {"started", "revoked"},
         effect[a] = 0, effect' = [effect EXCEPT ![a] = 1],
         \A b \in Actions : LedgerStage(b)' = LedgerStage(b)
  PROVE  LedgerMoves
<1>1. Ledger!Act(a)
  BY DEF Ledger!Act
<1> QED
  BY <1>1 DEF LedgerMoves, Ledger!LedgerNext, Ledger!LedgerStep

-----------------------------------------------------------------------------
(* The steps.                                                              *)

\* A step that leaves rows, world and threads alone is a stutter.
LEMMA QuietStutters ==
  ASSUME UNCHANGED <<action, effect, worker>>
  PROVE  LedgerMoves
BY Stutters DEF LedgerStage, MayHaveRun, InFlight

\* Inserting an attempt (create_action, retry_action) is an intent.
LEMMA InsertIntends ==
  ASSUME TypeInv, TypeInv', NEW a \in Actions, NEW p, NEW origin,
         Insert(a, p, origin), UNCHANGED <<effect, worker>>
  PROVE  LedgerMoves
<1>1. /\ action[a].status = "ABSENT"
      /\ action'[a].status = "PENDING"
      /\ \A b \in Actions \ {a} : action'[b] = action[b]
  BY DEF Insert, TypeInv, TypeOK
<1>2. LedgerStage(a) = "unborn" /\ LedgerStage(a)' = "intended"
  BY <1>1, StageByStatus DEF LedgerStage
<1>3. \A b \in Actions \ {a} : LedgerStage(b)' = LedgerStage(b)
  BY <1>1, SameStage DEF MayHaveRun, InFlight
<1> QED
  BY <1>2, <1>3, OneMoves

\* Cancelling is a withdrawal or a revocation; freezing is a stutter.
LEMMA HostMoves ==
  ASSUME TypeInv, AttemptInv, NEW a \in Actions,
         cancel_action(a) \/ freeze_action(a)
  PROVE  LedgerMoves
<1> USE DEF TypeInv, TypeOK
<1>1. CASE freeze_action(a)
  <2>1. /\ \A b \in Actions : action'[b].status = action[b].status
        /\ UNCHANGED <<effect, worker>>
    BY <1>1 DEF freeze_action, ActionRow
  <2> QED
    BY <2>1, SameStage, Stutters DEF MayHaveRun, InFlight
<1>2. CASE cancel_action(a)
  <2>1. /\ action[a].status \in {"PENDING", "EXECUTING"}
        /\ action'[a].status = "CANCELLED"
        /\ \A b \in Actions \ {a} : action'[b] = action[b]
        /\ UNCHANGED <<effect, worker>>
    BY <1>2, CancelsUnsettled DEF cancel_action, MayBecome, SetStatus, ActionRow
  <2>2. MayHaveRun(a)' <=> MayHaveRun(a)
    BY <2>1 DEF MayHaveRun, InFlight
  <2>3. \/ MayHaveRun(a) /\ LedgerStage(a)' = "revoked"
        \/ ~MayHaveRun(a) /\ LedgerStage(a)' = "withdrawn"
    BY <2>1, <2>2 DEF LedgerStage
  <2>4. \A b \in Actions \ {a} : LedgerStage(b)' = LedgerStage(b)
    BY <2>1, SameStage DEF MayHaveRun, InFlight
  <2>5. CASE action[a].status = "PENDING"
    <3>1. ~MayHaveRun(a)
      BY <2>5 DEF AttemptInv, EffectByStatus, InFlightUnsettled, MayHaveRun
    <3> QED
      BY <2>1, <2>3, <2>4, <2>5, <3>1, StageByStatus, OneMoves
  <2>6. CASE action[a].status = "EXECUTING" /\ MayHaveRun(a)
    BY <2>1, <2>3, <2>4, <2>6, StageByStatus, OneMoves
  <2>7. CASE action[a].status = "EXECUTING" /\ ~MayHaveRun(a)
    <3>1. effect[a] = 0
      BY <2>7 DEF AttemptInv, EffectByStatus, MayHaveRun
    <3>2. LedgerStage(a) = "started" /\ LedgerStage(a)' = "withdrawn"
      BY <2>3, <2>7, StageByStatus
    <3> QED
      BY <2>1, <2>4, <3>1, <3>2, OneWithdrawn
  <2> QED
    BY <2>1, <2>5, <2>6, <2>7
<1> QED
  BY <1>1, <1>2

\* A thread that takes an action up, or starts it, moves at most that action.
LEMMA ThreadStarts ==
  ASSUME TypeInv, TypeInv', AttemptInv, NEW w \in Workers,
         \/ \E a \in Actions : hold_action(w, a)
         \/ begin_executing(w)
         \/ begin_rejected(w)
  PROVE  LedgerMoves
<1> USE DEF TypeInv, TypeOK
<1>1. CASE begin_rejected(w) \/ \E a \in Actions : hold_action(w, a)
  <2>1. /\ UNCHANGED <<action, effect>>
        /\ \A v \in Workers, b \in Actions : InFlight(v, b)' <=> InFlight(v, b)
    BY <1>1 DEF begin_rejected, hold_action, rowVars, Idle, InFlight
  <2> QED
    BY <2>1, SameStage, Stutters DEF MayHaveRun
<1>2. CASE begin_executing(w)
  <2>0. PICK a \in Actions : a = worker[w].action
    BY <1>2 DEF begin_executing, ThreadsHoldRows
  <2>1. /\ action[a].status = "PENDING"
        /\ action'[a].status = "EXECUTING"
        /\ \A b \in Actions \ {a} : action'[b] = action[b]
        /\ \A v \in Workers, b \in Actions \ {a} : InFlight(v, b)' <=> InFlight(v, b)
        /\ UNCHANGED effect
    <3>1. /\ MayBecome(a, "EXECUTING")
          /\ SetStatus(a, "EXECUTING")
          /\ worker' = [worker EXCEPT ![w].pc = "begun", ![w].rev = @ + 1]
          /\ UNCHANGED effect
      BY <1>2, <2>0 DEF begin_executing
    <3>2. action[a].status = "PENDING"
      BY <3>1, StartsFromPending DEF MayBecome
    <3>3. /\ action'[a].status = "EXECUTING"
          /\ \A b \in Actions \ {a} : action'[b] = action[b]
      BY <3>1 DEF SetStatus, ActionRow
    <3>4. \A v \in Workers, b \in Actions \ {a} : InFlight(v, b)' <=> InFlight(v, b)
      BY <2>0, <3>1 DEF InFlight
    <3> QED
      BY <3>1, <3>2, <3>3, <3>4
  <2>2. LedgerStage(a) = "intended" /\ LedgerStage(a)' = "started"
    BY <2>1 DEF LedgerStage
  <2>3. \A b \in Actions \ {a} : LedgerStage(b)' = LedgerStage(b)
    BY <2>1, SameStage DEF MayHaveRun
  <2> QED
    BY <2>1, <2>2, <2>3, OneMoves
<1> QED
  BY <1>1, <1>2

\* The capability's effect is an act; doing nothing is a stutter.
LEMMA CapabilityActs ==
  ASSUME TypeInv, AttemptInv, NEW w \in Workers,
         capability_returns(w) \/ capability_refuses(w) \/ capability_raises(w)
  PROVE  LedgerMoves
<1> USE DEF TypeInv, TypeOK
<1>0. PICK a \in Actions : a = worker[w].action
  BY DEF capability_returns, capability_refuses, capability_raises,
         ThreadsHoldRows
<1>1. /\ InFlight(w, a)
      /\ effect[a] = 0
      /\ action[a].status \in {"EXECUTING", "CANCELLED"}
      /\ UNCHANGED action
  BY <1>0 DEF capability_returns, capability_refuses, capability_raises, rowVars,
              InFlight, AttemptInv, InFlightUnsettled,
              EffectByProgress
<1>2. /\ effect' = effect \/ effect' = [effect EXCEPT ![a] = 1]
      /\ \A v \in Workers, b \in Actions : InFlight(v, b)' <=> InFlight(v, b)
  BY <1>0, <1>1 DEF capability_returns, capability_refuses, capability_raises,
                    InFlight, Worker
<1>3. \A b \in Actions : MayHaveRun(b)' <=> MayHaveRun(b)
  BY <1>1, <1>2 DEF MayHaveRun
<1>4. \A b \in Actions : LedgerStage(b)' = LedgerStage(b)
  BY <1>1, <1>3, SameStage
<1>5. LedgerStage(a) \in {"started", "revoked"}
  BY <1>1, StageByStatus DEF MayHaveRun
<1> QED
  BY <1>1, <1>2, <1>4, <1>5, Stutters, OneActs

\* A report settles the attempt; one that is refused withdraws an attempt that
\* was cancelled meanwhile and had no effect.
LEMMA ThreadReports ==
  ASSUME TypeInv, AttemptInv, NEW w \in Workers,
         \/ mark_observed(w)
         \/ mark_failed(w)
         \/ mark_unknown_outcome(w)
         \/ report_rejected(w)
  PROVE  LedgerMoves
<1> USE DEF TypeInv, TypeOK
<1>0. PICK a \in Actions : a = worker[w].action
  BY DEF mark_observed, mark_failed, mark_unknown_outcome, report_rejected,
         ThreadsHoldRows
<1>1. /\ InFlight(w, a)
      /\ worker' = [worker EXCEPT ![w] = Idle]
      /\ UNCHANGED effect
      /\ worker[w].pc = "returned" => effect[a] = 1
      /\ worker[w].pc = "no_effect" => effect[a] = 0
  BY <1>0 DEF mark_observed, mark_failed, mark_unknown_outcome,
              report_rejected, InFlight, AttemptInv, EffectByProgress
<1>2. /\ \A v \in Workers, b \in Actions \ {a} : InFlight(v, b)' <=> InFlight(v, b)
      /\ \A v \in Workers : ~InFlight(v, a)'
  BY <1>1 DEF InFlight, Idle, AttemptInv, OneThreadEach
<1>3. \A b \in Actions \ {a} : MayHaveRun(b)' <=> MayHaveRun(b)
  BY <1>1, <1>2 DEF MayHaveRun
<1>4. CASE mark_observed(w) \/ mark_failed(w) \/ mark_unknown_outcome(w)
  <2>1. /\ action[a].status = "EXECUTING"
        /\ \/ action'[a].status = "UNKNOWN_OUTCOME"
           \/ action'[a].status = "OBSERVED" /\ effect[a] = 1
           \/ action'[a].status = "FAILED" /\ effect[a] = 0
        /\ \A b \in Actions \ {a} : action'[b] = action[b]
    <3>1. \E status \in {"UNKNOWN_OUTCOME", "OBSERVED", "FAILED"} :
            /\ MayBecome(a, status)
            /\ SetStatus(a, status)
            /\ status = "OBSERVED" => worker[w].pc = "returned"
            /\ status = "FAILED" => worker[w].pc = "no_effect"
      <4>1. CASE mark_observed(w)
        BY <1>0, <4>1 DEF mark_observed, Observable
      <4>2. CASE mark_failed(w)
        BY <1>0, <4>2 DEF mark_failed, Failable
      <4>3. CASE mark_unknown_outcome(w)
        BY <1>0, <4>3 DEF mark_unknown_outcome, unknown_outcome, Uncertain
      <4> QED
        BY <1>4, <4>1, <4>2, <4>3
    <3>2. PICK status \in {"UNKNOWN_OUTCOME", "OBSERVED", "FAILED"} :
            /\ MayBecome(a, status)
            /\ action' = [action EXCEPT ![a].status = status, ![a].rev = @ + 1]
            /\ status = "OBSERVED" => effect[a] = 1
            /\ status = "FAILED" => effect[a] = 0
      BY <1>1, <3>1 DEF SetStatus
    <3>3. action[a].status = "EXECUTING"
      BY <3>2, SettlesFromExecuting DEF MayBecome
    <3>4. action'[a].status = status
      BY <3>2 DEF ActionRow
    <3> QED
      BY <3>2, <3>3, <3>4
  <2>2. /\ LedgerStage(a) = "started"
        /\ \/ LedgerStage(a)' = "uncertain"
           \/ LedgerStage(a)' = "succeeded" /\ effect[a] = 1
           \/ LedgerStage(a)' = "no_effect" /\ effect[a] = 0
    BY <2>1 DEF LedgerStage
  <2>3. \A b \in Actions \ {a} : LedgerStage(b)' = LedgerStage(b)
    BY <2>1, <1>3, SameStage
  <2> QED
    BY <1>1, <2>2, <2>3, OneMoves
<1>5. CASE report_rejected(w)
  <2>1. UNCHANGED action
    BY <1>5 DEF report_rejected, rowVars
  <2>2. \A b \in Actions \ {a} : LedgerStage(b)' = LedgerStage(b)
    BY <2>1, <1>3, SameStage
  <2>3. CASE action[a].status = "CANCELLED" /\ effect[a] = 0
    <3>1. LedgerStage(a) = "revoked"
      BY <1>1, <2>3, StageByStatus DEF MayHaveRun
    <3>2. ~MayHaveRun(a)'
      BY <1>1, <1>2, <2>3 DEF MayHaveRun
    <3>3. LedgerStage(a)' = "withdrawn"
      BY <2>1, <2>3, <3>2 DEF LedgerStage
    <3> QED
      BY <1>1, <2>2, <2>3, <3>1, <3>3, OneWithdrawn
  <2>4. CASE action[a].status # "CANCELLED" \/ effect[a] # 0
    <3>1. effect[a] # 0 => effect[a] = 1
      BY <1>1 DEF AttemptInv, EffectByStatus
    <3>2. action[a].status # "CANCELLED" \/ (MayHaveRun(a) /\ MayHaveRun(a)')
      BY <1>1, <2>4, <3>1 DEF MayHaveRun
    <3>3. LedgerStage(a)' = LedgerStage(a)
      BY <1>1, <2>1, <3>2, SameStage
    <3> QED
      BY <1>1, <2>2, <3>3, Stutters
  <2> QED
    BY <2>3, <2>4
<1> QED
  BY <1>4, <1>5

\* A process death withdraws what was cancelled in flight and had no effect;
\* recovery puts the rest in doubt.
LEMMA ProcessMoves ==
  ASSUME TypeInv, AttemptInv, crash \/ restart \/ Recovering
  PROVE  LedgerMoves
<1> USE DEF TypeInv, TypeOK
<1>1. CASE crash
  <2>1. /\ UNCHANGED <<action, effect>>
        /\ \A w \in Workers, a \in Actions : ~InFlight(w, a)'
    BY <1>1 DEF crash, rowVars, InFlight, Idle
  <2> DEFINE S == {a \in Actions : /\ action[a].status = "CANCELLED"
                                  /\ MayHaveRun(a)
                                  /\ effect[a] = 0}
  <2>2. ASSUME NEW a \in S
        PROVE  /\ LedgerStage(a) \in {"started", "revoked"}
               /\ LedgerStage(a)' = "withdrawn"
               /\ effect[a] = 0
    <3>1. LedgerStage(a) = "revoked" /\ effect[a] = 0
      BY <2>2, StageByStatus
    <3>2. ~MayHaveRun(a)' /\ action'[a].status = "CANCELLED"
      BY <2>1, <2>2 DEF MayHaveRun
    <3> QED
      BY <3>1, <3>2 DEF LedgerStage
  <2>3. ASSUME NEW a \in Actions \ S
        PROVE  LedgerStage(a)' = LedgerStage(a)
    <3>1. effect[a] \in {0, 1}
      BY DEF AttemptInv, EffectByStatus
    <3>2. \/ action[a].status # "CANCELLED"
          \/ MayHaveRun(a)' <=> MayHaveRun(a)
      BY <2>1, <2>3, <3>1 DEF MayHaveRun
    <3> QED
      BY <2>1, <3>2, SameStage
  <2>4. S \in SUBSET Actions
    OBVIOUS
  <2> HIDE DEF S
  <2> QED
    BY <2>1, <2>2, <2>3, <2>4, SomeWithdrawn
<1>2. CASE restart
  BY <1>2, QuietStutters DEF restart, rowVars
<1>3. ASSUME NEW a \in Actions, recover_marks(a)
      PROVE  LedgerMoves
  <2>1. /\ action[a].status = "EXECUTING"
        /\ action'[a].status = "UNKNOWN_OUTCOME"
        /\ \A b \in Actions \ {a} : action'[b] = action[b]
        /\ UNCHANGED <<effect, worker>>
    BY <1>3, SettlesFromExecuting
    DEF recover_marks, Uncertain, MayBecome, unknown_outcome, SetStatus, ActionRow
  <2>2. LedgerStage(a) = "started" /\ LedgerStage(a)' = "uncertain"
    BY <2>1 DEF LedgerStage
  <2>3. \A b \in Actions \ {a} : LedgerStage(b)' = LedgerStage(b)
    BY <2>1, SameStage DEF MayHaveRun, InFlight
  <2> QED
    BY <2>1, <2>2, <2>3, OneMoves
<1>4. ASSUME NEW a \in Actions, recover_skips(a)
      PROVE  LedgerMoves
  BY <1>4, QuietStutters DEF recover_skips, rowVars
<1>5. CASE recovered
  BY <1>5, QuietStutters DEF recovered, rowVars
<1> QED
  BY <1>1, <1>2, <1>3, <1>4, <1>5 DEF Recovering

\* Every step of the core is a step of the ledger, or none.
LEMMA StepMapsToLedger ==
  ASSUME TypeInv, TypeInv', AttemptInv, [Next]_vars
  PROVE  LedgerMoves
<1>1. CASE Serving
  <2>1. CASE WorkStep \/ ObligationStep
    BY <2>1, QuietStutters DEF WorkStep, ObligationStep
  <2>2. ASSUME NEW a \in Actions, ActionStep(a)
        PROVE  LedgerMoves
    BY <2>2, InsertIntends, HostMoves DEF ActionStep, create_action
  <2>3. ASSUME NEW w \in Workers,
               Executing(w) \/ \E a \in Actions : hold_action(w, a)
        PROVE  LedgerMoves
    BY <2>3, ThreadStarts, CapabilityActs, ThreadReports DEF Executing
  <2>4. ASSUME NEW c \in Triggers, RetryStep(c)
        PROVE  LedgerMoves
    <3>1. CASE retry_action(c)
      BY <3>1, InsertIntends DEF retry_action
    <3>2. CASE retry_rejected(c) \/ \E a \in Actions : decide_retry(c, a)
      BY <3>2, QuietStutters DEF retry_rejected, decide_retry, rowVars
    <3> QED
      BY <2>4, <3>1, <3>2 DEF RetryStep
  <2> QED
    BY <1>1, <2>1, <2>2, <2>3, <2>4 DEF Serving
<1>2. CASE UNCHANGED vars
  BY <1>2, QuietStutters DEF vars, rowVars
<1> QED
  BY <1>1, <1>2, ProcessMoves DEF Next

\* An empty store is an empty ledger.
LEMMA InitMapsToLedger ==
  ASSUME Init
  PROVE  Ledger!LedgerInit
BY DEF Init, NoRow, LedgerStage, Ledger!LedgerInit

\* Laws 7 to 10 (execute_action, recover): the execution core implements the
\* attempt ledger.
THEOREM CoreImplementsLedger == Spec => ImplementsLedger
<1>1. Init => Ledger!LedgerInit
  BY InitMapsToLedger
<1>2. TypeInv /\ AttemptInv /\ TypeInv' /\ [Next]_vars
      => [Ledger!LedgerNext]_Ledger!ledgerVars
  BY StepMapsToLedger DEF LedgerMoves, Ledger!ledgerVars
<1> QED
  BY <1>1, <1>2, AttemptInvariance, PTL DEF Spec, ImplementsLedger, Ledger!LedgerSpec

-----------------------------------------------------------------------------
(* How rows may move, and what ends for good.                              *)

\* A task moves along its table: through transition_object to a target its
\* callers pass, or closing, and then its subtree is handed over.
TaskMove(t) ==
  \/ task'[t].status = task[t].status
  \/ /\ task[t].status \in DOMAIN TASK_TRANSITIONS
     /\ TransferSubtree(t) \/ task'[t].status \in TaskTargets

\* The same for a goal.
GoalMove(g) ==
  \/ goal'[g].status = goal[g].status
  \/ /\ goal[g].status \in DOMAIN GOAL_TRANSITIONS
     /\ TransferSubtree(g) \/ goal'[g].status \in GoalTargets

\* An attempt appears, stays where it is or moves along its table, and one that
\* becomes uncertain is charged to somebody in the same step.
ActionMove(a) ==
  \/ action'[a].status = action[a].status
  \/ action[a].status = "ABSENT" /\ action'[a].status = "PENDING"
  \/ /\ action[a].status \in DOMAIN ACTION_TRANSITIONS
     /\ action'[a].status = "UNKNOWN_OUTCOME"
        => \E o \in Obls : obligation'[o].origin = a

\* An obligation stays as it is, appears about an attempt, or changes while it
\* is OPEN and keeps its origin; only an observed origin lets it be RESOLVED.
ObligationMove(o) ==
  \/ obligation'[o] = obligation[o]
  \/ /\ obligation[o].disposition = "ABSENT"
     /\ obligation'[o].disposition = "OPEN"
     /\ obligation'[o].origin \in Actions
  \/ /\ Open(o)
     /\ obligation'[o].origin = obligation[o].origin
     /\ obligation'[o].disposition # "ABSENT"
     /\ obligation'[o].disposition = "RESOLVED" => obligation[o].origin \in observed

Moves ==
  /\ \A t \in Tasks : TaskMove(t)
  /\ \A g \in Goals : GoalMove(g)
  /\ \A a \in Actions : ActionMove(a)
  /\ \A o \in Obls : ObligationMove(o)
  /\ observed \subseteq observed'

-----------------------------------------------------------------------------
(* The steps.                                                              *)

\* Handing a subtree over moves only OPEN rows, to the registry
\* (transfer_subtree_obligations_to_uor_locked).
LEMMA TransferMoves ==
  ASSUME TypeOK, NEW obj, TransferSubtree(obj)
  PROVE  \A o \in Obls : ObligationMove(o)
BY DEF TypeOK, TransferSubtree, ObligationMove, Open, OblRow

\* Minting an obligation is the row's first move (save_new_obligation).
LEMMA MintMoves ==
  ASSUME TypeOK, NEW m \in Obls, NEW a \in Actions, NEW owner, Mint(m, a, owner)
  PROVE  /\ \A o \in Obls : ObligationMove(o)
         /\ \E o \in Obls : obligation'[o].origin = a
BY DEF TypeOK, Mint, ObligationMove, OblRow

\* Closing a task hands its subtree over (_terminal_transition).
LEMMA CloseTaskMoves ==
  ASSUME TypeOK, NEW t \in Tasks, NEW target, CloseTask(t, target),
         task[t].status \in DOMAIN TASK_TRANSITIONS
  PROVE  /\ \A u \in Tasks : TaskMove(u)
         /\ \A g \in Goals : GoalMove(g)
         /\ \A o \in Obls : ObligationMove(o)
<1>1. TransferSubtree(t) /\ UNCHANGED goal
  BY DEF CloseTask
<1>2. \A u \in Tasks \ {t} : task'[u] = task[u]
  BY DEF CloseTask, TypeOK
<1> QED
  BY <1>1, <1>2, TransferMoves DEF TaskMove, GoalMove

\* Closing a goal hands its subtree over (_terminal_transition).
LEMMA CloseGoalMoves ==
  ASSUME TypeOK, NEW g \in Goals, NEW target, CloseGoal(g, target),
         goal[g].status \in DOMAIN GOAL_TRANSITIONS
  PROVE  /\ \A u \in Tasks : TaskMove(u)
         /\ \A h \in Goals : GoalMove(h)
         /\ \A o \in Obls : ObligationMove(o)
<1>1. TransferSubtree(g) /\ UNCHANGED task
  BY DEF CloseGoal
<1>2. \A h \in Goals \ {g} : goal'[h] = goal[h]
  BY DEF CloseGoal, TypeOK
<1> QED
  BY <1>1, <1>2, TransferMoves DEF TaskMove, GoalMove

\* Every operation of the work service moves its rows so.
LEMMA WorkMoves ==
  ASSUME TypeOK, WorkNext
  PROVE  /\ \A t \in Tasks : TaskMove(t)
         /\ \A g \in Goals : GoalMove(g)
         /\ \A o \in Obls : ObligationMove(o)
<1> DEFINE Rows == /\ \A t \in Tasks : TaskMove(t)
                   /\ \A g \in Goals : GoalMove(g)
                   /\ \A o \in Obls : ObligationMove(o)
<1>1. ASSUME NEW t \in Tasks, NEW p \in Plans, NEW new \in Plans,
             activate_plan(t, p) \/ supersede_plan(t, p, new)
      PROVE  Rows
  <2>1. /\ \A u \in Tasks : task'[u].status = task[u].status
        /\ UNCHANGED <<goal, obligation>>
    BY <1>1 DEF activate_plan, supersede_plan, Point, TypeOK, TaskRow
  <2> QED
    BY <2>1 DEF TaskMove, GoalMove, ObligationMove
<1>2. ASSUME NEW t \in Tasks, complete_task(t)
      PROVE  Rows
  BY <1>2, CloseTaskMoves DEF complete_task
<1>3. ASSUME NEW t \in Tasks, NEW target \in {"CANCELLED", "ARCHIVED"},
             terminate_task(t, target)
      PROVE  Rows
  BY <1>3, CloseTaskMoves DEF terminate_task, Contracted
<1>4. ASSUME NEW t \in Tasks, NEW target \in TaskTargets,
             transition_task(t, target)
      PROVE  Rows
  <2>1. /\ task[t].status \in DOMAIN TASK_TRANSITIONS
        /\ task'[t].status = target
        /\ \A u \in Tasks \ {t} : task'[u] = task[u]
        /\ UNCHANGED <<goal, obligation>>
    BY <1>4 DEF transition_task, Contracted, TypeOK, TaskRow
  <2> QED
    BY <2>1 DEF TaskMove, GoalMove, ObligationMove
<1>5. ASSUME NEW t \in Tasks, freeze_task(t)
      PROVE  Rows
  <2>1. /\ \A u \in Tasks : task'[u].status = task[u].status
        /\ UNCHANGED <<goal, obligation>>
    BY <1>5 DEF freeze_task, TypeOK, TaskRow
  <2> QED
    BY <2>1 DEF TaskMove, GoalMove, ObligationMove
<1>6. ASSUME NEW g \in Goals, complete_goal(g)
      PROVE  Rows
  BY <1>6, CloseGoalMoves DEF complete_goal
<1>7. ASSUME NEW g \in Goals, NEW target \in {"CANCELLED", "ARCHIVED"},
             terminate_goal(g, target)
      PROVE  Rows
  BY <1>7, CloseGoalMoves DEF terminate_goal, Contracted
<1>8. ASSUME NEW g \in Goals, NEW target \in GoalTargets,
             transition_goal(g, target)
      PROVE  Rows
  <2>1. /\ goal[g].status \in DOMAIN GOAL_TRANSITIONS
        /\ goal'[g].status = target
        /\ \A h \in Goals \ {g} : goal'[h] = goal[h]
        /\ UNCHANGED <<task, obligation>>
    BY <1>8 DEF transition_goal, Contracted, TypeOK, GoalRow
  <2> QED
    BY <2>1 DEF TaskMove, GoalMove, ObligationMove
<1>9. ASSUME NEW g \in Goals, freeze_goal(g)
      PROVE  Rows
  <2>1. /\ \A h \in Goals : goal'[h].status = goal[h].status
        /\ UNCHANGED <<task, obligation>>
    BY <1>9 DEF freeze_goal, TypeOK, GoalRow
  <2> QED
    BY <2>1 DEF TaskMove, GoalMove, ObligationMove
<1>10. ASSUME NEW p \in Plans, NEW target \in PlanTargets,
              transition_plan(p, target)
       PROVE  Rows
  BY <1>10 DEF transition_plan, TaskMove, GoalMove, ObligationMove
<1> QED
  BY <1>1, <1>2, <1>3, <1>4, <1>5, <1>6, <1>7, <1>8, <1>9, <1>10, WorkConstants
  DEF WorkNext

\* Every operation of the obligations service moves its rows so.
LEMMA ObligationMoves ==
  ASSUME TypeOK, ObligationStep
  PROVE  \A o \in Obls : ObligationMove(o)
<1>1. ASSUME NEW o \in Obls, NEW a \in Actions, NEW owner \in Owners,
             create_obligation(o, a, owner)
      PROVE  \A m \in Obls : ObligationMove(m)
  BY <1>1, MintMoves DEF create_obligation
<1>2. ASSUME NEW o \in Obls,
             \/ \E new, expected \in Owners : transfer_obligation(o, new, expected)
             \/ abandon_obligation(o)
             \/ resolve_obligation(o, observed)
      PROVE  \A m \in Obls : ObligationMove(m)
  BY <1>2 DEF transfer_obligation, abandon_obligation, resolve_obligation,
              ObligationMove, Open, TypeOK, OblRow
<1> QED
  BY <1>1, <1>2 DEF ObligationStep

\* A step that touches no goal, task or obligation status moves none.
LEMMA OtherRowsRest ==
  ASSUME \A t \in Tasks : task'[t].status = task[t].status,
         UNCHANGED <<goal, obligation>>
  PROVE  /\ \A t \in Tasks : TaskMove(t)
         /\ \A g \in Goals : GoalMove(g)
         /\ \A o \in Obls : ObligationMove(o)
BY DEF TaskMove, GoalMove, ObligationMove

\* A contracted status write that is not to UNKNOWN_OUTCOME is a move.
LEMMA SetStatusMoves ==
  ASSUME TypeOK, NEW a \in Actions, NEW target, MayBecome(a, target),
         SetStatus(a, target), target # "UNKNOWN_OUTCOME"
  PROVE  \A b \in Actions : ActionMove(b)
BY DEF TypeOK, MayBecome, Contracted, SetStatus, ActionMove, ActionRow

\* Marking an unknown outcome mints the obligation in the same step.
LEMMA UnknownMoves ==
  ASSUME TypeOK, NEW a \in Actions, NEW o \in Obls, unknown_outcome(a, o),
         MayBecome(a, "UNKNOWN_OUTCOME")
  PROVE  /\ \A b \in Actions : ActionMove(b)
         /\ \A m \in Obls : ObligationMove(m)
<1>1. \A m \in Obls : ObligationMove(m)
  BY MintMoves DEF unknown_outcome
<1>2. \E m \in Obls : obligation'[m].origin = a
  BY MintMoves DEF unknown_outcome
<1>3. \A b \in Actions \ {a} : action'[b] = action[b]
  BY DEF unknown_outcome, SetStatus, TypeOK
<1> QED
  BY <1>1, <1>2, <1>3 DEF MayBecome, Contracted, ActionMove

\* An insert is an attempt's first move (create_action, retry_action).
LEMMA InsertMoves ==
  ASSUME TypeOK, NEW a \in Actions, NEW p, NEW origin, Insert(a, p, origin)
  PROVE  \A b \in Actions : ActionMove(b)
BY DEF TypeOK, Insert, ActionMove

\* The host's and the threads' steps move their rows so.
LEMMA ExecutionMoves ==
  ASSUME TypeInv,
         \/ \E a \in Actions : ActionStep(a)
         \/ \E w \in Workers : Executing(w) \/ \E a \in Actions : hold_action(w, a)
  PROVE  Moves
<1> USE DEF TypeInv
<1>1. ASSUME NEW a \in Actions, NEW p \in Plans, create_action(a, p)
      PROVE  Moves
  BY <1>1, InsertMoves, OtherRowsRest DEF create_action, Moves
<1>2. ASSUME NEW a \in Actions, cancel_action(a)
      PROVE  Moves
  BY <1>2, SetStatusMoves, OtherRowsRest DEF cancel_action, Moves
<1>3. ASSUME NEW a \in Actions, freeze_action(a)
      PROVE  Moves
  <2>1. \A b \in Actions : action'[b].status = action[b].status
    BY <1>3 DEF freeze_action, TypeOK, ActionRow
  <2> QED
    BY <1>3, <2>1, OtherRowsRest DEF freeze_action, Moves, ActionMove
<1>4. ASSUME NEW w \in Workers,
             \/ \E a \in Actions : hold_action(w, a)
             \/ begin_rejected(w) \/ report_rejected(w)
             \/ capability_returns(w) \/ capability_refuses(w)
             \/ capability_raises(w)
      PROVE  Moves
  <2>1. UNCHANGED rowVars
    BY <1>4 DEF hold_action, begin_rejected, report_rejected,
                capability_returns, capability_refuses, capability_raises
  <2> QED
    BY <2>1, OtherRowsRest DEF rowVars, workVars, Moves, ActionMove
<1>5. ASSUME NEW w \in Workers,
             begin_executing(w) \/ mark_observed(w) \/ mark_failed(w)
      PROVE  Moves
  <2> DEFINE a == worker[w].action
  <2>1. a \in Actions
    BY <1>5 DEF begin_executing, mark_observed, mark_failed, ThreadsHoldRows
  <2>2. PICK target \in {"EXECUTING", "OBSERVED", "FAILED"} :
          MayBecome(a, target) /\ SetStatus(a, target)
    BY <1>5 DEF begin_executing, mark_observed, mark_failed, Observable, Failable
  <2>3. \A b \in Actions : ActionMove(b)
    BY <2>1, <2>2, SetStatusMoves
  <2>4. UNCHANGED <<task, goal, obligation>> /\ observed \subseteq observed'
    BY <1>5 DEF begin_executing, mark_observed, mark_failed
  <2> QED
    BY <2>3, <2>4, OtherRowsRest DEF Moves
<1>6. ASSUME NEW w \in Workers, mark_unknown_outcome(w)
      PROVE  Moves
  <2> DEFINE a == worker[w].action
  <2>1. a \in Actions
    BY <1>6 DEF mark_unknown_outcome, ThreadsHoldRows
  <2>2. PICK o \in Obls : unknown_outcome(a, o)
    BY <1>6 DEF mark_unknown_outcome
  <2>3. MayBecome(a, "UNKNOWN_OUTCOME")
    BY <1>6 DEF mark_unknown_outcome, Uncertain
  <2> QED
    BY <1>6, <2>1, <2>2, <2>3, UnknownMoves
    DEF mark_unknown_outcome, Moves, TaskMove, GoalMove
<1> QED
  BY <1>1, <1>2, <1>3, <1>4, <1>5, <1>6 DEF ActionStep, Executing

\* The retries' and the process's steps move their rows so.
LEMMA RetryAndProcessMoves ==
  ASSUME TypeInv,
         (\E c \in Triggers : RetryStep(c)) \/ crash \/ restart \/ Recovering
  PROVE  Moves
<1> USE DEF TypeInv
<1>1. ASSUME NEW c \in Triggers, retry_action(c)
      PROVE  Moves
  <2>1. \A t \in Tasks : task'[t].status = task[t].status
    BY <1>1 DEF retry_action, ChargeRetry, TypeOK, TaskRow
  <2> QED
    BY <1>1, <2>1, InsertMoves, OtherRowsRest DEF retry_action, Moves
<1>2. ASSUME NEW a \in Actions, recover_marks(a)
      PROVE  Moves
  <2>1. PICK o \in Obls : unknown_outcome(a, o)
    BY <1>2 DEF recover_marks
  <2>2. MayBecome(a, "UNKNOWN_OUTCOME")
    BY <1>2 DEF recover_marks, Uncertain
  <2> QED
    BY <1>2, <2>1, <2>2, UnknownMoves DEF recover_marks, Moves, TaskMove, GoalMove
<1>3. ASSUME UNCHANGED rowVars
      PROVE  Moves
  BY <1>3, OtherRowsRest DEF rowVars, workVars, Moves, ActionMove
<1> QED
  BY <1>1, <1>2, <1>3
  DEF RetryStep, decide_retry, retry_rejected, crash, restart, Recovering,
      recover_skips, recovered

\* Every step moves the rows so.
LEMMA StepMoves ==
  ASSUME TypeInv, [Next]_vars
  PROVE  Moves
<1>1. CASE WorkStep
  BY <1>1, WorkMoves DEF WorkStep, Moves, ActionMove, TypeInv
<1>2. CASE ObligationStep
  BY <1>2, ObligationMoves
  DEF ObligationStep, workVars, Moves, TaskMove, GoalMove, ActionMove, TypeInv
<1>3. CASE UNCHANGED vars
  BY <1>3, OtherRowsRest DEF vars, rowVars, workVars, Moves, ActionMove
<1> QED
  BY <1>1, <1>2, <1>3, ExecutionMoves, RetryAndProcessMoves DEF Next, Serving

-----------------------------------------------------------------------------
(* The theorems.                                                           *)

\* Law 14 (transition_object, _terminal_transition, begin_executing and the
\* reports): a terminal goal, task or attempt never changes its status again.
THEOREM EndingsAreFinal == Spec => TerminalIsFinal
<1>1. ASSUME TypeInv, [Next]_vars
      PROVE  /\ \A g \in Goals : goal[g].status \in GOAL_TERMINAL
                                 => goal'[g].status = goal[g].status
             /\ \A t \in Tasks : task[t].status \in TASK_TERMINAL
                                 => task'[t].status = task[t].status
             /\ \A a \in Actions : action[a].status \in ACTION_TERMINAL
                                   => action'[a].status = action[a].status
  <2>1. Moves
    BY <1>1, StepMoves
  <2>2. "ABSENT" \notin ACTION_TERMINAL
    BY DEF ACTION_TERMINAL
  <2> QED
    BY <2>1, <2>2, TerminalHasNoMoves DEF Moves, GoalMove, TaskMove, ActionMove
<1>2. TypeInv /\ [Next]_vars =>
      [/\ \A g \in Goals : goal[g].status \in GOAL_TERMINAL
                           => goal'[g].status = goal[g].status
       /\ \A t \in Tasks : task[t].status \in TASK_TERMINAL
                           => task'[t].status = task[t].status
       /\ \A a \in Actions : action[a].status \in ACTION_TERMINAL
                             => action'[a].status = action[a].status]_vars
  BY <1>1
<1> QED
  BY <1>2, AttemptInvariance, PTL DEF Spec, TerminalIsFinal

\* Laws 19 and 22 (transfer_obligation, abandon_obligation, resolve_obligation,
\* the subtree hand-over): a disposed obligation never changes again.
THEOREM DispositionsAreFinal == Spec => DispositionIsFinal
<1>1. ASSUME TypeInv, [Next]_vars, NEW o \in Obls
      PROVE  /\ obligation[o].disposition \in {"RESOLVED", "ABANDONED"}
                => obligation'[o] = obligation[o]
             /\ obligation[o].disposition # "ABSENT"
                => obligation'[o].disposition # "ABSENT"
  <2>1. ObligationMove(o)
    BY <1>1, StepMoves DEF Moves
  <2> QED
    BY <2>1 DEF ObligationMove, Open
<1>2. TypeInv /\ [Next]_vars =>
      [\A o \in Obls :
        /\ obligation[o].disposition \in {"RESOLVED", "ABANDONED"}
           => obligation'[o] = obligation[o]
        /\ obligation[o].disposition # "ABSENT"
           => obligation'[o].disposition # "ABSENT"]_vars
  BY <1>1
<1> QED
  BY <1>2, AttemptInvariance, PTL DEF Spec, DispositionIsFinal

\* Law 20 (_terminal_transition): as long as transition_object is not asked for
\* a terminal status, whatever closes a task or a goal hands its subtree's open
\* obligations to the registry in the same step.
THEOREM EndingsHandOver ==
  ASSUME TaskTargets \cap TASK_TERMINAL = {}, GoalTargets \cap GOAL_TERMINAL = {}
  PROVE  Spec => ClosingHandsOver
<1>1. ASSUME TypeInv, NEW obj, TransferSubtree(obj), NEW o \in Obls, Open(o)'
      PROVE  obligation'[o].owner \notin Subtree(obj)
  <2>1. UOR \notin Subtree(obj)
    BY ObligationConstants DEF Subtree
  <2> QED
    BY <1>1, <2>1 DEF TransferSubtree, Open, TypeInv, TypeOK, OblRow
<1>2. ASSUME TypeInv, [Next]_vars
      PROVE  /\ \A t \in Tasks :
                  task[t].status \notin TASK_TERMINAL /\ task'[t].status \in TASK_TERMINAL
                  => \A o \in Obls : Open(o)' => obligation'[o].owner # t
             /\ \A g \in Goals :
                  goal[g].status \notin GOAL_TERMINAL /\ goal'[g].status \in GOAL_TERMINAL
                  => \A o \in Obls : Open(o)' => obligation'[o].owner \notin Subtree(g)
  <2>1. Moves
    BY <1>2, StepMoves
  <2>2. \A t \in Tasks : t \in Subtree(t)
    BY DEF Subtree
  <2>3. ASSUME NEW t \in Tasks, task[t].status \notin TASK_TERMINAL,
               task'[t].status \in TASK_TERMINAL
        PROVE  TransferSubtree(t)
    BY <2>1, <2>3 DEF Moves, TaskMove
  <2>4. ASSUME NEW g \in Goals, goal[g].status \notin GOAL_TERMINAL,
               goal'[g].status \in GOAL_TERMINAL
        PROVE  TransferSubtree(g)
    BY <2>1, <2>4 DEF Moves, GoalMove
  <2> QED
    BY <1>1, <1>2, <2>2, <2>3, <2>4
<1>3. TypeInv /\ [Next]_vars =>
      [/\ \A t \in Tasks :
            task[t].status \notin TASK_TERMINAL /\ task'[t].status \in TASK_TERMINAL
            => \A o \in Obls : Open(o)' => obligation'[o].owner # t
       /\ \A g \in Goals :
            goal[g].status \notin GOAL_TERMINAL /\ goal'[g].status \in GOAL_TERMINAL
            => \A o \in Obls : Open(o)' => obligation'[o].owner \notin Subtree(g)]_vars
  BY <1>2
<1> QED
  BY <1>3, AttemptInvariance, PTL DEF Spec, ClosingHandsOver

-----------------------------------------------------------------------------
(* Uncertain attempts.  UncertainStaysOwed is not inductive: that no       *)
(* obligation of an uncertain attempt is ever RESOLVED takes that what is  *)
(* resolved was observed, and that the obligation it is owed through is    *)
(* never overwritten takes that a row without an origin is absent.         *)

OwedInv ==
  /\ \A o \in Obls : obligation[o].disposition = "ABSENT"
                     => obligation[o].origin = NoAction
  /\ \A o \in Obls : obligation[o].disposition = "RESOLVED"
                     => obligation[o].origin \in observed
  /\ \A a \in Actions : action[a].status = "UNKNOWN_OUTCOME"
                        => \E o \in Obls : obligation[o].origin = a

\* Nothing is owed in the empty store.
LEMMA OwedInitially ==
  ASSUME Init
  PROVE  OwedInv
BY DEF Init, WorkInit, NoObl, NoRow, OwedInv

\* Every step keeps what is owed.
LEMMA StepKeepsOwed ==
  ASSUME TypeInv, OwedInv, [Next]_vars
  PROVE  OwedInv'
<1>1. Moves
  BY StepMoves
<1>2. ASSUME NEW o \in Obls, obligation'[o].disposition = "ABSENT"
      PROVE  obligation'[o].origin = NoAction
  BY <1>1, <1>2 DEF Moves, ObligationMove, OwedInv
<1>3. ASSUME NEW o \in Obls, obligation'[o].disposition = "RESOLVED"
      PROVE  obligation'[o].origin \in observed'
  BY <1>1, <1>3 DEF Moves, ObligationMove, OwedInv
<1>4. ASSUME NEW a \in Actions, action'[a].status = "UNKNOWN_OUTCOME"
      PROVE  \E o \in Obls : obligation'[o].origin = a
  <2>1. CASE action[a].status = "UNKNOWN_OUTCOME"
    <3>1. PICK o \in Obls : obligation[o].origin = a
      BY <2>1 DEF OwedInv
    <3>2. obligation[o].disposition # "ABSENT"
      BY <3>1, ObligationConstants DEF OwedInv
    <3>3. obligation'[o].origin = a
      BY <1>1, <3>1, <3>2 DEF Moves, ObligationMove
    <3> QED
      BY <3>3
  <2>2. CASE action[a].status # "UNKNOWN_OUTCOME"
    BY <1>1, <1>4, <2>2 DEF Moves, ActionMove
  <2> QED
    BY <2>1, <2>2
<1> QED
  BY <1>2, <1>3, <1>4 DEF OwedInv

\* Law 17 (mark_unknown_outcome, recover, resolve_obligation): an uncertain
\* attempt always has an obligation, and none of its obligations is resolved.
THEOREM UncertaintyStaysOwed == Spec => []UncertainStaysOwed
<1>1. TypeInv /\ AttemptInv /\ OwedInv => UncertainStaysOwed
  <2> SUFFICES ASSUME TypeInv, AttemptInv, OwedInv, NEW a \in Actions,
                      action[a].status = "UNKNOWN_OUTCOME"
               PROVE  /\ \E o \in Obls : obligation[o].origin = a
                      /\ \A o \in Obls : obligation[o].origin = a =>
                           obligation[o].disposition \in {"OPEN", "ABANDONED"}
    BY DEF UncertainStaysOwed
  <2>1. a \notin observed
    BY DEF AttemptInv, ObservationIffObserved
  <2>2. ASSUME NEW o \in Obls, obligation[o].origin = a
        PROVE  obligation[o].disposition \in {"OPEN", "ABANDONED"}
    BY <2>1, <2>2, ObligationConstants
    DEF OwedInv, TypeInv, TypeOK, OblRow, Disposition
  <2> QED
    BY <2>2 DEF OwedInv
<1>2. Spec => []OwedInv
  <2>1. Init => OwedInv
    BY OwedInitially
  <2>2. TypeInv /\ OwedInv /\ [Next]_vars => OwedInv'
    BY StepKeepsOwed
  <2> QED
    BY <2>1, <2>2, AttemptInvariance, PTL DEF Spec
<1> QED
  BY <1>1, <1>2, AttemptInvariance, PTL

-----------------------------------------------------------------------------
(* Attempts, plans and retries: nothing starts under a closed task, a      *)
(* replaced plan stays replaced, a started attempt keeps its thread, and   *)
(* the retry budget is exact.  First, how a step may move the pointer from *)
(* a task to its plan; the invariants follow from those moves.             *)

\* A task's pointer stays, with the status or while neither status is terminal,
\* is set to a DRAFT once the old plan is dead, or is cleared in closing.
PointerMove(t) ==
  \/ /\ task'[t].active = task[t].active
     /\ task'[t].status = task[t].status
  \/ /\ task'[t].active = task[t].active
     /\ {task[t].status, task'[t].status} \cap TASK_TERMINAL = {}
  \/ /\ task'[t].status = task[t].status
     /\ task[t].status \in {"ACTIVE", "BLOCKED"}
     /\ task'[t].active \in Plans
     /\ plan[task'[t].active].status = "DRAFT"
     /\ \/ task[t].active = NoPlan
        \/ plan'[task[t].active].status \in PLAN_TERMINAL
  \/ /\ task[t].status \notin TASK_TERMINAL
     /\ task'[t].status \in TASK_TERMINAL
     /\ task'[t].active = NoPlan

\* A dead plan stays dead.
PlanMove(p) ==
  plan[p].status \in PLAN_TERMINAL => plan'[p].status \in PLAN_TERMINAL

\* A row keeps its plan, and only the start of a current PENDING attempt makes
\* one EXECUTING.
AttemptMove(a) ==
  /\ Exists(a) => action'[a].plan = action[a].plan
  /\ action'[a].status = "EXECUTING" =>
       \/ action[a].status = "EXECUTING"
       \/ /\ action[a].status = "PENDING"
          /\ PlanCurrent(a)
          /\ UNCHANGED <<task, plan>>

Pointers ==
  /\ \A t \in Tasks : PointerMove(t)
  /\ \A p \in Plans : PlanMove(p)
  /\ \A a \in Actions : AttemptMove(a)

-----------------------------------------------------------------------------
(* The steps.                                                              *)

\* The terminal targets are closed statuses, the live ones are not.
LEMMA ClosedStatuses ==
  /\ {"COMPLETED", "CANCELLED", "ARCHIVED"} \subseteq TASK_TERMINAL
  /\ {"ACTIVE", "BLOCKED"} \cap TASK_TERMINAL = {}
  /\ {"SUPERSEDED", "CANCELLED", "FAILED"} \subseteq PLAN_TERMINAL
  /\ "DRAFT" \notin PLAN_TERMINAL
BY DEF TASK_TERMINAL, PLAN_TERMINAL

\* Every operation of the work service moves the pointers so, as long as
\* transition_object is not asked to close a task.
LEMMA WorkPointers ==
  ASSUME TypeOK, WorkNext, TaskTargets \cap TASK_TERMINAL = {}
  PROVE  /\ \A t \in Tasks : PointerMove(t)
         /\ \A p \in Plans : PlanMove(p)
<1> DEFINE Rows == /\ \A t \in Tasks : PointerMove(t)
                   /\ \A p \in Plans : PlanMove(p)
<1> USE DEF TypeOK
<1>1. ASSUME NEW t \in Tasks, NEW p \in Plans, activate_plan(t, p)
      PROVE  Rows
  <2>1. /\ \A u \in Tasks \ {t} : task'[u] = task[u]
        /\ task'[t].status = task[t].status
        /\ task'[t].active = p
        /\ UNCHANGED plan
    BY <1>1 DEF activate_plan, Point, TaskRow
  <2> QED
    BY <1>1, <2>1, ClosedStatuses DEF activate_plan, PointerMove, PlanMove
<1>2. ASSUME NEW t \in Tasks, NEW old \in Plans, NEW new \in Plans,
             supersede_plan(t, old, new)
      PROVE  Rows
  <2>1. /\ \A u \in Tasks \ {t} : task'[u] = task[u]
        /\ task'[t].status = task[t].status
        /\ task'[t].active = new
    BY <1>2 DEF supersede_plan, Point, TaskRow
  <2>2. /\ plan'[old].status = "SUPERSEDED"
        /\ \A p \in Plans \ {old} : plan'[p] = plan[p]
    BY <1>2 DEF supersede_plan
  <2> QED
    BY <1>2, <2>1, <2>2, ClosedStatuses DEF supersede_plan, PointerMove, PlanMove
<1>3. ASSUME NEW t \in Tasks, NEW target \in {"COMPLETED", "CANCELLED", "ARCHIVED"},
             task[t].status \in DOMAIN TASK_TRANSITIONS, CloseTask(t, target)
      PROVE  Rows
  <2>1. /\ \A u \in Tasks \ {t} : task'[u] = task[u]
        /\ task'[t].status = target
        /\ task'[t].active = NoPlan
        /\ UNCHANGED plan
    BY <1>3 DEF CloseTask, TaskRow
  <2> QED
    BY <1>3, <2>1, ClosedStatuses, TerminalHasNoMoves DEF PointerMove, PlanMove
<1>4. ASSUME NEW t \in Tasks, NEW target \in TaskTargets,
             transition_task(t, target)
      PROVE  Rows
  <2>1. /\ \A u \in Tasks \ {t} : task'[u] = task[u]
        /\ task'[t].status = target
        /\ task'[t].active = task[t].active
        /\ task[t].status \notin TASK_TERMINAL
        /\ UNCHANGED plan
    BY <1>4, TaskMoves DEF transition_task, TaskRow
  <2> QED
    BY <2>1 DEF PointerMove, PlanMove
<1>5. ASSUME NEW t \in Tasks, freeze_task(t)
      PROVE  Rows
  BY <1>5 DEF freeze_task, TaskRow, PointerMove, PlanMove
<1>6. ASSUME NEW p \in Plans, NEW target \in PlanTargets,
             transition_plan(p, target)
      PROVE  Rows
  <2>1. /\ plan[p].status \notin PLAN_TERMINAL
        /\ \A q \in Plans \ {p} : plan'[q] = plan[q]
        /\ UNCHANGED task
    BY <1>6, PlanMoves DEF transition_plan
  <2> QED
    BY <2>1 DEF PointerMove, PlanMove
<1>7. ASSUME UNCHANGED <<task, plan>>
      PROVE  Rows
  BY <1>7 DEF PointerMove, PlanMove
<1>8. ASSUME NEW t \in Tasks,
             \/ complete_task(t)
             \/ \E target \in {"CANCELLED", "ARCHIVED"} : terminate_task(t, target)
      PROVE  Rows
  BY <1>3, <1>8 DEF complete_task, terminate_task, Contracted
<1>9. ASSUME NEW g \in Goals,
             \/ complete_goal(g)
             \/ \E target \in {"CANCELLED", "ARCHIVED"} : terminate_goal(g, target)
             \/ \E target \in GoalTargets : transition_goal(g, target)
             \/ freeze_goal(g)
      PROVE  Rows
  BY <1>7, <1>9 DEF complete_goal, terminate_goal, transition_goal, freeze_goal,
                    CloseGoal
<1> QED
  BY <1>1, <1>2, <1>4, <1>5, <1>6, <1>8, <1>9, WorkConstants DEF WorkNext

\* A step that leaves tasks, plans and attempts alone moves no pointer.
LEMMA PointersRest ==
  ASSUME UNCHANGED <<task, plan, action>>
  PROVE  Pointers
BY DEF Pointers, PointerMove, PlanMove, AttemptMove

\* A status write that starts nothing keeps every attempt's plan.
LEMMA SetStatusAttempts ==
  ASSUME TypeOK, NEW a \in Actions, NEW target, target # "EXECUTING",
         SetStatus(a, target)
  PROVE  \A b \in Actions : AttemptMove(b)
BY DEF TypeOK, SetStatus, AttemptMove, ActionRow

\* An insert starts nothing (create_action, retry_action).
LEMMA InsertAttempts ==
  ASSUME TypeOK, NEW a \in Actions, NEW p, NEW origin, Insert(a, p, origin)
  PROVE  \A b \in Actions : AttemptMove(b)
BY DEF TypeOK, Insert, AttemptMove, Exists

\* The host's steps move no pointer.
LEMMA HostPointers ==
  ASSUME TypeOK, NEW a \in Actions, ActionStep(a)
  PROVE  Pointers
<1>1. \A b \in Actions : AttemptMove(b)
  <2>1. ASSUME NEW p \in Plans, create_action(a, p)
        PROVE  \A b \in Actions : AttemptMove(b)
    BY <2>1, InsertAttempts DEF create_action
  <2>2. CASE cancel_action(a)
    BY <2>2, SetStatusAttempts DEF cancel_action
  <2>3. CASE freeze_action(a)
    BY <2>3 DEF freeze_action, TypeOK, ActionRow, AttemptMove
  <2> QED
    BY <2>1, <2>2, <2>3 DEF ActionStep
<1>2. UNCHANGED <<task, plan>>
  BY DEF ActionStep, create_action, cancel_action, freeze_action
<1> QED
  BY <1>1, <1>2 DEF Pointers, PointerMove, PlanMove

\* A thread moves no pointer, and starts only what is current.
LEMMA ThreadPointers ==
  ASSUME TypeInv, NEW w \in Workers,
         Executing(w) \/ \E a \in Actions : hold_action(w, a)
  PROVE  Pointers
<1> DEFINE a == worker[w].action
<1> USE DEF TypeInv
<1>1. CASE begin_executing(w)
  <2>1. /\ a \in Actions
        /\ action[a].status = "PENDING"
        /\ PlanCurrent(a)
        /\ UNCHANGED <<task, plan>>
    BY <1>1, StartsFromPending DEF begin_executing, ThreadsHoldRows, MayBecome
  <2>2. /\ \A b \in Actions \ {a} : action'[b] = action[b]
        /\ action'[a].plan = action[a].plan
    BY <1>1, <2>1 DEF begin_executing, SetStatus, TypeOK, ActionRow
  <2> QED
    BY <2>1, <2>2 DEF Pointers, PointerMove, PlanMove, AttemptMove
<1>2. CASE mark_observed(w) \/ mark_failed(w) \/ mark_unknown_outcome(w)
  <2>1. a \in Actions /\ UNCHANGED <<task, plan>>
    BY <1>2 DEF mark_observed, mark_failed, mark_unknown_outcome, ThreadsHoldRows
  <2>2. \E target \in {"OBSERVED", "FAILED", "UNKNOWN_OUTCOME"} :
          SetStatus(a, target)
    BY <1>2 DEF mark_observed, mark_failed, mark_unknown_outcome, unknown_outcome
  <2>3. \A b \in Actions : AttemptMove(b)
    BY <2>1, <2>2, SetStatusAttempts
  <2> QED
    BY <2>1, <2>3 DEF Pointers, PointerMove, PlanMove
<1>3. CASE UNCHANGED rowVars
  BY <1>3, PointersRest DEF rowVars, workVars
<1> QED
  BY <1>1, <1>2, <1>3
  DEF Executing, hold_action, begin_rejected, capability_returns,
      capability_refuses, capability_raises, report_rejected

\* A retry request moves no pointer.
LEMMA RetryPointers ==
  ASSUME TypeOK, NEW c \in Triggers, RetryStep(c)
  PROVE  Pointers
<1>1. CASE retry_action(c)
  <2>1. \A t \in Tasks : /\ task'[t].status = task[t].status
                         /\ task'[t].active = task[t].active
    BY <1>1 DEF retry_action, ChargeRetry, TypeOK, TaskRow
  <2>2. \A b \in Actions : AttemptMove(b)
    BY <1>1, InsertAttempts DEF retry_action
  <2>3. UNCHANGED plan
    BY <1>1 DEF retry_action
  <2> QED
    BY <2>1, <2>2, <2>3 DEF Pointers, PointerMove, PlanMove
<1>2. CASE retry_rejected(c) \/ \E a \in Actions : decide_retry(c, a)
  BY <1>2, PointersRest DEF retry_rejected, decide_retry, rowVars, workVars
<1> QED
  BY <1>1, <1>2 DEF RetryStep

\* Dying, restarting and recovering move no pointer.
LEMMA ProcessPointers ==
  ASSUME TypeOK, crash \/ restart \/ Recovering
  PROVE  Pointers
<1>1. ASSUME NEW a \in Actions, recover_marks(a)
      PROVE  Pointers
  <2>1. \A b \in Actions : AttemptMove(b)
    BY <1>1, SetStatusAttempts DEF recover_marks, unknown_outcome
  <2> QED
    BY <1>1, <2>1 DEF recover_marks, Pointers, PointerMove, PlanMove
<1>2. CASE UNCHANGED rowVars
  BY <1>2, PointersRest DEF rowVars, workVars
<1> QED
  BY <1>1, <1>2 DEF crash, restart, Recovering, recover_skips, recovered

\* Every step moves the pointers so.
LEMMA StepMovesPointers ==
  ASSUME TypeInv, [Next]_vars, TaskTargets \cap TASK_TERMINAL = {}
  PROVE  Pointers
<1>1. CASE WorkStep
  BY <1>1, WorkPointers DEF WorkStep, Pointers, AttemptMove, TypeInv
<1>2. CASE ObligationStep \/ UNCHANGED vars
  BY <1>2, PointersRest DEF ObligationStep, vars, rowVars, workVars
<1> QED
  BY <1>1, <1>2, HostPointers, ThreadPointers, RetryPointers, ProcessPointers
  DEF Next, Serving, TypeInv

-----------------------------------------------------------------------------
(* The invariant.  That a stale attempt stays stale is not visible in the  *)
(* pointer alone: it takes that its plan is dead, or its task closed.      *)

StaleForGood ==
  \A a \in Actions : action[a].status = "EXECUTING" /\ ~PlanCurrent(a) =>
    \/ plan[action[a].plan].status \in PLAN_TERMINAL
    \/ task[TaskOf(a)].status \in TASK_TERMINAL

PlanInv == ClosedTaskHasNoPlan /\ StaleForGood

\* No task is closed and nothing is started in the empty store.
LEMMA PlansInitially ==
  ASSUME Init
  PROVE  PlanInv
BY DEF Init, WorkInit, NewTask, NoRow, PlanInv, ClosedTaskHasNoPlan, StaleForGood

\* A pointer move leads from a stale attempt only to a stale one: a plan that
\* becomes active is a DRAFT, and a closed task never gets a plan again.
LEMMA StalePointer ==
  ASSUME TypeInv, PlanInv, Pointers, NEW a \in Actions,
         action[a].status = "EXECUTING", ~PlanCurrent(a)
  PROVE  /\ ~PlanCurrent(a)'
         /\ \/ plan'[action'[a].plan].status \in PLAN_TERMINAL
            \/ task'[TaskOf(a)'].status \in TASK_TERMINAL
<1>1. /\ action[a].plan \in Plans
      /\ action'[a].plan = action[a].plan
      /\ TaskOf(a) \in Tasks
      /\ TaskOf(a)' = TaskOf(a)
  BY OwnerIsTask DEF TypeInv, RowsHavePlans, Exists, Pointers, AttemptMove, TaskOf
<1>2. PointerMove(TaskOf(a)) /\ PlanMove(action[a].plan)
  BY <1>1 DEF Pointers
<1>3. CASE plan[action[a].plan].status \in PLAN_TERMINAL
  BY <1>1, <1>2, <1>3, ClosedStatuses, WorkConstants
  DEF PointerMove, PlanMove, PlanCurrent
<1>4. CASE task[TaskOf(a)].status \in TASK_TERMINAL
  <2>1. /\ task'[TaskOf(a)].active = task[TaskOf(a)].active
        /\ task'[TaskOf(a)].status = task[TaskOf(a)].status
    BY <1>2, <1>4, ClosedStatuses DEF PointerMove
  <2> QED
    BY <1>1, <1>4, <2>1 DEF PlanCurrent
<1> QED
  BY <1>3, <1>4 DEF PlanInv, StaleForGood

\* Every step keeps the invariant.
LEMMA StepKeepsPlans ==
  ASSUME TypeInv, PlanInv, [Next]_vars, TaskTargets \cap TASK_TERMINAL = {}
  PROVE  PlanInv'
<1>1. Pointers
  BY StepMovesPointers
<1>2. ASSUME NEW t \in Tasks, task'[t].status \in TASK_TERMINAL
      PROVE  task'[t].active = NoPlan
  BY <1>1, <1>2, ClosedStatuses
  DEF Pointers, PointerMove, PlanInv, ClosedTaskHasNoPlan
<1>3. ASSUME NEW a \in Actions, action'[a].status = "EXECUTING", ~PlanCurrent(a)'
      PROVE  \/ plan'[action'[a].plan].status \in PLAN_TERMINAL
             \/ task'[TaskOf(a)'].status \in TASK_TERMINAL
  <2>1. action[a].status = "EXECUTING"
    BY <1>1, <1>3 DEF Pointers, AttemptMove, Exists, PlanCurrent, TaskOf
  <2>2. CASE ~PlanCurrent(a)
    BY <1>1, <2>1, <2>2, StalePointer
  <2>3. CASE PlanCurrent(a)
    <3>1. /\ action[a].plan \in Plans
          /\ action'[a].plan = action[a].plan
          /\ TaskOf(a) \in Tasks
          /\ TaskOf(a)' = TaskOf(a)
      BY <1>1, <2>1, OwnerIsTask
      DEF TypeInv, RowsHavePlans, Exists, Pointers, AttemptMove, TaskOf
    <3>2. PointerMove(TaskOf(a)) /\ action[a].plan # NoPlan
      BY <1>1, <3>1, WorkConstants DEF Pointers
    <3> QED
      BY <1>3, <2>3, <3>1, <3>2 DEF PointerMove, PlanCurrent
  <2> QED
    BY <2>2, <2>3
<1> QED
  BY <1>2, <1>3 DEF PlanInv, ClosedTaskHasNoPlan, StaleForGood

\* The invariant holds of every reachable state.
THEOREM PlanInvariance ==
  ASSUME TaskTargets \cap TASK_TERMINAL = {}
  PROVE  Spec => [](TypeInv /\ PlanInv)
<1>1. Init => PlanInv
  BY PlansInitially
<1>2. TypeInv /\ PlanInv /\ [Next]_vars => PlanInv'
  BY StepKeepsPlans
<1> QED
  BY <1>1, <1>2, AttemptInvariance, PTL DEF Spec

-----------------------------------------------------------------------------
(* What follows for attempts.                                              *)

\* Contract 9 rows 2, 3 and 6 (begin_executing's stale-plan check together with
\* _terminal_transition's clearing of the pointer): no attempt starts under a
\* closed task.
THEOREM NothingStartsUnderClosedTasks ==
  ASSUME TaskTargets \cap TASK_TERMINAL = {}
  PROVE  Spec => NoStartUnderClosedTask
<1>1. ASSUME TypeInv, PlanInv, [Next]_vars, NEW a \in Actions,
             action[a].status = "PENDING", action'[a].status = "EXECUTING"
      PROVE  task[TaskOf(a)].status \notin TASK_TERMINAL
  <2>1. PlanCurrent(a)
    BY <1>1, StepMovesPointers DEF Pointers, AttemptMove
  <2>2. TaskOf(a) \in Tasks /\ action[a].plan # NoPlan
    BY <1>1, OwnerIsTask, WorkConstants DEF TypeInv, RowsHavePlans, Exists
  <2> QED
    BY <1>1, <2>1, <2>2 DEF PlanInv, ClosedTaskHasNoPlan, PlanCurrent
<1>2. TypeInv /\ PlanInv /\ [Next]_vars =>
      [\A a \in Actions :
         action[a].status = "PENDING" /\ action'[a].status = "EXECUTING"
         => task[TaskOf(a)].status \notin TASK_TERMINAL]_vars
  BY <1>1
<1> QED
  BY <1>2, PlanInvariance, PTL DEF Spec, NoStartUnderClosedTask

\* Contract 9 row 6 (activate_plan asks for a DRAFT, supersede_plan retires the
\* old plan): once the plan of a started attempt has been replaced, it never
\* becomes the active one again.
THEOREM ReplacedPlansStayReplaced ==
  ASSUME TaskTargets \cap TASK_TERMINAL = {}
  PROVE  Spec => StaleStaysStale
<1>1. TypeInv /\ PlanInv /\ [Next]_vars =>
      [\A a \in Actions :
         action[a].status = "EXECUTING" /\ ~PlanCurrent(a) => ~PlanCurrent(a)']_vars
  BY StepMovesPointers, StalePointer
<1> QED
  BY <1>1, PlanInvariance, PTL DEF Spec, StaleStaysStale

-----------------------------------------------------------------------------
(* Threads.  A started attempt that is neither frozen nor stale has its    *)
(* thread, or recovery still has it on its list.                           *)

\* The rows a report would still be accepted for.
Reportable(a) == action[a].status = "EXECUTING" /\ action[a].integrity # "FROZEN"

\* The thread is past its begin_executing and knows the row as it is.
Carries(w, a) ==
  /\ worker[w].action = a
  /\ worker[w].rev = action[a].rev
  /\ worker[w].pc \notin {"idle", "holding"}

ThreadInv ==
  /\ process = "recovering" => \A a \in Actions : Reportable(a) => a \in stuck
  /\ NoLostExecution

\* A step that leaves every reportable row as it was, every thread that carries
\* one, and the process, keeps the invariant.
LEMMA ThreadsCarryOn ==
  ASSUME TypeInv, PlanInv, ThreadInv, Pointers, UNCHANGED <<process, stuck>>,
         \A a \in Actions : Reportable(a)' => action'[a] = action[a],
         \A w \in Workers, a \in Actions :
           Reportable(a)' /\ Carries(w, a) => Carries(w, a)'
  PROVE  ThreadInv'
<1>1. ASSUME NEW a \in Actions, process = "up", Reportable(a)', PlanCurrent(a)'
      PROVE  \E w \in Workers : Carries(w, a)'
  <2>1. Reportable(a)
    BY <1>1 DEF Reportable
  <2>2. PlanCurrent(a)
    BY <1>1, <2>1, StalePointer DEF Reportable
  <2>3. PICK w \in Workers : Carries(w, a)
    BY <1>1, <2>1, <2>2 DEF ThreadInv, NoLostExecution, Reportable, Carries
  <2> QED
    BY <1>1, <2>3
<1>2. \A a \in Actions : Reportable(a)' => Reportable(a)
  BY DEF Reportable
<1> QED
  BY <1>1, <1>2 DEF ThreadInv, NoLostExecution, Reportable, Carries

\* A thread's own steps keep the invariant: it lets a reportable attempt go
\* only by settling it.
LEMMA ThreadKeepsThreads ==
  ASSUME TypeInv, PlanInv, ThreadInv, Pointers, NEW w \in Workers,
         Executing(w) \/ \E a \in Actions : hold_action(w, a),
         process = "up", UNCHANGED <<process, stuck>>
  PROVE  ThreadInv'
<1> USE DEF TypeInv, TypeOK
<1>0. PICK a : a = worker[w].action
  OBVIOUS
<1>1. CASE begin_executing(w)
  <2>1. /\ a \in Actions
        /\ worker' = [worker EXCEPT ![w].pc = "begun", ![w].rev = @ + 1]
        /\ \A b \in Actions \ {a} : action'[b] = action[b]
        /\ action'[a].rev = action[a].rev + 1
        /\ worker[w].pc = "holding"
        /\ worker[w].rev = action[a].rev
    BY <1>0, <1>1 DEF begin_executing, ThreadsHoldRows, SetStatus, ActionRow
  <2>2. Carries(w, a)'
    BY <1>0, <2>1 DEF Carries, Worker
  <2>3. ASSUME NEW v \in Workers, NEW b \in Actions \ {a}, Carries(v, b)
        PROVE  Carries(v, b)'
    BY <1>0, <2>1, <2>3 DEF Carries
  <2>4. ASSUME NEW b \in Actions \ {a}, process = "up", Reportable(b)',
               PlanCurrent(b)'
        PROVE  \E v \in Workers : Carries(v, b)'
    <3>1. Reportable(b)
      BY <2>1, <2>4 DEF Reportable
    <3>2. PlanCurrent(b)
      BY <2>4, <3>1, StalePointer DEF Reportable
    <3>3. PICK v \in Workers : Carries(v, b)
      BY <2>4, <3>1, <3>2 DEF ThreadInv, NoLostExecution, Reportable, Carries
    <3> QED
      BY <2>3, <3>3
  <2>5. ASSUME NEW b \in Actions, process = "up", Reportable(b)', PlanCurrent(b)'
        PROVE  \E v \in Workers : Carries(v, b)'
    BY <2>2, <2>4, <2>5
  <2>6. NoLostExecution'
    BY <2>5 DEF NoLostExecution, Reportable, Carries
  <2> QED
    BY <2>6 DEF ThreadInv
<1>2. CASE mark_observed(w) \/ mark_failed(w) \/ mark_unknown_outcome(w)
  <2>1. a \in Actions /\ worker' = [worker EXCEPT ![w] = Idle]
    BY <1>0, <1>2
    DEF mark_observed, mark_failed, mark_unknown_outcome, ThreadsHoldRows
  <2>2. PICK target \in {"OBSERVED", "FAILED", "UNKNOWN_OUTCOME"} :
          SetStatus(a, target)
    BY <1>0, <1>2 DEF mark_observed, mark_failed, mark_unknown_outcome, unknown_outcome
  <2>3. /\ action'[a].status # "EXECUTING"
        /\ \A b \in Actions \ {a} : action'[b] = action[b]
    BY <2>1, <2>2 DEF SetStatus, ActionRow
  <2> QED
    BY <1>0, <2>1, <2>3, ThreadsCarryOn DEF Reportable, Carries
<1>3. CASE report_rejected(w)
  <2>1. /\ UNCHANGED <<action, task>>
        /\ worker' = [worker EXCEPT ![w] = Idle]
    BY <1>3 DEF report_rejected, rowVars, workVars
  <2>2. ASSUME NEW b \in Actions, Reportable(b), PlanCurrent(b)
        PROVE  ~Carries(w, b)
    BY <1>3, <2>2, SettlesFromExecuting
    DEF report_rejected, Carries, Reportable, Observable, Uncertain, Failable,
        MayBecome
  <2>3. ASSUME NEW b \in Actions, process = "up", Reportable(b)', PlanCurrent(b)'
        PROVE  \E v \in Workers : Carries(v, b)'
    <3>1. Reportable(b) /\ PlanCurrent(b)
      BY <2>1, <2>3 DEF Reportable, PlanCurrent, TaskOf
    <3>2. PICK v \in Workers : Carries(v, b)
      BY <2>3, <3>1 DEF ThreadInv, NoLostExecution, Reportable, Carries
    <3> QED
      BY <2>1, <2>2, <3>1, <3>2 DEF Carries
  <2> QED
    BY <2>3 DEF ThreadInv, NoLostExecution, Reportable, Carries
<1>4. ASSUME UNCHANGED action, NEW r, worker' = [worker EXCEPT ![w] = r],
             worker[w].pc \in {"idle", "holding"}
      PROVE  ThreadInv'
  BY <1>4, ThreadsCarryOn DEF Reportable, Carries
<1>5. ASSUME UNCHANGED action, NEW pc \in WorkerPC \ {"idle", "holding"},
             worker' = [worker EXCEPT ![w].pc = pc]
      PROVE  ThreadInv'
  BY <1>5, ThreadsCarryOn DEF Reportable, Carries, Worker
<1>6. CASE begin_rejected(w) \/ \E b \in Actions : hold_action(w, b)
  BY <1>4, <1>6 DEF begin_rejected, hold_action, rowVars
<1>7. CASE capability_returns(w) \/ capability_refuses(w) \/ capability_raises(w)
  BY <1>5, <1>7
  DEF capability_returns, capability_refuses, capability_raises, rowVars, WorkerPC
<1> QED
  BY <1>1, <1>2, <1>3, <1>6, <1>7 DEF Executing

\* The host's and the retries' steps keep the invariant.
LEMMA OthersKeepThreads ==
  ASSUME TypeInv, PlanInv, ThreadInv, Pointers, UNCHANGED <<process, stuck>>,
         \/ \E a \in Actions : ActionStep(a)
         \/ \E c \in Triggers : RetryStep(c)
         \/ UNCHANGED <<action, worker>>
  PROVE  ThreadInv'
<1> USE DEF TypeInv, TypeOK
<1>1. ASSUME UNCHANGED worker,
             \A a \in Actions : Reportable(a)' => action'[a] = action[a]
      PROVE  ThreadInv'
  BY <1>1, ThreadsCarryOn DEF Carries
<1>2. ASSUME NEW a \in Actions, NEW p, NEW origin, Insert(a, p, origin)
      PROVE  \A b \in Actions : Reportable(b)' => action'[b] = action[b]
  BY <1>2 DEF Insert, Reportable
<1>3. ASSUME NEW a \in Actions, cancel_action(a) \/ freeze_action(a)
      PROVE  \A b \in Actions : Reportable(b)' => action'[b] = action[b]
  BY <1>3 DEF cancel_action, freeze_action, SetStatus, Reportable, ActionRow
<1> QED
  BY <1>1, <1>2, <1>3
  DEF ActionStep, create_action, cancel_action, freeze_action, RetryStep,
      decide_retry, retry_action, retry_rejected, rowVars

\* Dying, restarting and recovering keep the invariant: recover() lists every
\* EXECUTING attempt and passes over none that it could mark.
LEMMA ProcessKeepsThreads ==
  ASSUME TypeInv, ThreadInv, crash \/ restart \/ Recovering, RunRecovery
  PROVE  ThreadInv'
<1> USE DEF TypeInv, TypeOK
<1>1. CASE crash \/ restart
  BY <1>1 DEF crash, restart, rowVars, ThreadInv, NoLostExecution, Reportable
<1>2. ASSUME NEW a \in Actions, process = "recovering", recover_marks(a)
      PROVE  ThreadInv'
  <2>1. /\ action'[a].status = "UNKNOWN_OUTCOME"
        /\ \A b \in Actions \ {a} : action'[b] = action[b]
        /\ process' = process
        /\ stuck' = stuck \ {a}
    BY <1>2 DEF recover_marks, unknown_outcome, SetStatus, ActionRow
  <2> QED
    BY <1>2, <2>1 DEF ThreadInv, NoLostExecution, Reportable
<1>3. ASSUME NEW a \in Actions, process = "recovering", recover_skips(a)
      PROVE  ThreadInv'
  <2>1. ~Reportable(a)
    BY <1>3, SettlesFromExecuting DEF recover_skips, Uncertain, MayBecome, Reportable
  <2> QED
    BY <1>3, <2>1 DEF recover_skips, rowVars, ThreadInv, NoLostExecution, Reportable
<1>4. CASE process = "recovering" /\ recovered
  BY <1>4 DEF recovered, rowVars, ThreadInv, NoLostExecution, Reportable
<1> QED
  BY <1>1, <1>2, <1>3, <1>4 DEF Recovering

\* Every step keeps the invariant.
LEMMA StepKeepsThreads ==
  ASSUME TypeInv, PlanInv, ThreadInv, [Next]_vars, RunRecovery,
         TaskTargets \cap TASK_TERMINAL = {}
  PROVE  ThreadInv'
<1>1. Pointers
  BY StepMovesPointers
<1>2. CASE Serving
  <2>1. UNCHANGED <<process, stuck>>
    BY <1>2 DEF Serving, procVars
  <2> QED
    BY <1>1, <1>2, <2>1, ThreadKeepsThreads, OthersKeepThreads
    DEF Serving, WorkStep, ObligationStep
<1>3. CASE UNCHANGED vars
  BY <1>1, <1>3, OthersKeepThreads DEF vars, rowVars, procVars
<1> QED
  BY <1>2, <1>3, ProcessKeepsThreads DEF Next

\* Contract 8 (execute_action, recover): where the entry point runs recovery, a
\* started attempt that is neither frozen nor stale always has a thread whose
\* report will be accepted, or recovery is still about to settle it.
THEOREM ExecutionsAreNotLost ==
  ASSUME TaskTargets \cap TASK_TERMINAL = {}, RunRecovery
  PROVE  Spec => []NoLostExecution
<1>1. Init => ThreadInv
  BY DEF Init, NoRow, ThreadInv, NoLostExecution, Reportable
<1>2. TypeInv /\ PlanInv /\ ThreadInv /\ [Next]_vars => ThreadInv'
  BY StepKeepsThreads
<1>3. ThreadInv => NoLostExecution
  BY DEF ThreadInv
<1> QED
  BY <1>1, <1>2, <1>3, PlanInvariance, PTL DEF Spec

-----------------------------------------------------------------------------
(* Retries.                                                                *)

Retries(t) == {b \in Actions : action[b].retry_of # NoAction /\ TaskOf(b) = t}

\* The count is of a finite set, though there may be infinitely many ids; a row
\* that does not exist is nobody's retry.
BudgetInv ==
  /\ \A t \in Tasks : /\ IsFiniteSet(Retries(t))
                      /\ task[t].used = Cardinality(Retries(t))
                      /\ task[t].used <= MaxAttempts
  /\ \A a \in Actions : ~Exists(a) => action[a].retry_of = NoAction

\* A step that charges nobody and makes nobody a retry keeps the budget.
LEMMA BudgetRests ==
  ASSUME BudgetInv, \A t \in Tasks : task'[t].used = task[t].used,
         \A a \in Actions :
           \/ /\ action'[a].retry_of = action[a].retry_of
              /\ action'[a].plan = action[a].plan
              /\ Exists(a)' <=> Exists(a)
           \/ /\ {action[a].retry_of, action'[a].retry_of} = {NoAction}
              /\ Exists(a)'
  PROVE  BudgetInv'
<1>1. \A t \in Tasks : Retries(t)' = Retries(t)
  BY DEF Retries, TaskOf
<1> QED
  BY <1>1 DEF BudgetInv

\* Every step of the work service charges nobody.
LEMMA WorkChargesNobody ==
  ASSUME TypeOK, WorkNext
  PROVE  \A t \in Tasks : task'[t].used = task[t].used
<1> USE DEF TypeOK, TaskRow
<1>1. ASSUME NEW t \in Tasks, NEW p, Point(t, p)
      PROVE  \A u \in Tasks : task'[u].used = task[u].used
  BY <1>1 DEF Point
<1>2. ASSUME NEW t \in Tasks, NEW target, CloseTask(t, target)
      PROVE  \A u \in Tasks : task'[u].used = task[u].used
  BY <1>2 DEF CloseTask
<1>3. ASSUME NEW t \in Tasks, freeze_task(t)
      PROVE  \A u \in Tasks : task'[u].used = task[u].used
  BY <1>3 DEF freeze_task
<1>4. ASSUME NEW t \in Tasks, NEW target \in TaskTargets,
             transition_task(t, target)
      PROVE  \A u \in Tasks : task'[u].used = task[u].used
  BY <1>4 DEF transition_task
<1> QED
  BY <1>1, <1>2, <1>3, <1>4
  DEF WorkNext, activate_plan, supersede_plan, complete_task, terminate_task,
      complete_goal, terminate_goal, CloseGoal, transition_goal, freeze_goal,
      transition_plan

\* A retry counts once: the new row was nobody's retry, and its task is charged.
LEMMA RetryKeepsBudget ==
  ASSUME TypeInv, BudgetInv, NEW c \in Triggers, retry_action(c)
  PROVE  BudgetInv'
<1> USE DEF TypeInv, TypeOK
<1>1. PICK a \in Actions, t \in Tasks :
        a = trigger[c].action /\ a # NoAction /\ t = TaskOf(a)
  BY OwnerIsTask DEF retry_action, Trigger, TriggersHoldRows
<1>2. /\ task[t].used \in Nat
      /\ task[t].used < MaxAttempts
      /\ task'[t].used = task[t].used + 1
      /\ \A u \in Tasks \ {t} : task'[u] = task[u]
  BY <1>1 DEF retry_action, ChargeRetry, TaskRow
<1>3. PICK b \in Actions : Insert(b, action[a].plan, a)
  BY <1>1 DEF retry_action
<1>4. /\ ~Exists(b)
      /\ action'[b].retry_of = a
      /\ action'[b].plan = action[a].plan
      /\ Exists(b)'
      /\ \A d \in Actions \ {b} : action'[d] = action[d]
  BY <1>3 DEF Insert, Exists
<1>5. \A u \in Tasks \ {t} : Retries(u)' = Retries(u)
  BY <1>1, <1>4 DEF BudgetInv, Retries, TaskOf
<1>6. b \notin Retries(t) /\ Retries(t)' = Retries(t) \cup {b}
  BY <1>1, <1>4 DEF BudgetInv, Retries, TaskOf
<1>7. /\ IsFiniteSet(Retries(t)')
      /\ Cardinality(Retries(t)') = Cardinality(Retries(t)) + 1
  <2>1. IsFiniteSet(Retries(t))
    BY <1>1 DEF BudgetInv
  <2>2. /\ IsFiniteSet(Retries(t) \cup {b})
        /\ Cardinality(Retries(t) \cup {b}) = Cardinality(Retries(t)) + 1
    BY <1>6, <2>1, FS_AddElement
  <2> QED
    BY <1>6, <2>2
<1>8. ASSUME NEW u \in Tasks
      PROVE  /\ IsFiniteSet(Retries(u)')
             /\ task'[u].used = Cardinality(Retries(u)')
             /\ task'[u].used <= MaxAttempts
  <2>1. CASE u = t
    BY <1>2, <1>7, <2>1, WorkConstants DEF BudgetInv
  <2>2. CASE u # t
    BY <1>2, <1>5, <2>2 DEF BudgetInv
  <2> QED
    BY <2>1, <2>2
<1>9. \A d \in Actions : ~Exists(d)' => action'[d].retry_of = NoAction
  BY <1>4 DEF BudgetInv, Exists
<1> QED
  BY <1>8, <1>9 DEF BudgetInv

\* Every step keeps the budget.
LEMMA StepKeepsBudget ==
  ASSUME TypeInv, BudgetInv, [Next]_vars
  PROVE  BudgetInv'
<1> USE DEF TypeInv, TypeOK
<1>1. ASSUME UNCHANGED action, \A t \in Tasks : task'[t].used = task[t].used
      PROVE  BudgetInv'
  BY <1>1, BudgetRests DEF Exists
<1>2. CASE WorkStep
  BY <1>1, <1>2, WorkChargesNobody DEF WorkStep
<1>3. CASE ObligationStep \/ UNCHANGED vars
  BY <1>1, <1>3 DEF ObligationStep, workVars, vars, rowVars
<1>4. ASSUME NEW a \in Actions, NEW target \in ActionStatus, Exists(a),
             SetStatus(a, target), UNCHANGED task
      PROVE  BudgetInv'
  <2>1. \A b \in Actions : /\ action'[b].retry_of = action[b].retry_of
                           /\ action'[b].plan = action[b].plan
                           /\ Exists(b)' <=> Exists(b)
    BY <1>4, NamedStatuses DEF SetStatus, ActionRow, Exists
  <2> QED
    BY <1>4, <2>1, BudgetRests
<1>5. ASSUME NEW a \in Actions, NEW p \in Plans, create_action(a, p)
      PROVE  BudgetInv'
  BY <1>5, BudgetRests DEF create_action, Insert, BudgetInv, Exists
<1>6. ASSUME NEW a \in Actions, cancel_action(a) \/ freeze_action(a)
      PROVE  BudgetInv'
  <2>1. CASE cancel_action(a)
    BY <1>4, <2>1, CancelsUnsettled, NamedStatuses
    DEF cancel_action, MayBecome, Exists
  <2>2. CASE freeze_action(a)
    BY <2>2, BudgetRests DEF freeze_action, ActionRow, Exists
  <2> QED
    BY <1>6, <2>1, <2>2
<1>7. ASSUME NEW w \in Workers, Executing(w) \/ \E a \in Actions : hold_action(w, a)
      PROVE  BudgetInv'
  <2> DEFINE a == worker[w].action
  <2>1. CASE begin_executing(w) \/ mark_observed(w) \/ mark_failed(w)
             \/ mark_unknown_outcome(w)
    <3>1. a \in Actions /\ Exists(a)
      BY <2>1 DEF begin_executing, mark_observed, mark_failed,
                  mark_unknown_outcome, ThreadsHoldRows
    <3>2. UNCHANGED task /\ \E target \in ActionStatus : SetStatus(a, target)
      BY <2>1, NamedStatuses
      DEF begin_executing, mark_observed, mark_failed, mark_unknown_outcome,
          unknown_outcome
    <3> QED
      BY <1>4, <3>1, <3>2
  <2>2. CASE UNCHANGED rowVars
    BY <1>1, <2>2 DEF rowVars, workVars
  <2> QED
    BY <1>7, <2>1, <2>2
    DEF Executing, hold_action, begin_rejected, capability_returns,
        capability_refuses, capability_raises, report_rejected
<1>8. ASSUME NEW c \in Triggers, RetryStep(c)
      PROVE  BudgetInv'
  BY <1>1, <1>8, RetryKeepsBudget
  DEF RetryStep, decide_retry, retry_rejected, rowVars, workVars
<1>9. CASE crash \/ restart \/ Recovering
  <2>1. ASSUME NEW a \in Actions, recover_marks(a)
        PROVE  BudgetInv'
    <3>1. Exists(a)
      BY <2>1, SettlesFromExecuting DEF recover_marks, Uncertain, MayBecome, Exists
    <3> QED
      BY <1>4, <2>1, <3>1, NamedStatuses DEF recover_marks, unknown_outcome
  <2>2. CASE UNCHANGED rowVars
    BY <1>1, <2>2 DEF rowVars, workVars
  <2> QED
    BY <1>9, <2>1, <2>2
    DEF crash, restart, Recovering, recover_skips, recovered
<1> QED
  BY <1>2, <1>3, <1>5, <1>6, <1>7, <1>8, <1>9 DEF Next, Serving, ActionStep

\* Contract 9 row 7 (retry_action): however many triggers race, a task has used
\* exactly as much of its budget as there are retries under it, and no more
\* than it has.
THEOREM BudgetIsExact == Spec => []RetryBudgetExact
<1>1. Init => BudgetInv
  <2> SUFFICES ASSUME Init PROVE BudgetInv
    OBVIOUS
  <2>1. \A t \in Tasks : Retries(t) = {} /\ task[t].used = 0
    BY DEF Init, WorkInit, NewTask, NoRow, Retries
  <2>2. IsFiniteSet({}) /\ Cardinality({}) = 0
    BY FS_EmptySet
  <2>3. 0 <= MaxAttempts
    BY WorkConstants
  <2>4. \A a \in Actions : action[a].retry_of = NoAction
    BY DEF Init, NoRow
  <2> QED
    BY <2>1, <2>2, <2>3, <2>4 DEF BudgetInv
<1>2. TypeInv /\ BudgetInv /\ [Next]_vars => BudgetInv'
  BY StepKeepsBudget
<1>3. BudgetInv => RetryBudgetExact
  BY DEF BudgetInv, RetryBudgetExact, Retries
<1> QED
  BY <1>1, <1>2, <1>3, AttemptInvariance, PTL DEF Spec
=============================================================================
