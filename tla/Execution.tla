------------------------------ MODULE Execution ------------------------------
(***************************************************************************)
(* The execution core: the execution service (v5/execution.py), the        *)
(* executor that runs a capability around it (v5/capabilities), crashes    *)
(* and startup recovery (v5/recovery.py), composed with the work service   *)
(* and the obligations service over one store.                             *)
(*                                                                         *)
(* Rows survive a crash; worker, trigger and stuck are in memory and do    *)
(* not.  `effect` is the outside world: how often the capability's         *)
(* external effect took place for an attempt.  No operation reads it.      *)
(***************************************************************************)
EXTENDS Work, FiniteSets

CONSTANTS HostActions,   \* the ids create_action may mint; a retry mints any
                         \* (bounds the rows)
          Workers,       \* threads inside execute_action
          Triggers,      \* sources of retry requests (timeout, user)
          MaxCrashes,    \* bound: process deaths in a behaviour
          MaxActionRev,  \* bound: freeze_action acts only below this revision
          RunRecovery    \* whether the entry point calls recovery.recover

ASSUME ExecutionConstants ==
  /\ HostActions \subseteq Actions
  /\ MaxCrashes \in Nat
  /\ MaxActionRev \in Nat
  /\ RunRecovery \in BOOLEAN

VARIABLES action,     \* id -> row; status "ABSENT" before the row exists
          observed,   \* the actions for which an Observation row exists
          effect,     \* the outside world
          worker,     \* id -> the executor's local variables
          trigger,    \* id -> the retry request's snapshot
          process,    \* "up", "down" or "recovering"
          stuck,      \* the EXECUTING ids recover() has read and not handled
          crashes

rowVars  == <<obligation, goal, task, plan, action, observed>>
procVars == <<process, stuck, crashes>>
vars     == <<rowVars, effect, worker, trigger, procVars>>

ActionRow  == [status: ActionStatus \cup {"ABSENT"}, integrity: IntegrityStatus,
               rev: Nat, plan: Plans \cup {NoPlan},
               retry_of: Actions \cup {NoAction}]
NoRow      == [status |-> "ABSENT", integrity |-> "OK", rev |-> 0,
               plan |-> NoPlan, retry_of |-> NoAction]
WorkerPC   == {"idle", "holding", "begun", "returned", "no_effect", "raised"}
Worker     == [pc: WorkerPC, action: Actions \cup {NoAction}, rev: Nat]
Idle       == [pc |-> "idle", action |-> NoAction, rev |-> 0]
Trigger    == [action: Actions \cup {NoAction}, rev: Nat]
NoTrigger  == [action |-> NoAction, rev |-> 0]

-----------------------------------------------------------------------------
(* Helpers.                                                                *)

\* _owning_task_id_locked: action -> step -> plan -> task.
TaskOf(a) == PlanTask[action[a].plan]

\* _plan_mismatch_locked: the executor names the plan it drives, which is the
\* plan of the action's step, so what remains is that it is still the active one.
PlanCurrent(a) == task[TaskOf(a)].active = action[a].plan

MayBecome(a, target) == Contracted(ACTION_TRANSITIONS, action[a].status, target)

SetStatus(a, target) ==
  action' = [action EXCEPT ![a].status = target, ![a].rev = @ + 1]

Insert(a, p, origin) ==
  /\ action[a].status = "ABSENT"
  /\ action' = [action EXCEPT ![a] =
                  [status |-> "PENDING", integrity |-> "OK", rev |-> 0,
                   plan |-> p, retry_of |-> origin]]

\* The five outcomes an existing action may be in after a restart.
classify_action_state(a) ==
  LET status == action[a].status IN
  CASE a \in observed /\ status # "OBSERVED" -> "INTEGRITY_VIOLATION"
    [] a \notin observed /\ status = "EXECUTING" -> "KNOWN_STARTED"
    [] status = "OBSERVED" -> "KNOWN_COMPLETED"
    [] a \notin observed /\ status = "UNKNOWN_OUTCOME" -> "UNKNOWN_OUTCOME"
    [] OTHER -> "KNOWN_NOT_STARTED"

-----------------------------------------------------------------------------
(* Operations of the execution service called with a freshly read row.     *)

create_action(a, p) ==
  /\ a \in HostActions
  /\ Insert(a, p, NoAction)
  /\ UNCHANGED <<obligation, goal, task, plan, observed, effect, worker, trigger>>

\* Mutant: cancels an attempt that is already settled.
cancel_action_Settled(a) ==
  /\ action[a].status \notin {"ABSENT", "CANCELLED"}
  /\ SetStatus(a, "CANCELLED")
  /\ UNCHANGED <<obligation, goal, task, plan, observed, effect, worker, trigger>>

\* No integrity check, and EXECUTING -> CANCELLED is contracted.
cancel_action(a) ==
  /\ MayBecome(a, "CANCELLED")
  /\ SetStatus(a, "CANCELLED")
  /\ UNCHANGED <<obligation, goal, task, plan, observed, effect, worker, trigger>>

\* Mutant: writes the freeze into the status column.
freeze_action_Status(a) ==
  /\ action[a].status # "ABSENT"
  /\ action[a].rev < MaxActionRev
  /\ action' = [action EXCEPT ![a].status = "FROZEN", ![a].rev = @ + 1]
  /\ UNCHANGED <<obligation, goal, task, plan, observed, effect, worker, trigger>>

\* Bumps the revision each time; MaxActionRev bounds the repetition.
freeze_action(a) ==
  /\ action[a].status # "ABSENT"
  /\ action[a].rev < MaxActionRev
  /\ action' = [action EXCEPT ![a].integrity = "FROZEN", ![a].rev = @ + 1]
  /\ UNCHANGED <<obligation, goal, task, plan, observed, effect, worker, trigger>>

-----------------------------------------------------------------------------
(* execute_action: begin (durable), external effect, report.               *)

\* The host holds an Action it has read as PENDING.
hold_action(w, a) ==
  /\ worker[w].pc = "idle"
  /\ action[a].status = "PENDING"
  /\ worker' = [worker EXCEPT ![w] = [pc |-> "holding", action |-> a,
                                      rev |-> action[a].rev]]
  /\ UNCHANGED <<rowVars, effect, trigger>>

\* Mutant: runs the capability before the intent is durable.
begin_executing_NoIntent(w) ==
  LET a == worker[w].action IN
  /\ worker[w].pc = "holding"
  /\ action[a].rev = worker[w].rev
  /\ action[a].integrity # "FROZEN"
  /\ MayBecome(a, "EXECUTING")
  /\ PlanCurrent(a)
  /\ worker' = [worker EXCEPT ![w].pc = "begun"]
  /\ UNCHANGED rowVars
  /\ UNCHANGED <<effect, trigger>>

\* Mutant: neither the revision nor the status is compared.
begin_executing_NoCAS(w) ==
  LET a == worker[w].action IN
  /\ worker[w].pc = "holding"
  /\ action[a].integrity # "FROZEN"
  /\ PlanCurrent(a)
  /\ SetStatus(a, "EXECUTING")
  /\ worker' = [worker EXCEPT ![w].pc = "begun", ![w].rev = action[a].rev + 1]
  /\ UNCHANGED <<obligation, goal, task, plan, observed, effect, trigger>>

\* Mutant: the thread goes on with the revision it had before.
begin_executing_OldRevision(w) ==
  LET a == worker[w].action IN
  /\ worker[w].pc = "holding"
  /\ action[a].rev = worker[w].rev
  /\ action[a].integrity # "FROZEN"
  /\ MayBecome(a, "EXECUTING")
  /\ PlanCurrent(a)
  /\ SetStatus(a, "EXECUTING")
  /\ worker' = [worker EXCEPT ![w].pc = "begun"]
  /\ UNCHANGED <<obligation, goal, task, plan, observed, effect, trigger>>

\* Mutant: no stale-plan revalidation.
begin_executing_AnyPlan(w) ==
  LET a == worker[w].action IN
  /\ worker[w].pc = "holding"
  /\ action[a].rev = worker[w].rev
  /\ action[a].integrity # "FROZEN"
  /\ MayBecome(a, "EXECUTING")
  /\ SetStatus(a, "EXECUTING")
  /\ worker' = [worker EXCEPT ![w].pc = "begun", ![w].rev = @ + 1]
  /\ UNCHANGED <<obligation, goal, task, plan, observed, effect, trigger>>

begin_executing(w) ==
  LET a == worker[w].action IN
  /\ worker[w].pc = "holding"
  /\ action[a].rev = worker[w].rev
  /\ action[a].integrity # "FROZEN"
  /\ MayBecome(a, "EXECUTING")
  /\ PlanCurrent(a)
  /\ SetStatus(a, "EXECUTING")
  /\ worker' = [worker EXCEPT ![w].pc = "begun", ![w].rev = @ + 1]
  /\ UNCHANGED <<obligation, goal, task, plan, observed, effect, trigger>>

\* Any guard above refuses, or the safety gate does.
begin_rejected(w) ==
  /\ worker[w].pc = "holding"
  /\ worker' = [worker EXCEPT ![w] = Idle]
  /\ UNCHANGED <<rowVars, effect, trigger>>

\* capability.execute returns, proves it did nothing (DefiniteNoEffect), or
\* raises with the effect done or not.
capability_returns(w) ==
  /\ worker[w].pc = "begun"
  /\ effect' = [effect EXCEPT ![worker[w].action] = @ + 1]
  /\ worker' = [worker EXCEPT ![w].pc = "returned"]
  /\ UNCHANGED <<rowVars, trigger>>

capability_refuses(w) ==
  /\ worker[w].pc = "begun"
  /\ worker' = [worker EXCEPT ![w].pc = "no_effect"]
  /\ UNCHANGED <<rowVars, effect, trigger>>

capability_raises(w) ==
  /\ worker[w].pc = "begun"
  /\ \E done \in {0, 1} :
       effect' = [effect EXCEPT ![worker[w].action] = @ + done]
  /\ worker' = [worker EXCEPT ![w].pc = "raised"]
  /\ UNCHANGED <<rowVars, trigger>>

\* What each report asks of the row, for an action a known at revision rev.
Observable(a, rev) ==
  /\ action[a].rev = rev
  /\ action[a].integrity # "FROZEN"
  /\ MayBecome(a, "OBSERVED")
  /\ PlanCurrent(a)

Uncertain(a, rev) ==
  /\ action[a].rev = rev
  /\ action[a].integrity # "FROZEN"
  /\ MayBecome(a, "UNKNOWN_OUTCOME")

Failable(a, rev) ==
  /\ action[a].rev = rev
  /\ MayBecome(a, "FAILED")

\* Mutant: the Observation is committed and the status write is lost.
mark_observed_Torn(w) ==
  LET a == worker[w].action IN
  /\ worker[w].pc = "returned"
  /\ Observable(a, worker[w].rev)
  /\ observed' = observed \cup {a}
  /\ worker' = [worker EXCEPT ![w] = Idle]
  /\ UNCHANGED <<obligation, goal, task, plan, action, effect, trigger>>

mark_observed(w) ==
  LET a == worker[w].action IN
  /\ worker[w].pc = "returned"
  /\ Observable(a, worker[w].rev)
  /\ observed' = observed \cup {a}
  /\ SetStatus(a, "OBSERVED")
  /\ worker' = [worker EXCEPT ![w] = Idle]
  /\ UNCHANGED <<obligation, goal, task, plan, effect, trigger>>

\* The transition and the new obligation are one transaction; the owner is the
\* owning task, whatever its status.
unknown_outcome(a, o) ==
  /\ SetStatus(a, "UNKNOWN_OUTCOME")
  /\ Mint(o, a, TaskOf(a))

mark_unknown_outcome(w) ==
  LET a == worker[w].action IN
  /\ worker[w].pc = "raised"
  /\ Uncertain(a, worker[w].rev)
  /\ \E o \in Obls \ HostObls : unknown_outcome(a, o)
  /\ worker' = [worker EXCEPT ![w] = Idle]
  /\ UNCHANGED <<goal, task, plan, observed, effect, trigger>>

\* Mutant: takes any exception for a definite failure.
mark_failed_Guess(w) ==
  LET a == worker[w].action IN
  /\ worker[w].pc \in {"no_effect", "raised"}
  /\ Failable(a, worker[w].rev)
  /\ SetStatus(a, "FAILED")
  /\ worker' = [worker EXCEPT ![w] = Idle]
  /\ UNCHANGED <<obligation, goal, task, plan, observed, effect, trigger>>

mark_failed(w) ==
  LET a == worker[w].action IN
  /\ worker[w].pc = "no_effect"
  /\ Failable(a, worker[w].rev)
  /\ SetStatus(a, "FAILED")
  /\ worker' = [worker EXCEPT ![w] = Idle]
  /\ UNCHANGED <<obligation, goal, task, plan, observed, effect, trigger>>

\* A rejected report is returned to the caller and nothing is written.
report_rejected(w) ==
  LET a == worker[w].action
      r == worker[w].rev IN
  /\ \/ worker[w].pc = "returned"  /\ ~Observable(a, r)
     \/ worker[w].pc = "raised"    /\ ~Uncertain(a, r)
     \/ worker[w].pc = "no_effect" /\ ~Failable(a, r)
  /\ worker' = [worker EXCEPT ![w] = Idle]
  /\ UNCHANGED <<rowVars, effect, trigger>>

-----------------------------------------------------------------------------
(* Retries.  A trigger decides on an action and a task revision it has     *)
(* read, and calls retry_action later.                                     *)

Retryable(a) == action[a].status \in {"UNKNOWN_OUTCOME", "FAILED"}

decide_retry(c, a) ==
  /\ trigger[c] = NoTrigger
  /\ Retryable(a)
  /\ trigger' = [trigger EXCEPT ![c] = [action |-> a, rev |-> task[TaskOf(a)].rev]]
  /\ UNCHANGED <<rowVars, effect, worker>>

\* The insert is unconditional once the checks pass; the budget update carries
\* the expected revision in its WHERE clause.
ChargeRetry(t, rev) ==
  task' = IF task[t].rev = rev
          THEN [task EXCEPT ![t].used = @ + 1, ![t].rev = @ + 1]
          ELSE task

\* Mutant: the task revision is not compared before the insert.
retry_action_Stale(c) ==
  LET a == trigger[c].action
      t == TaskOf(a) IN
  /\ a # NoAction
  /\ Retryable(a)
  /\ task[t].used < MaxAttempts
  /\ \E b \in Actions : Insert(b, action[a].plan, a)
  /\ ChargeRetry(t, trigger[c].rev)
  /\ trigger' = [trigger EXCEPT ![c] = NoTrigger]
  /\ UNCHANGED <<obligation, goal, plan, observed, effect, worker>>

retry_action(c) ==
  LET a == trigger[c].action
      t == TaskOf(a) IN
  /\ a # NoAction
  /\ Retryable(a)
  /\ task[t].rev = trigger[c].rev
  /\ task[t].used < MaxAttempts
  /\ \E b \in Actions : Insert(b, action[a].plan, a)
  /\ ChargeRetry(t, trigger[c].rev)
  /\ trigger' = [trigger EXCEPT ![c] = NoTrigger]
  /\ UNCHANGED <<obligation, goal, plan, observed, effect, worker>>

retry_rejected(c) ==
  LET t == TaskOf(trigger[c].action) IN
  /\ trigger[c] # NoTrigger
  /\ task[t].rev # trigger[c].rev \/ task[t].used >= MaxAttempts
  /\ trigger' = [trigger EXCEPT ![c] = NoTrigger]
  /\ UNCHANGED <<rowVars, effect, worker>>

-----------------------------------------------------------------------------
(* Process death, restart and startup recovery.                            *)

crash ==
  /\ process # "down"
  /\ crashes < MaxCrashes
  /\ process' = "down"
  /\ crashes' = crashes + 1
  /\ stuck' = {}
  /\ worker' = [w \in Workers |-> Idle]
  /\ trigger' = [c \in Triggers |-> NoTrigger]
  /\ UNCHANGED <<rowVars, effect>>

\* Mutant: recovery finds no stuck action.
restart_FindsNone ==
  /\ process = "down"
  /\ process' = IF RunRecovery THEN "recovering" ELSE "up"
  /\ stuck' = {}
  /\ UNCHANGED <<rowVars, effect, worker, trigger, crashes>>

restart ==
  /\ process = "down"
  /\ process' = IF RunRecovery THEN "recovering" ELSE "up"
  /\ stuck' = IF RunRecovery
              THEN {a \in Actions : action[a].status = "EXECUTING"} ELSE {}
  /\ UNCHANGED <<rowVars, effect, worker, trigger, crashes>>

\* recover() marks each stuck action, or is rejected (a FROZEN one) and goes on.
recover_marks(a) ==
  /\ a \in stuck
  /\ Uncertain(a, action[a].rev)
  /\ \E o \in Obls \ HostObls : unknown_outcome(a, o)
  /\ stuck' = stuck \ {a}
  /\ UNCHANGED <<goal, task, plan, observed, effect, worker, trigger, process, crashes>>

recover_skips(a) ==
  /\ a \in stuck
  /\ ~Uncertain(a, action[a].rev)
  /\ stuck' = stuck \ {a}
  /\ UNCHANGED <<rowVars, effect, worker, trigger, process, crashes>>

recovered ==
  /\ process = "recovering"
  /\ stuck = {}
  /\ process' = "up"
  /\ UNCHANGED <<rowVars, effect, worker, trigger, stuck, crashes>>
=============================================================================
