-------------------------------- MODULE Core --------------------------------
(***************************************************************************)
(* The specification of the execution core and the properties that make it *)
(* correct: an external effect is attempted at most once and only after    *)
(* its intent is durable, what is recorded about it is true, what is       *)
(* uncertain stays owed to somebody, and nothing runs under work that has  *)
(* ended.                                                                  *)
(***************************************************************************)
EXTENDS Execution

Init ==
  /\ WorkInit
  /\ action   = [a \in Actions |-> NoRow]
  /\ observed = {}
  /\ effect   = [a \in Actions |-> 0]
  /\ worker   = [w \in Workers |-> Idle]
  /\ trigger  = [c \in Triggers |-> NoTrigger]
  /\ process  = "up"
  /\ stuck    = {}
  /\ crashes  = 0

WorkStep ==
  /\ WorkNext
  /\ UNCHANGED <<action, observed, effect, worker, trigger>>

ObligationStep ==
  /\ \E o \in Obls :
       \/ \E a \in Actions, owner \in Owners :
            action[a].status # "ABSENT" /\ create_obligation(o, a, owner)
       \/ \E new_owner, expected_owner \in Owners :
            transfer_obligation(o, new_owner, expected_owner)
       \/ abandon_obligation(o)
       \/ resolve_obligation(o, observed)
  /\ UNCHANGED <<workVars, action, observed, effect, worker, trigger>>

ActionStep(a) ==
  \/ \E p \in Plans : create_action(a, p)
  \/ cancel_action(a)
  \/ freeze_action(a)

\* The thread inside execute_action, which runs to the end once it has started.
Executing(w) ==
  \/ begin_executing(w)
  \/ begin_rejected(w)
  \/ capability_returns(w)
  \/ capability_refuses(w)
  \/ capability_raises(w)
  \/ mark_observed(w)
  \/ mark_unknown_outcome(w)
  \/ mark_failed(w)
  \/ report_rejected(w)

RetryStep(c) ==
  \/ \E a \in Actions : decide_retry(c, a)
  \/ retry_action(c)
  \/ retry_rejected(c)

Serving ==
  /\ process = "up"
  /\ \/ WorkStep
     \/ ObligationStep
     \/ \E a \in Actions : ActionStep(a)
     \/ \E w \in Workers : Executing(w) \/ \E a \in Actions : hold_action(w, a)
     \/ \E c \in Triggers : RetryStep(c)
  /\ UNCHANGED procVars

\* recover() runs in the starting process before anything else does.
Recovering ==
  /\ process = "recovering"
  /\ \/ \E a \in Actions : recover_marks(a) \/ recover_skips(a)
     \/ recovered

Next == Serving \/ crash \/ restart \/ Recovering

Spec == Init /\ [][Next]_vars

\* A started thread, a restarted process and a running recovery go on; nothing
\* obliges a user, a trigger or the work service to act, or the process to die.
Fairness ==
  /\ \A w \in Workers :
       WF_vars(process = "up" /\ Executing(w) /\ UNCHANGED procVars)
  /\ WF_vars(restart)
  /\ WF_vars(Recovering)

FairSpec == Spec /\ Fairness

-----------------------------------------------------------------------------
(* Safety.                                                                 *)

TypeOK ==
  /\ obligation \in [Obls -> OblRow]
  /\ goal \in [Goals -> GoalRow]
  /\ task \in [Tasks -> TaskRow]
  /\ plan \in [Plans -> PlanRow]
  /\ action \in [Actions -> ActionRow]
  /\ observed \subseteq Actions
  /\ effect \in [Actions -> Nat]
  /\ worker \in [Workers -> Worker]
  /\ trigger \in [Triggers -> Trigger]
  /\ process \in {"up", "down", "recovering"}
  /\ stuck \subseteq Actions
  /\ crashes \in Nat

\* Law 8 (begin_executing, execute_action): an attempt whose effect took place
\* was durably EXECUTING first, whatever threads raced for it and wherever the
\* process died.
EffectAfterIntent ==
  \A a \in Actions : effect[a] > 0 => action[a].status \notin {"ABSENT", "PENDING"}

\* Laws 7 and 10: one attempt never produces its effect twice, also when two
\* threads hold the same PENDING action or a restart intervenes.
AtMostOneEffect == \A a \in Actions : effect[a] <= 1

\* Law 9 (mark_observed, mark_failed, recover): an outcome is never guessed. An
\* attempt that classifies as KNOWN_COMPLETED had its effect, and one that is
\* FAILED, or never got past PENDING, had none.
TruthfulOutcome ==
  \A a \in Actions :
    /\ classify_action_state(a) = "KNOWN_COMPLETED" => effect[a] = 1
    /\ classify_action_state(a) = "KNOWN_NOT_STARTED"
         => effect[a] = 0 \/ action[a].status = "CANCELLED"

\* Contract 8 row 5 (classify_action_state): an Observation row exists exactly
\* for the OBSERVED actions, so no crash leaves an INTEGRITY_VIOLATION behind.
ObservationIffObserved ==
  \A a \in Actions : a \in observed <=> action[a].status = "OBSERVED"

\* Law 17: an uncertain attempt has an obligation, and since nothing can be
\* observed of it any more that obligation is never RESOLVED: only a human's
\* abandonment can close it.
UncertainStaysOwed ==
  \A a \in Actions : action[a].status = "UNKNOWN_OUTCOME" =>
    /\ \E o \in Obls : obligation[o].origin = a
    /\ \A o \in Obls : obligation[o].origin = a =>
         obligation[o].disposition \in {"OPEN", "ABANDONED"}

\* Contract 9 row 7 (retry_action): the budget a task has used is exactly the
\* number of retry attempts that exist under it, and never exceeds the budget.
RetryBudgetExact ==
  \A t \in Tasks :
    /\ task[t].used = Cardinality({b \in Actions :
                        action[b].retry_of # NoAction /\ TaskOf(b) = t})
    /\ task[t].used <= MaxAttempts

\* While the process is up an EXECUTING attempt has a thread that can still
\* report it, unless it was frozen or its plan stopped being the active one
\* (then only the next recovery settles it).
NoLostExecution ==
  \A a \in Actions :
    /\ process = "up"
    /\ action[a].status = "EXECUTING"
    /\ action[a].integrity # "FROZEN"
    /\ PlanCurrent(a)
    => \E w \in Workers : /\ worker[w].action = a
                          /\ worker[w].rev = action[a].rev
                          /\ worker[w].pc \notin {"idle", "holding"}

\* complete_object, cancel_task, archive_object: a terminal task has no active
\* plan.
ClosedTaskHasNoPlan ==
  \A t \in Tasks : task[t].status \in TASK_TERMINAL => task[t].active = NoPlan

\* What the Contract requires and the code does not keep (Contract 8, the five
\* outcomes of classify_action_state): what classifies as KNOWN_NOT_STARTED had
\* no external effect.
NotStartedHadNoEffect ==
  \A a \in Actions :
    action[a].status # "ABSENT" /\ classify_action_state(a) = "KNOWN_NOT_STARTED"
    => effect[a] = 0

-----------------------------------------------------------------------------
(* What a step may never do.                                               *)

\* Contract 9 rows 2, 3 and 6: no attempt starts under a task that is closed,
\* though neither begin_executing nor create_action looks at the task's status.
NoStartUnderClosedTask ==
  [][\A a \in Actions :
       action[a].status = "PENDING" /\ action'[a].status = "EXECUTING"
       => task[TaskOf(a)].status \notin TASK_TERMINAL]_vars

\* Contract 9 row 6: once a started attempt's plan has been replaced it never
\* becomes the active plan again, so a stale worker cannot be mistaken for a
\* current one.
StaleStaysStale ==
  [][\A a \in Actions :
       action[a].status = "EXECUTING" /\ ~PlanCurrent(a) => ~PlanCurrent(a)']_vars

\* Law 20: in the very step that closes a task or a goal, every OPEN obligation
\* of its subtree passes to the registry.
ClosingHandsOver ==
  [][/\ \A t \in Tasks :
          task[t].status \notin TASK_TERMINAL /\ task'[t].status \in TASK_TERMINAL
          => \A o \in Obls : Open(o)' => obligation'[o].owner # t
     /\ \A g \in Goals :
          goal[g].status \notin GOAL_TERMINAL /\ goal'[g].status \in GOAL_TERMINAL
          => \A o \in Obls : Open(o)' => obligation'[o].owner \notin Subtree(g)]_vars

\* Laws 19 and 22: a disposition is final. A row that is RESOLVED or ABANDONED
\* never changes again, owner included, and no row disappears.
DispositionIsFinal ==
  [][\A o \in Obls :
       /\ obligation[o].disposition \in {"RESOLVED", "ABANDONED"}
          => obligation'[o] = obligation[o]
       /\ obligation[o].disposition # "ABSENT"
          => obligation'[o].disposition # "ABSENT"]_vars

\* Law 14: a terminal goal, task or attempt never changes its status again.
TerminalIsFinal ==
  [][/\ \A g \in Goals : goal[g].status \in GOAL_TERMINAL
                         => goal'[g].status = goal[g].status
     /\ \A t \in Tasks : task[t].status \in TASK_TERMINAL
                         => task'[t].status = task[t].status
     /\ \A a \in Actions : action[a].status \in ACTION_TERMINAL
                           => action'[a].status = action[a].status]_vars

-----------------------------------------------------------------------------
(* Liveness.                                                               *)

Settled(a) ==
  \/ action[a].status # "EXECUTING"
  \/ action[a].integrity = "FROZEN"
  \/ ~PlanCurrent(a)

\* Every started attempt is eventually settled by its thread or by recovery, unless it is
\* frozen or its plan is replaced meanwhile: none is EXECUTING for ever.
InFlightSettles == \A a \in Actions : []<>Settled(a)
=============================================================================
