------------------------------ MODULE LiveLoop ------------------------------
(***************************************************************************)
(* One run of the live loop (v5/live_loop.py, run_live_slice): a language  *)
(* model proposes a goal, a task, a plan and one action per step; the host *)
(* checks every proposal (v5/cognition.py), executes the action behind the *)
(* confirmation gate (v5/safety.py), verifies it, completes the step and   *)
(* at the end the task.  Other sessions and humans change the same rows    *)
(* between any two transactions of the run.                                *)
(*                                                                         *)
(* The model behind the provider may say anything: narration, malformed    *)
(* or off-stage calls, several calls in a turn, wrong ids and revisions.   *)
(* A rejection for such a reason is always possible.  Goal rows, texts and *)
(* the findings call after the run, which writes nothing, are left out.    *)
(***************************************************************************)
EXTENDS Lifecycle, PlanOrder, Naturals

CONSTANTS Tasks, Plans, Steps, Actions, Vers,
          Listed,         \* plan -> its steps, as the model listed them
          Graph,          \* plan -> its dependency graph
          VerStep,        \* the step that requires each verification
          NeedsApproval,  \* steps whose capability requires confirmation
          NoTask, NoPlan, NoAction,
          OtherPlan,      \* the plan another session puts in a plan's place
          OtherSteps,     \* steps somebody else writes
          OtherStatuses,  \* what somebody else makes of them
          MaxOthers,      \* bound: how often somebody else writes a step
          MaxTurns,       \* max_turns
          MaxCalls,       \* bound: calls the model makes in one turn
          MaxReprompts,   \* the second reprompt halts the run: 1
          MaxRejections   \* the fifth rejection halts the run: 4

ASSUME LoopConstants ==
  /\ Steps # {}
  /\ \A p \in Plans : /\ Listed[p] \in Seq(Steps) \ {<<>>}
                      /\ IsInjective(Listed[p])
  /\ \A p \in Plans : Graph[p] \in [ToSet(Listed[p]) -> SUBSET ToSet(Listed[p])]
  /\ \A p \in Plans : \A C \in (SUBSET ToSet(Listed[p])) \ {{}} :
       \E s \in C : Graph[p][s] \cap C = {}
  /\ \A p, q \in Plans : p # q => ToSet(Listed[p]) \cap ToSet(Listed[q]) = {}
  /\ VerStep \in [Vers -> Steps]
  /\ OtherSteps \subseteq Steps /\ OtherStatuses \subseteq StepStatus
  /\ {MaxOthers, MaxTurns, MaxCalls, MaxReprompts, MaxRejections} \subseteq Nat

VARIABLES session,   \* the session's state
          task,      \* id -> status and active plan
          plan,      \* id -> status and task
          step,      \* id -> status and revision, and how many of its writes were others'
          action,    \* id -> status and step
          approval,  \* action -> its confirmation row
          result,    \* verification -> result
          run,       \* the local variables of run_live_slice
          late       \* proposals accepted since the session was terminated

rows == <<task, plan, step, action, approval, result>>
vars == <<session, rows, run, late>>

PlanOf(s) == CHOOSE p \in Plans : s \in ToSet(Listed[p])

\* The plan of the step is the one the run believes in and the active one of its
\* task (_plan_mismatch_locked).
PlanCurrent(s) ==
  /\ PlanOf(s) = run.plan
  /\ task[plan[run.plan].task].plan = run.plan

Current == run.order[run.idx]
Driven  == run.actions[Current]
Ended   == {"ok", "halted", "raised"}

-----------------------------------------------------------------------------
(* A turn.                                                                 *)

\* The turn is over without a proposal: reprompt, or halt.
Reprompt ==
  run' = [run EXCEPT !.turn = @ + 1, !.reprompts = @ + 1,
            !.pc = IF run.reprompts + 1 > MaxReprompts THEN "halted" ELSE "turn"]

MalformedTurn ==
  run' = [run EXCEPT !.turn = @ + 1, !.rejections = @ + 1,
            !.pc = IF run.rejections + 1 > MaxRejections THEN "halted" ELSE "turn"]

\* Only the calls that fit the stage at the start of the turn are kept.
Calls ==
  \E n \in 1 .. MaxCalls :
    run' = [run EXCEPT !.turn = @ + 1, !.pc = "dispatch", !.calls = n,
              !.op = run.stage, !.failed = FALSE]

provider_call ==
  /\ run.pc = "turn" /\ run.turn < MaxTurns
  /\ Reprompt \/ MalformedTurn \/ Calls
  /\ UNCHANGED <<session, rows, late>>

out_of_turns ==
  /\ run.pc = "turn" /\ run.turn = MaxTurns
  /\ run' = [run EXCEPT !.pc = "halted"]
  /\ UNCHANGED <<session, rows, late>>

\* The call is answered with a rejection; the others of the turn still run.
Rejected == run' = [run EXCEPT !.pc = "dispatch", !.calls = @ - 1, !.failed = TRUE]

\* Mutant: the session counts as live because it was when the run began.
dispatch_Cached ==
  /\ run.pc = "dispatch" /\ run.calls > 0
  /\ \/ Rejected
     \/ run' = [run EXCEPT !.pc = "propose"]
  /\ UNCHANGED <<session, rows, late>>

\* _require_context asks the session authority on every call.
SessionLive == session = "LIVE"

\* WRONG_STEP_ORDER, or the membrane's checks, the session's state among them;
\* the proposal is committed in a transaction of its own.
dispatch ==
  /\ run.pc = "dispatch" /\ run.calls > 0
  /\ \/ Rejected
     \/ SessionLive /\ run' = [run EXCEPT !.pc = "propose"]
  /\ UNCHANGED <<session, rows, late>>

Proposing(op) ==
  /\ run.pc = "propose" /\ run.op = op
  /\ late' = IF session = "LIVE" THEN late ELSE late + 1
  /\ UNCHANGED session

\* Work service or execution service: stale revision, terminal object, cycle.
propose_rejected ==
  /\ run.pc = "propose"
  /\ Rejected
  /\ UNCHANGED <<session, rows, late>>

propose_goal ==
  /\ Proposing("goal")
  /\ run' = [run EXCEPT !.stage = "task", !.pc = "dispatch", !.calls = @ - 1]
  /\ UNCHANGED rows

propose_task(t) ==
  /\ Proposing("task")
  /\ task[t].status = "ABSENT"
  /\ task' = [task EXCEPT ![t].status = "PENDING"]
  /\ run' = [run EXCEPT !.task = t, !.pc = "activate_task"]
  /\ UNCHANGED <<plan, step, action, approval, result>>

\* transition_object's answer is used as if it were always Ok.
activate_task ==
  LET t == run.task IN
  /\ run.pc = "activate_task"
  /\ \/ /\ Contracted(TASK_TRANSITIONS, task[t].status, "ACTIVE")
        /\ task' = [task EXCEPT ![t].status = "ACTIVE"]
        /\ run' = [run EXCEPT !.stage = "plan", !.pc = "dispatch", !.calls = @ - 1]
     \/ /\ ~Contracted(TASK_TRANSITIONS, task[t].status, "ACTIVE")
        /\ run' = [run EXCEPT !.pc = "raised"]
        /\ UNCHANGED task
  /\ UNCHANGED <<session, plan, step, action, approval, result, late>>

NewStep == [status |-> "PENDING", revision |-> 0, others |-> 0]

\* The plan, its steps and its required verifications in one commit.
create_plan_with_steps(p, t) ==
  /\ task[t].status \in DOMAIN TASK_TRANSITIONS
  /\ plan[p].status = "ABSENT"
  /\ plan' = [plan EXCEPT ![p] = [status |-> "DRAFT", task |-> t]]
  /\ step' = [s \in Steps |-> IF s \in ToSet(Listed[p]) THEN NewStep ELSE step[s]]
  /\ result' = [v \in Vers |-> IF VerStep[v] \in ToSet(Listed[p]) THEN "PENDING"
                                                                  ELSE result[v]]

\* The run turns to the new plan before it is active.
propose_plan(p, t) ==
  /\ Proposing("plan")
  /\ create_plan_with_steps(p, t)
  /\ run' = [run EXCEPT !.plan = p, !.idx = 1, !.pc = "activate_plan",
                        !.order = dependency_order(Graph[p], Listed[p])]
  /\ UNCHANGED <<task, action, approval>>

\* The loop reads the task's revision and then calls activate_plan; the call may
\* find that the task has changed since.  It also accepts a pointer at a dead plan,
\* which no operation of this module leaves behind.
activate_plan ==
  LET t == run.task IN
  /\ run.pc = "activate_plan"
  /\ \/ /\ task[t].status \in {"ACTIVE", "BLOCKED"}
        /\ task[t].plan = NoPlan
        /\ plan[run.plan] = [status |-> "DRAFT", task |-> t]
        /\ task' = [task EXCEPT ![t].plan = run.plan]
        /\ run' = [run EXCEPT !.stage = "action", !.pc = "dispatch", !.calls = @ - 1]
     \/ Rejected /\ UNCHANGED task
  /\ UNCHANGED <<session, plan, step, action, approval, result, late>>

\* create_action for the step the loop is at; a second one takes the first one's
\* place in the run and leaves its row PENDING.
propose_action(a) ==
  /\ Proposing("action")
  /\ action[a].status = "ABSENT"
  /\ step[Current].status \notin {"CANCELLED", "SKIPPED", "COMPLETED"}
  /\ action' = [action EXCEPT ![a] = [status |-> "PENDING", step |-> Current]]
  /\ run' = [run EXCEPT !.actions[Current] = a, !.pc = "dispatch", !.calls = @ - 1]
  /\ UNCHANGED <<task, plan, step, approval, result>>

\* All calls are answered: execute the step's action, or ask again.
turn_over ==
  /\ run.pc = "dispatch" /\ run.calls = 0
  /\ \/ /\ run.stage = "action" /\ ~run.failed /\ Driven # NoAction
        /\ run' = [run EXCEPT !.pc = "begin", !.asked = FALSE]
     \/ /\ ~run.failed
        /\ run.stage = "action" => Driven = NoAction
        /\ run' = [run EXCEPT !.pc = "turn"]
     \/ /\ run.failed
        /\ run' = [run EXCEPT !.rejections = @ + 1,
                     !.pc = IF run.rejections + 1 > MaxRejections THEN "halted" ELSE "turn"]
  /\ UNCHANGED <<session, rows, late>>

-----------------------------------------------------------------------------
(* Driving one step (_drive_step); any failure halts the run.              *)

Halt == run' = [run EXCEPT !.pc = "halted"]
Goto(pc) == run' = [run EXCEPT !.pc = pc]

SetAction(a, status) == action' = [action EXCEPT ![a].status = status]

\* Mutant: the gate of a capability that requires nothing.
Gate_Open(a) == TRUE

\* make_confirmation_gate.  The row the loop holds, the row in the store and the
\* confirmation it stages have one revision, or begin_executing has already
\* failed on it, so the binding is to the action.
Gate(a) == action[a].step \in NeedsApproval => approval[a] = "confirmed"

\* begin_executing: status, plan, gate, in this order.  A first attempt that the
\* gate stops goes to the human and comes back once.
begin_executing ==
  LET a == Driven
      able == action[a].status = "PENDING" /\ PlanCurrent(action[a].step) IN
  /\ run.pc = "begin"
  /\ \/ able /\ Gate(a) /\ SetAction(a, "EXECUTING") /\ Goto("execute")
     \/ able /\ ~Gate(a) /\ ~run.asked /\ Goto("ask") /\ UNCHANGED action
     \/ /\ able => ~Gate(a) /\ run.asked
        /\ Halt /\ UNCHANGED action
  /\ UNCHANGED <<session, task, plan, step, approval, result, late>>

\* The confirmation policy stages a binding for this action, or refuses.
stage_confirmation ==
  /\ run.pc = "ask"
  /\ \/ approval' = [approval EXCEPT ![Driven] = "staged"] /\ Goto("sign")
     \/ Halt /\ UNCHANGED approval
  /\ UNCHANGED <<session, task, plan, step, action, result, late>>

\* The human confirms the binding, or does not.
confirm ==
  /\ run.pc = "sign"
  /\ \/ /\ approval' = [approval EXCEPT ![Driven] = "confirmed"]
        /\ run' = [run EXCEPT !.pc = "begin", !.asked = TRUE]
     \/ Halt /\ UNCHANGED approval
  /\ UNCHANGED <<session, task, plan, step, action, result, late>>

StepVers == {v \in Vers : VerStep[v] = Current}

Report(outcome) ==
  /\ run.pc = "execute"
  /\ action[Driven].status = "EXECUTING"
  /\ outcome = "OBSERVED" => PlanCurrent(action[Driven].step)
  /\ SetAction(Driven, outcome)
  /\ UNCHANGED <<session, task, plan, step, approval, result, late>>

StartVerifying == run' = [run EXCEPT !.pc = "verify", !.unchecked = StepVers]

report_rejected ==
  /\ run.pc = "execute"
  /\ \/ action[Driven].status # "EXECUTING"
     \/ ~PlanCurrent(action[Driven].step)
  /\ Halt
  /\ UNCHANGED <<session, rows, late>>

\* Mutant: whatever became of the attempt, the step goes on.
execute_GoesOn ==
  \/ /\ \E outcome \in {"OBSERVED", "FAILED"} : Report(outcome)
     /\ StartVerifying
  \/ Report("UNKNOWN_OUTCOME") /\ Halt
  \/ report_rejected

\* Mutant: after a definite failure the model may propose again.
execute_Again ==
  \/ Report("OBSERVED") /\ StartVerifying
  \/ Report("FAILED") /\ Goto("turn")
  \/ Report("UNKNOWN_OUTCOME") /\ Halt
  \/ report_rejected

\* Mutant: a rejected report is sent again.
execute_Insists ==
  \/ Report("OBSERVED") /\ StartVerifying
  \/ \E outcome \in {"FAILED", "UNKNOWN_OUTCOME"} : Report(outcome) /\ Halt

\* The capability returns, proves it had no effect, or raises; the report is
\* rejected when the action was cancelled or, for an observation, when the plan
\* was replaced meanwhile.
execute ==
  \/ Report("OBSERVED") /\ StartVerifying
  \/ \E outcome \in {"FAILED", "UNKNOWN_OUTCOME"} : Report(outcome) /\ Halt
  \/ report_rejected

\* The row is read once; what moves it next remembers its revision.
load_step == run' = [run EXCEPT !.pc = "ready", !.revision = step[Current].revision]

\* The step's own verifications, one after the other.
verify ==
  /\ run.pc = "verify"
  /\ \/ \E v \in run.unchecked, r \in {"PASS", "FAIL", "INCONCLUSIVE"} :
          /\ result' = [result EXCEPT ![v] = r]
          /\ IF r = "PASS" THEN run' = [run EXCEPT !.unchecked = @ \ {v}] ELSE Halt
     \/ run.unchecked = {} /\ load_step /\ UNCHANGED result
  /\ UNCHANGED <<session, task, plan, step, action, approval, late>>

\* transition_object and complete_step accept a move of the table from the revision
\* the caller remembers.
Accepted(target) ==
  /\ step[Current].revision = run.revision
  /\ Contracted(STEP_TRANSITIONS, step[Current].status, target)

WriteStep(s, target) ==
  step' = [step EXCEPT ![s].status = target, ![s].revision = @ + 1]

\* transition_object's answer is used as if it were always Ok.
transition_step(pc, target, next) ==
  /\ run.pc = pc
  /\ \/ /\ Accepted(target)
        /\ WriteStep(Current, target)
        /\ run' = [run EXCEPT !.pc = next, !.revision = @ + 1]
     \/ ~Accepted(target) /\ Goto("raised") /\ UNCHANGED step
  /\ UNCHANGED <<session, task, plan, action, approval, result, late>>

\* Mutant: the step is left as it is.
complete_step_Forgotten ==
  /\ run.pc = "completing"
  /\ run' = [run EXCEPT !.idx = @ + 1,
                        !.pc = IF run.idx = Len(run.order) THEN "complete" ELSE "turn"]
  /\ UNCHANGED <<session, rows, late>>

\* complete_step's answer is not looked at: the run goes on to the next step.
complete_step ==
  /\ run.pc = "completing"
  /\ \/ Accepted("COMPLETED") /\ WriteStep(Current, "COMPLETED")
     \/ ~Accepted("COMPLETED") /\ UNCHANGED step
  /\ run' = [run EXCEPT !.idx = @ + 1,
                        !.pc = IF run.idx = Len(run.order) THEN "complete" ELSE "turn"]
  /\ UNCHANGED <<session, task, plan, action, approval, result, late>>

\* The verifications that were bound to the task with its plans.
Required(t) == {v \in Vers : /\ plan[PlanOf(VerStep[v])].status # "ABSENT"
                             /\ plan[PlanOf(VerStep[v])].task = t}

\* evaluate_completion over the steps of the active plan; of a plan somebody else
\* put there this module knows nothing.
PolicyHolds(t) ==
  \/ task[t].plan = OtherPlan
  \/ /\ task[t].plan \in Plans
     /\ LET children == {s \in ToSet(Listed[task[t].plan]) : step[s].status # "CANCELLED"}
        IN  /\ children # {}
            /\ \A s \in children : step[s].status \in {"COMPLETED", "SKIPPED"}

\* complete_object; a change of the task between the read of its revision and the
\* call makes it fail as well.
complete_task ==
  LET t == run.task IN
  /\ run.pc = "complete"
  /\ \/ /\ task[t].status \in DOMAIN TASK_TRANSITIONS
        /\ PolicyHolds(t)
        /\ \A v \in Required(t) : result[v] = "PASS"
        /\ task' = [task EXCEPT ![t] = [status |-> "COMPLETED", plan |-> NoPlan]]
        /\ Goto("ok")
     \/ Halt /\ UNCHANGED task
  /\ UNCHANGED <<session, plan, step, action, approval, result, late>>

-----------------------------------------------------------------------------
(* Everybody else.                                                         *)

terminate_session ==
  /\ session = "LIVE"
  /\ session' = "TERMINATED"
  /\ UNCHANGED <<rows, run, late>>

cancel_task(t) ==
  /\ Contracted(TASK_TRANSITIONS, task[t].status, "CANCELLED")
  /\ task' = [task EXCEPT ![t] = [status |-> "CANCELLED", plan |-> NoPlan]]
  /\ UNCHANGED <<session, plan, step, action, approval, result, run, late>>

supersede_plan(t) ==
  /\ task[t].status = "ACTIVE"
  /\ task[t].plan \in Plans
  /\ plan' = [plan EXCEPT ![task[t].plan].status = "SUPERSEDED"]
  /\ task' = [task EXCEPT ![t].plan = OtherPlan]
  /\ UNCHANGED <<session, step, action, approval, result, run, late>>

cancel_action(a) ==
  /\ Contracted(ACTION_TRANSITIONS, action[a].status, "CANCELLED")
  /\ SetAction(a, "CANCELLED")
  /\ UNCHANGED <<session, task, plan, step, approval, result, run, late>>

\* transition_object, complete_step or, to whatever status, a human's repair.
write_step(s, status) ==
  /\ step[s].status # "ABSENT" /\ step[s].others < MaxOthers
  /\ step' = [step EXCEPT ![s] = [status |-> status, revision |-> @.revision + 1,
                                  others |-> @.others + 1]]
  /\ UNCHANGED <<session, task, plan, action, approval, result, run, late>>

-----------------------------------------------------------------------------
Init ==
  /\ session = "LIVE"
  /\ task = [t \in Tasks |-> [status |-> "ABSENT", plan |-> NoPlan]]
  /\ plan = [p \in Plans |-> [status |-> "ABSENT", task |-> NoTask]]
  /\ step = [s \in Steps |-> [NewStep EXCEPT !.status = "ABSENT"]]
  /\ action = [a \in Actions |-> [status |-> "ABSENT", step |-> CHOOSE s \in Steps : TRUE]]
  /\ approval = [a \in Actions |-> "none"]
  /\ result = [v \in Vers |-> "ABSENT"]
  /\ run = [pc |-> "turn", stage |-> "goal", op |-> "goal", calls |-> 0,
            failed |-> FALSE, turn |-> 0, reprompts |-> 0, rejections |-> 0,
            task |-> NoTask, plan |-> NoPlan, order |-> <<>>, idx |-> 1,
            actions |-> [s \in Steps |-> NoAction], asked |-> FALSE,
            unchecked |-> {}, revision |-> 0]
  /\ late = 0

Turn ==
  \/ provider_call \/ out_of_turns
  \/ dispatch \/ propose_rejected
  \/ propose_goal
  \/ \E t \in Tasks : propose_task(t)
  \/ activate_task
  \/ \E p \in Plans, t \in Tasks : propose_plan(p, t)
  \/ activate_plan
  \/ \E a \in Actions : propose_action(a)
  \/ turn_over

Drive ==
  \/ begin_executing \/ stage_confirmation \/ confirm
  \/ execute \/ verify
  \/ transition_step("ready", "READY", "executing")
  \/ transition_step("executing", "EXECUTING", "completing")
  \/ complete_step
  \/ complete_task

Others ==
  \/ terminate_session
  \/ \E t \in Tasks : cancel_task(t) \/ supersede_plan(t)
  \/ \E s \in OtherSteps, status \in OtherStatuses : write_step(s, status)
  \/ \E a \in Actions : cancel_action(a)

Next == Turn \/ Drive \/ Others

\* The provider, the human and the capability answer in the end, and the host
\* goes on: there is one thread and nothing in it waits for a condition.
Spec == Init /\ [][Next]_vars /\ WF_vars(Turn \/ Drive)

-----------------------------------------------------------------------------
(* Safety.                                                                 *)

\* What the run itself made of a step: observed, verified, and completed unless
\* somebody else has written its row.
Done(s) ==
  /\ \E a \in Actions : action[a].status = "OBSERVED" /\ action[a].step = s
  /\ \A v \in Vers : VerStep[v] = s => result[v] = "PASS"
  /\ step[s].status = "COMPLETED" \/ step[s].others > 0

\* run_live_slice's loop discipline: a step has no action, not even a proposed one,
\* before every step it waits for was observed, passed its verifications and was
\* completed, in whatever order the model listed and proposed them.  Only somebody
\* else's write of its row can leave a step uncompleted.
NoActionBeforeDependencies ==
  \A a \in Actions : action[a].status # "ABSENT" =>
    \A s \in Graph[PlanOf(action[a].step)][action[a].step] : Done(s)

\* Laws 32 and 33 (_drive_step, make_confirmation_gate): an action that needs a
\* human's confirmation does not start before a human confirmed this action.
NothingRunsUnapproved ==
  \A a \in Actions :
    action[a].status \in {"EXECUTING", "OBSERVED", "FAILED", "UNKNOWN_OUTCOME"}
      => (action[a].step \in NeedsApproval => approval[a] = "confirmed")

\* run_live_slice: the loop never tries a step a second time, whatever the model
\* proposes after a failure or in one turn.
OneAttemptPerStep ==
  \A a, b \in Actions :
    /\ {action[a].status, action[b].status}
         \subseteq {"EXECUTING", "OBSERVED", "FAILED", "UNKNOWN_OUTCOME"}
    /\ action[a].step = action[b].step
    => a = b

\* What ok = True tells the caller (run_live_slice): the task is completed and every
\* step of the plan the run worked on was observed and verified, and completed unless
\* somebody else has written its row.
SuccessIsEarned ==
  run.pc = "ok" =>
    /\ task[run.task].status = "COMPLETED"
    /\ \A i \in 1 .. Len(run.order) : Done(run.order[i])

\* Section 13.3 (_require_context): a session that was terminated gets no proposal
\* accepted but the one whose check it had already passed.
TerminationStopsProposals == late <= 1

\* What run_live_slice says of itself (live_loop.py:683-686): the run leaves a step only
\* when it is COMPLETED.  Others can make the code break it.
LeavesOnlyCompleted ==
  [][run'.idx = run.idx + 1 => step'[Current].status = "COMPLETED"]_vars

(* Liveness.                                                               *)

\* run_live_slice returns, or raises, whatever the model says and whatever others
\* do to its rows.
RunEnds == <>(run.pc \in Ended)
=============================================================================
