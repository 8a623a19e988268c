--------------------------- MODULE LiveLoop_proofs ---------------------------
(***************************************************************************)
(* The live loop for every set of plans, graphs, listings, verifications   *)
(* and bounds: what it does to a task whatever the model behind it says    *)
(* and whatever other sessions do to its rows meanwhile.                   *)
(***************************************************************************)
EXTENDS LiveLoop, Order_proofs

Attempted == {"EXECUTING", "OBSERVED", "FAILED", "UNKNOWN_OUTCOME"}
Moving    == {"ready", "executing", "completing"}
Running   == {"execute", "verify", "ready", "executing", "completing"}
Driving   == {"begin", "ask", "sign", "execute", "verify", "ready", "executing",
              "completing"}
Proposal  == {"turn", "dispatch", "propose", "activate_task", "activate_plan"}

RowsType ==
  /\ session \in {"LIVE", "TERMINATED"}
  /\ task \in [Tasks -> [status : TaskStatus \cup {"ABSENT"},
                         plan : Plans \cup {NoPlan, OtherPlan}]]
  /\ step \in [Steps -> [status : StepStatus \cup {"ABSENT"}, revision : Nat, others : Nat]]
  /\ action \in [Actions -> [status : ActionStatus \cup {"ABSENT"}, step : Steps]]
  /\ approval \in [Actions -> {"none", "staged", "confirmed"}]
  /\ result \in [Vers -> {"ABSENT", "PENDING", "PASS", "FAIL", "INCONCLUSIVE"}]

RunType ==
  /\ DOMAIN run = {"pc", "stage", "op", "calls", "failed", "turn", "reprompts",
                   "rejections", "task", "plan", "order", "idx", "actions", "asked",
                   "unchecked", "revision"}
  /\ run.pc \in Proposal \cup Driving \cup {"complete"} \cup Ended
  /\ run.task \in Tasks \cup {NoTask} /\ run.plan \in Plans \cup {NoPlan}
  /\ run.order \in Seq(Steps) /\ run.idx \in Nat \ {0}
  /\ run.actions \in [Steps -> Actions \cup {NoAction}]
  /\ run.unchecked \subseteq Vers

TypeInv == RowsType /\ RunType

\* What the run has come to, turn by turn.
StageInv ==
  /\ <<run.op, run.stage>> \in {<<"goal", "goal">>, <<"goal", "task">>,
        <<"task", "task">>, <<"task", "plan">>, <<"plan", "plan">>,
        <<"plan", "action">>, <<"action", "action">>}
  /\ run.pc = "activate_task" => run.op = "task"
  /\ run.pc = "activate_plan" => run.op = "plan"
  /\ run.pc \in Driving \cup {"complete", "ok"} => run.op = "action"
  /\ run.stage \in {"plan", "action"} \/ run.pc = "activate_task" => run.task \in Tasks

\* The plan of the run and where in it the run is.
OrderInv ==
  run.stage = "action" \/ run.pc = "activate_plan" =>
    /\ run.plan \in Plans
    /\ run.order = dependency_order(Graph[run.plan], Listed[run.plan])
    /\ run.pc \in Proposal \cup Driving => run.idx <= Len(run.order)
    /\ run.pc \in {"complete", "ok"} => run.idx = Len(run.order) + 1

\* The actions are those of the steps the run has come to, those tried before
\* are of the steps it has left.
ActionsInv ==
  /\ run.op # "action" =>
       /\ \A s \in Steps : run.actions[s] = NoAction
       /\ \A a \in Actions : action[a].status = "ABSENT"
  /\ \A s \in Steps : run.actions[s] # NoAction =>
       /\ action[run.actions[s]].step = s
       /\ action[run.actions[s]].status # "ABSENT"
  /\ run.pc \in Driving => Driven # NoAction
  /\ \A a \in Actions : action[a].status # "ABSENT" =>
       \E j \in 1 .. Len(run.order) : j <= run.idx /\ action[a].step = run.order[j]
  /\ run.pc \notin Ended => \A a \in Actions : action[a].status \in Attempted =>
       \/ \E j \in 1 .. Len(run.order) : j < run.idx /\ action[a].step = run.order[j]
       \/ run.pc \in Running /\ a = Driven

\* The steps the run has left.
Left == {s \in Steps : \E j \in 1 .. Len(run.order) : j < run.idx /\ s = run.order[j]}

\* The steps the run has left are done, the one it is at as far as it has come.  Its
\* row is as the run left it at its revision, unless somebody else has written it.
DoneInv ==
  /\ \A s \in Left : Done(s)
  /\ run.pc \in {"verify"} \cup Moving => action[Driven].status = "OBSERVED"
  /\ run.pc = "verify" =>
       /\ run.unchecked \subseteq StepVers
       /\ \A v \in StepVers \ run.unchecked : result[v] = "PASS"
  /\ run.pc \in Moving => \A v \in StepVers : result[v] = "PASS"
  /\ run.pc = "completing" =>
       \/ step[Current].others > 0
       \/ step[Current].status = "EXECUTING" /\ step[Current].revision = run.revision

LateInv ==
  \/ late = 0
  \/ late = 1 /\ session = "TERMINATED" /\ run.pc # "propose"

OkInv == run.pc = "ok" => task[run.task].status = "COMPLETED"

LoopInv == /\ TypeInv /\ StageInv /\ OrderInv /\ ActionsInv /\ DoneInv /\ OkInv
           /\ NothingRunsUnapproved /\ OneAttemptPerStep

-----------------------------------------------------------------------------
(* The plan of the run.                                                    *)

\* What the walk gives the run for a plan that create_plan_with_steps accepted.
LEMMA PlanWalk ==
  ASSUME NEW p \in Plans
  PROVE  LET order == dependency_order(Graph[p], Listed[p]) IN
         /\ order \in Seq(Steps)
         /\ Len(order) \in Nat \ {0}
         /\ IsInjective(order)
         /\ Topological(Graph[p], order)
         /\ ToSet(order) = ToSet(Listed[p])
<1> DEFINE listed == Listed[p]
           T == ToSet(listed)
           g == Graph[p]
           order == dependency_order(g, listed)
<1>1. listed \in Seq(Steps) /\ listed # <<>> /\ g \in [T -> SUBSET T]
  BY LoopConstants
<1>2. \A C \in (SUBSET T) \ {{}} : \E s \in C : g[s] \cap C = {}
  BY LoopConstants
<1> HIDE DEF listed, g
<1>3. T \subseteq Steps /\ T # {}
  <2>1. Len(listed) \in Nat /\ Len(listed) # 0 /\ DOMAIN listed = 1 .. Len(listed)
    BY <1>1
  <2>2. 1 \in DOMAIN listed /\ \A i \in DOMAIN listed : listed[i] \in Steps
    BY <1>1, <2>1
  <2> QED
    BY <2>2 DEF ToSet
<1>4. \A s \in T : Deps(g, s) = g[s] /\ Deps(g, s) \subseteq T
  BY <1>1 DEF Deps
<1>5. /\ order \in Seq(T) /\ IsInjective(order) /\ Topological(g, order)
      /\ /\ \A s \in T : Deps(g, s) \subseteq T
         /\ \A C \in (SUBSET T) \ {{}} : \E s \in C : Deps(g, s) \cap C = {}
         => ToSet(order) = T
  BY <1>1, WalkIsTopological
<1> HIDE DEF T, order
<1>6. \A C \in (SUBSET T) \ {{}} : \E s \in C : Deps(g, s) \cap C = {}
  BY <1>2, <1>4
<1>7. ToSet(order) = T
  BY <1>4, <1>5, <1>6
<1>8. order \in Seq(Steps) /\ Len(order) \in Nat /\ Len(order) # 0
  BY <1>3, <1>5, <1>7 DEF ToSet
<1> QED
  BY <1>5, <1>7, <1>8 DEF order, T, listed, g

Shape == TypeInv /\ StageInv /\ OrderInv /\ ActionsInv

\* Where the run is, while it works on the steps of its plan.
LEMMA AtAStep ==
  ASSUME Shape, run.pc \in Driving \/ (run.pc \in Proposal /\ run.stage = "action")
  PROVE  /\ run.plan \in Plans /\ run.stage = "action"
         /\ run.idx \in 1 .. Len(run.order)
         /\ Current \in Steps
         /\ Driven \in Actions \cup {NoAction}
         /\ run.pc \in Driving => Driven \in Actions /\ action[Driven].step = Current
<1>1. run.stage = "action"
  BY DEF Shape, StageInv, Driving
<1>2. run.plan \in Plans /\ run.idx <= Len(run.order)
  BY <1>1 DEF Shape, OrderInv
<1>3. /\ run.order \in Seq(Steps) /\ run.idx \in Nat \ {0}
      /\ run.actions \in [Steps -> Actions \cup {NoAction}]
  BY DEF Shape, TypeInv, RunType
<1>4. run.idx \in 1 .. Len(run.order)
  BY <1>2, <1>3
<1>5. Current \in Steps
  BY <1>3, <1>4 DEF Current
<1>6. Driven \in Actions \cup {NoAction}
  BY <1>3, <1>5 DEF Driven
<1>7. run.pc \in Driving => Driven \in Actions /\ action[Driven].step = Current
  BY <1>5, <1>6 DEF Shape, ActionsInv, Driven
<1> QED
  BY <1>1, <1>2, <1>4, <1>5, <1>6, <1>7

\* The three transactions that move the step.
MovesStep ==
  \/ transition_step("ready", "READY", "executing")
  \/ transition_step("executing", "EXECUTING", "completing")
  \/ complete_step

\* What they do to the run: it raises, goes on to the next transaction, or leaves the step.
LEMMA MoveKinds ==
  ASSUME RunType, MovesStep
  PROVE  /\ run.pc \in Moving
         /\ UNCHANGED <<session, task, plan, action, approval, result, late>>
         /\ DOMAIN run' = DOMAIN run
         /\ run'.op = run.op /\ run'.stage = run.stage /\ run'.task = run.task
         /\ run'.plan = run.plan /\ run'.order = run.order /\ run'.actions = run.actions
         /\ run'.unchecked = run.unchecked
         /\ \/ run'.idx = run.idx /\ run'.pc \in {"executing", "completing", "raised"}
            \/ /\ run.pc = "completing" /\ complete_step
               /\ run'.idx = run.idx + 1
               /\ run'.pc = IF run.idx = Len(run.order) THEN "complete" ELSE "turn"
<1>1. ASSUME NEW pc \in Moving, NEW target, NEW next \in {"executing", "completing"},
             transition_step(pc, target, next)
      PROVE  /\ run.pc \in Moving
             /\ UNCHANGED <<session, task, plan, action, approval, result, late>>
             /\ \/ run' = [run EXCEPT !.pc = next, !.revision = @ + 1]
                \/ run' = [run EXCEPT !.pc = "raised"]
  BY <1>1 DEF transition_step, Goto
<1>2. CASE complete_step
  BY <1>2 DEF complete_step, RunType, Moving
<1>3. CASE ~complete_step
  <2>1. PICK pc \in Moving, target \in {"READY", "EXECUTING"},
             next \in {"executing", "completing"} : transition_step(pc, target, next)
    BY <1>3 DEF MovesStep, Moving
  <2>2. CASE run' = [run EXCEPT !.pc = next, !.revision = @ + 1]
    <3>1. run'.pc = next /\ run'.idx = run.idx
      BY <2>2 DEF RunType
    <3> QED
      BY <1>1, <2>1, <2>2, <3>1 DEF RunType
  <2>3. CASE run' = [run EXCEPT !.pc = "raised"]
    BY <1>1, <2>1, <2>3 DEF RunType
  <2> QED
    BY <1>1, <2>1, <2>2, <2>3
<1> QED
  BY <1>2, <1>3

-----------------------------------------------------------------------------
(* Each conjunct, step by step.                                            *)

\* The run's variables keep their types.
LEMMA RunTypeStep ==
  ASSUME Shape, [Next]_vars
  PROVE  RunType'
<1> USE DEF Proposal, Driving, Ended
<1>0. RunType
  BY DEF Shape, TypeInv
<1>1. CASE provider_call \/ out_of_turns \/ dispatch \/ propose_rejected \/ propose_goal
           \/ turn_over
  <2>1. CASE provider_call
    <3>1. Reprompt \/ MalformedTurn \/ Calls
      BY <2>1 DEF provider_call
    <3> QED
      BY <1>0, <3>1 DEF RunType, Reprompt, MalformedTurn, Calls
  <2>2. CASE out_of_turns \/ dispatch \/ propose_rejected
    BY <1>0, <2>2 DEF RunType, out_of_turns, dispatch, propose_rejected, Rejected
  <2>3. CASE propose_goal
    BY <1>0, <2>3 DEF RunType, propose_goal
  <2>4. CASE turn_over
    BY <1>0, <2>4 DEF RunType, turn_over
  <2> QED
    BY <1>1, <2>1, <2>2, <2>3, <2>4
<1>2. CASE \E t \in Tasks : propose_task(t)
  BY <1>0, <1>2 DEF RunType, propose_task, Proposing, rows
<1>3. CASE activate_task
  BY <1>0, <1>3 DEF RunType, activate_task, Contracted, rows
<1>4. CASE \E p \in Plans, t \in Tasks : propose_plan(p, t)
  BY <1>0, <1>4, PlanWalk DEF RunType, propose_plan, create_plan_with_steps, Proposing, rows
<1>5. CASE activate_plan
  <2>1. \/ run' = [run EXCEPT !.stage = "action", !.pc = "dispatch", !.calls = @ - 1]
        \/ Rejected
    BY <1>5 DEF activate_plan
  <2>2. CASE Rejected
    BY <1>0, <2>2 DEF RunType, Rejected
  <2>3. CASE ~Rejected
    BY <1>0, <2>1, <2>3 DEF RunType
  <2> QED
    BY <2>2, <2>3
<1>6. CASE \E a \in Actions : propose_action(a)
  <2>1. PICK a \in Actions :
          run' = [run EXCEPT !.actions[Current] = a, !.pc = "dispatch", !.calls = @ - 1]
    BY <1>6 DEF propose_action
  <2>2. Current \in Steps
    <3>1. run.pc \in Proposal /\ run.stage = "action"
      BY <1>6 DEF propose_action, Proposing, Shape, StageInv
    <3> QED
      BY <3>1, AtAStep
  <2>3. [run.actions EXCEPT ![Current] = a] \in [Steps -> Actions \cup {NoAction}]
    BY <1>0, <2>2 DEF RunType
  <2> QED
    BY <1>0, <2>1, <2>3 DEF RunType
<1>7. CASE begin_executing
  BY <1>0, <1>7 DEF RunType, begin_executing, SetAction, Halt, Goto, rows
<1>8. CASE stage_confirmation \/ confirm
  <2>1. \/ Goto("sign") \/ Halt
        \/ run' = [run EXCEPT !.pc = "begin", !.asked = TRUE]
    BY <1>8 DEF stage_confirmation, confirm
  <2>2. CASE Goto("sign") \/ Halt
    BY <1>0, <2>2 DEF RunType, Halt, Goto
  <2>3. CASE run' = [run EXCEPT !.pc = "begin", !.asked = TRUE]
    BY <1>0, <2>3 DEF RunType
  <2> QED
    BY <2>1, <2>2, <2>3
<1>9. CASE execute
  <2>1. StartVerifying \/ Halt
    BY <1>9 DEF execute, report_rejected
  <2>2. CASE StartVerifying
    BY <1>0, <2>2 DEF RunType, StartVerifying, StepVers
  <2>3. CASE Halt
    BY <1>0, <2>3 DEF RunType, Halt
  <2> QED
    BY <2>1, <2>2, <2>3
<1>10. CASE verify
  <2>1. /\ run.pc = "verify"
        /\ \/ load_step \/ Halt
           \/ \E v : run' = [run EXCEPT !.unchecked = @ \ {v}]
    BY <1>10 DEF verify
  <2>2. CASE load_step
    BY <1>0, <2>2 DEF RunType, load_step
  <2>3. CASE ~load_step
    BY <1>0, <2>1, <2>3 DEF RunType, Halt
  <2> QED
    BY <2>2, <2>3
<1>11. CASE MovesStep
  BY <1>0, <1>11, MoveKinds DEF RunType, Moving
<1>12. CASE complete_task
  BY <1>0, <1>12 DEF RunType, complete_task, Halt, Goto, rows
<1>13. CASE Others
  BY <1>0, <1>13 DEF RunType, Others, terminate_session, cancel_task, supersede_plan,
     cancel_action, write_step, SetAction, Contracted, rows
<1>14. CASE UNCHANGED vars
  BY <1>0, <1>14 DEF RunType, vars, rows
<1> QED
  BY <1>1, <1>2, <1>3, <1>4, <1>5, <1>6, <1>7, <1>8, <1>9, <1>10, <1>11, <1>12, <1>13,
     <1>14 DEF Next, Turn, Drive, MovesStep

\* So do the rows.
LEMMA RowsTypeStep ==
  ASSUME Shape, [Next]_vars
  PROVE  RowsType'
<1>0. RowsType
  BY DEF Shape, TypeInv
<1>1. CASE provider_call \/ out_of_turns \/ dispatch \/ propose_rejected \/ propose_goal
           \/ turn_over
  <2>1. UNCHANGED <<session, task, step, action, approval, result>>
    BY <1>1 DEF provider_call, out_of_turns,
       dispatch, propose_rejected, propose_goal, Proposing, turn_over, rows
  <2> QED
    BY <1>0, <2>1 DEF RowsType
<1>2. CASE \E t \in Tasks : propose_task(t)
  BY <1>0, <1>2 DEF RowsType, propose_task, Proposing, rows, TaskStatus, TASK_TRANSITIONS
<1>3. CASE activate_task
  BY <1>0, <1>3 DEF RowsType, activate_task, Contracted, rows, TaskStatus, TASK_TRANSITIONS
<1>4. CASE \E p \in Plans, t \in Tasks : propose_plan(p, t)
  BY <1>0, <1>4 DEF RowsType, propose_plan, create_plan_with_steps, Proposing, rows,
     NewStep, StepStatus, STEP_TRANSITIONS
<1>5. CASE activate_plan
  <2>1. UNCHANGED <<session, step, action, approval, result>>
    BY <1>5 DEF activate_plan
  <2>2. UNCHANGED task \/ task' = [task EXCEPT ![run.task].plan = run.plan]
    BY <1>5 DEF activate_plan
  <2>3. run.plan \in Plans \cup {NoPlan}
    BY DEF Shape, TypeInv, RunType
  <2> QED
    BY <1>0, <2>1, <2>2, <2>3 DEF RowsType
<1>6. CASE \E a \in Actions : propose_action(a)
  BY <1>0, <1>6, AtAStep DEF RowsType, propose_action, Proposing, Proposal, rows,
     ActionStatus, ACTION_TRANSITIONS, Shape, StageInv
<1>7. CASE begin_executing
  BY <1>0, <1>7 DEF RowsType, begin_executing, SetAction, rows,
     ActionStatus, ACTION_TRANSITIONS
<1>8. CASE stage_confirmation \/ confirm
  <2>1. UNCHANGED <<session, task, step, action, result>>
    BY <1>8 DEF stage_confirmation, confirm
  <2>2. \/ UNCHANGED approval
        \/ \E x \in {"staged", "confirmed"} : approval' = [approval EXCEPT ![Driven] = x]
    BY <1>8 DEF stage_confirmation, confirm
  <2>3. approval' \in [Actions -> {"none", "staged", "confirmed"}]
    BY <1>0, <2>2 DEF RowsType
  <2> QED
    BY <1>0, <2>1, <2>3 DEF RowsType
<1>9. CASE execute
  <2>1. UNCHANGED <<session, task, step, approval, result>>
    BY <1>9 DEF execute, Report, report_rejected, rows
  <2>2. \/ UNCHANGED action
        \/ \E x \in ACTION_TERMINAL : action' = [action EXCEPT ![Driven].status = x]
    BY <1>9 DEF execute, Report, report_rejected, SetAction, rows, ACTION_TERMINAL
  <2>3. action' \in [Actions -> [status : ActionStatus \cup {"ABSENT"}, step : Steps]]
    BY <1>0, <2>2 DEF RowsType, ActionStatus
  <2> QED
    BY <1>0, <2>1, <2>3 DEF RowsType
<1>10. CASE verify
  <2>1. UNCHANGED <<session, task, step, action, approval>>
    BY <1>10 DEF verify
  <2>2. \/ UNCHANGED result
        \/ \E v \in run.unchecked, x \in {"PASS", "FAIL", "INCONCLUSIVE"} :
             result' = [result EXCEPT ![v] = x]
    BY <1>10 DEF verify
  <2>3. result' \in [Vers -> {"ABSENT", "PENDING", "PASS", "FAIL", "INCONCLUSIVE"}]
    BY <1>0, <2>2 DEF RowsType
  <2> QED
    BY <1>0, <2>1, <2>3 DEF RowsType
<1>11. CASE MovesStep
  <2>1. UNCHANGED <<session, task, action, approval, result>>
    BY <1>0, <1>11, MoveKinds DEF Shape, TypeInv
  <2>2. \/ UNCHANGED step
        \/ \E x \in {"READY", "EXECUTING", "COMPLETED"} : WriteStep(Current, x)
    BY <1>11 DEF MovesStep, transition_step, complete_step
  <2>3. {"READY", "EXECUTING", "COMPLETED"} \subseteq StepStatus
    BY DEF StepStatus, STEP_TRANSITIONS, STEP_TERMINAL
  <2>4. step' \in [Steps -> [status : StepStatus \cup {"ABSENT"}, revision : Nat, others : Nat]]
    BY <1>0, <2>2, <2>3 DEF RowsType, WriteStep
  <2> QED
    BY <1>0, <2>1, <2>4 DEF RowsType
<1>12. CASE complete_task
  <2>1. UNCHANGED <<session, step, action, approval, result>>
    BY <1>12 DEF complete_task
  <2>2. \/ UNCHANGED task
        \/ task' = [task EXCEPT ![run.task] = [status |-> "COMPLETED", plan |-> NoPlan]]
    BY <1>12 DEF complete_task
  <2>3. task' \in [Tasks -> [status : TaskStatus \cup {"ABSENT"},
                           plan : Plans \cup {NoPlan, OtherPlan}]]
    BY <1>0, <2>2 DEF RowsType, TaskStatus, TASK_TERMINAL
  <2> QED
    BY <1>0, <2>1, <2>3 DEF RowsType
<1>13. CASE Others
  <2>1. CASE terminate_session
    BY <1>0, <2>1 DEF RowsType, terminate_session, rows
  <2>2. ASSUME NEW t \in Tasks, cancel_task(t) \/ supersede_plan(t)
        PROVE  RowsType'
    <3>1. UNCHANGED <<session, step, action, approval, result>>
      BY <2>2 DEF cancel_task, supersede_plan
    <3>2. \/ task' = [task EXCEPT ![t] = [status |-> "CANCELLED", plan |-> NoPlan]]
          \/ task' = [task EXCEPT ![t].plan = OtherPlan]
      BY <2>2 DEF cancel_task, supersede_plan
    <3>3. task' \in [Tasks -> [status : TaskStatus \cup {"ABSENT"},
                             plan : Plans \cup {NoPlan, OtherPlan}]]
      BY <1>0, <3>2 DEF RowsType, TaskStatus, TASK_TERMINAL
    <3> QED
      BY <1>0, <3>1, <3>3 DEF RowsType
  <2>3. ASSUME NEW a \in Actions, cancel_action(a)
        PROVE  RowsType'
    BY <1>0, <2>3 DEF RowsType, cancel_action, SetAction, ActionStatus, ACTION_TERMINAL
  <2>4. ASSUME NEW s \in OtherSteps, NEW status \in OtherStatuses, write_step(s, status)
        PROVE  RowsType'
    <3>1. UNCHANGED <<session, task, action, approval, result>> /\ status \in StepStatus
      BY <2>4, LoopConstants DEF write_step
    <3>2. step' = [step EXCEPT ![s] = [status |-> status, revision |-> @.revision + 1,
                                       others |-> @.others + 1]]
      BY <2>4 DEF write_step
    <3>3. s \in Steps /\ step[s].revision + 1 \in Nat /\ step[s].others + 1 \in Nat
      BY <1>0, LoopConstants DEF RowsType
    <3>4. step' \in [Steps -> [status : StepStatus \cup {"ABSENT"}, revision : Nat, others : Nat]]
      BY <1>0, <3>1, <3>2, <3>3 DEF RowsType
    <3> QED
      BY <1>0, <3>1, <3>4 DEF RowsType
  <2> QED
    BY <1>13, <2>1, <2>2, <2>3, <2>4 DEF Others
<1>14. CASE UNCHANGED vars
  BY <1>0, <1>14 DEF RowsType, vars, rows
<1> QED
  BY <1>1, <1>2, <1>3, <1>4, <1>5, <1>6, <1>7, <1>8, <1>9, <1>10, <1>11, <1>12, <1>13,
     <1>14 DEF Next, Turn, Drive, MovesStep

\* The run goes through the stages in order.
LEMMA StageStep ==
  ASSUME Shape, [Next]_vars
  PROVE  StageInv'
<1> USE DEF RunType, StageInv, Proposal, Driving, Ended
<1>0. RunType /\ StageInv
  BY DEF Shape, TypeInv
<1>1. CASE provider_call
  <2>1. run.pc = "turn" /\ (Reprompt \/ MalformedTurn \/ Calls)
    BY <1>1 DEF provider_call
  <2>2. CASE Reprompt
    BY <1>0, <2>1, <2>2 DEF Reprompt
  <2>3. CASE MalformedTurn
    BY <1>0, <2>1, <2>3 DEF MalformedTurn
  <2>4. CASE Calls
    BY <1>0, <2>1, <2>4 DEF Calls
  <2> QED
    BY <2>1, <2>2, <2>3, <2>4
<1>2. CASE out_of_turns \/ dispatch \/ propose_rejected
  BY <1>0, <1>2 DEF out_of_turns, dispatch, propose_rejected, Rejected
<1>3. CASE propose_goal
  BY <1>0, <1>3 DEF propose_goal, Proposing
<1>4. CASE \E t \in Tasks : propose_task(t)
  BY <1>0, <1>4 DEF propose_task, Proposing
<1>5. CASE activate_task
  BY <1>0, <1>5 DEF activate_task
<1>6. CASE \E p \in Plans, t \in Tasks : propose_plan(p, t)
  BY <1>0, <1>6 DEF propose_plan, Proposing
<1>7. CASE activate_plan
  <2>1. CASE Rejected
    BY <1>0, <1>7, <2>1 DEF activate_plan, Rejected
  <2>2. CASE ~Rejected
    BY <1>0, <1>7, <2>2 DEF activate_plan
  <2> QED
    BY <2>1, <2>2
<1>8. CASE \E a \in Actions : propose_action(a)
  BY <1>0, <1>8 DEF propose_action, Proposing
<1>9. CASE turn_over
  <2>1. /\ run.pc = "dispatch"
        /\ \/ run' = [run EXCEPT !.pc = "turn"]
           \/ /\ run.stage = "action" /\ Driven # NoAction
              /\ run' = [run EXCEPT !.pc = "begin", !.asked = FALSE]
           \/ \E x \in {"halted", "turn"} :
                run' = [run EXCEPT !.rejections = @ + 1, !.pc = x]
    BY <1>9 DEF turn_over
  <2>2. CASE /\ run.stage = "action" /\ Driven # NoAction
             /\ run' = [run EXCEPT !.pc = "begin", !.asked = FALSE]
    <3>1. run.stage = "action" /\ Driven # NoAction
      BY <2>2
    <3>2. Current \in Steps
      BY <2>1, <3>1, AtAStep
    <3>3. run.op = "action"
      BY <3>1, <3>2 DEF Shape, ActionsInv, Driven
    <3> QED
      BY <1>0, <2>1, <2>2, <3>3
  <2>3. CASE ~(/\ run.stage = "action" /\ Driven # NoAction
               /\ run' = [run EXCEPT !.pc = "begin", !.asked = FALSE])
    BY <1>0, <2>1, <2>3
  <2> QED
    BY <2>2, <2>3
<1>10. CASE begin_executing \/ stage_confirmation \/ confirm
  <2>1. CASE begin_executing
    BY <1>0, <2>1 DEF begin_executing, Halt, Goto
  <2>2. CASE stage_confirmation
    BY <1>0, <2>2 DEF stage_confirmation, Halt, Goto
  <2>3. CASE confirm
    BY <1>0, <2>3 DEF confirm, Halt
  <2> QED
    BY <1>10, <2>1, <2>2, <2>3
<1>11. CASE execute
  <2>1. run.pc = "execute" /\ (StartVerifying \/ Halt)
    BY <1>11 DEF execute, Report, report_rejected
  <2> QED
    BY <1>0, <2>1 DEF StartVerifying, Halt
<1>12. CASE verify
  <2>1. /\ run.pc = "verify"
        /\ \/ load_step \/ Halt
           \/ \E v : run' = [run EXCEPT !.unchecked = @ \ {v}]
    BY <1>12 DEF verify
  <2> QED
    BY <1>0, <2>1 DEF load_step, Halt, Moving
<1>13. CASE MovesStep
  BY <1>0, <1>13, MoveKinds DEF Moving
<1>14. CASE complete_task
  BY <1>0, <1>14 DEF complete_task, Goto, Halt
<1>15. CASE Others \/ UNCHANGED vars
  <2>1. run' = run
    BY <1>15 DEF Others, terminate_session, cancel_task, supersede_plan, cancel_action,
       write_step, vars
  <2> QED
    BY <1>0, <2>1
<1> QED
  BY <1>1, <1>2, <1>3, <1>4, <1>5, <1>6, <1>7, <1>8, <1>9, <1>10, <1>11, <1>12, <1>13,
     <1>14, <1>15 DEF Next, Turn, Drive, MovesStep

\* The run holds its plan's order and does not leave it.
LEMMA OrderStep ==
  ASSUME Shape, [Next]_vars
  PROVE  OrderInv'
<1> USE DEF RunType, OrderInv, StageInv, Proposal, Driving, Ended
<1>0. RunType /\ StageInv /\ OrderInv
  BY DEF Shape, TypeInv
<1>1. CASE provider_call
  <2>1. run.pc = "turn" /\ (Reprompt \/ MalformedTurn \/ Calls)
    BY <1>1 DEF provider_call
  <2>2. CASE Reprompt
    BY <1>0, <2>1, <2>2 DEF Reprompt
  <2>3. CASE MalformedTurn
    BY <1>0, <2>1, <2>3 DEF MalformedTurn
  <2>4. CASE Calls
    BY <1>0, <2>1, <2>4 DEF Calls
  <2> QED
    BY <2>1, <2>2, <2>3, <2>4
<1>2. CASE out_of_turns \/ dispatch \/ propose_rejected
  BY <1>0, <1>2 DEF out_of_turns, dispatch, propose_rejected, Rejected
<1>3. CASE propose_goal
  BY <1>0, <1>3 DEF propose_goal, Proposing
<1>4. CASE \E t \in Tasks : propose_task(t)
  BY <1>0, <1>4 DEF propose_task, Proposing
<1>5. CASE activate_task
  BY <1>0, <1>5 DEF activate_task
<1>6. CASE \E p \in Plans, t \in Tasks : propose_plan(p, t)
  BY <1>0, <1>6, PlanWalk DEF propose_plan, Proposing
<1>7. CASE activate_plan
  <2>1. CASE Rejected
    BY <1>0, <1>7, <2>1 DEF activate_plan, Rejected
  <2>2. CASE ~Rejected
    BY <1>0, <1>7, <2>2 DEF activate_plan
  <2> QED
    BY <2>1, <2>2
<1>8. CASE \E a \in Actions : propose_action(a)
  BY <1>0, <1>8 DEF propose_action, Proposing
<1>9. CASE turn_over
  BY <1>0, <1>9 DEF turn_over
<1>10. CASE begin_executing \/ stage_confirmation \/ confirm
  <2>1. CASE begin_executing
    BY <1>0, <2>1 DEF begin_executing, Halt, Goto
  <2>2. CASE stage_confirmation
    BY <1>0, <2>2 DEF stage_confirmation, Halt, Goto
  <2>3. CASE confirm
    BY <1>0, <2>3 DEF confirm, Halt
  <2> QED
    BY <1>10, <2>1, <2>2, <2>3
<1>11. CASE execute
  <2>1. run.pc = "execute" /\ (StartVerifying \/ Halt)
    BY <1>11 DEF execute, Report, report_rejected
  <2> QED
    BY <1>0, <2>1 DEF StartVerifying, Halt
<1>12. CASE verify
  <2>1. /\ run.pc = "verify"
        /\ \/ load_step \/ Halt
           \/ \E v : run' = [run EXCEPT !.unchecked = @ \ {v}]
    BY <1>12 DEF verify
  <2> QED
    BY <1>0, <2>1 DEF load_step, Halt, Moving
<1>13. CASE MovesStep
  BY <1>0, <1>13, MoveKinds DEF Moving
<1>14. CASE complete_task
  BY <1>0, <1>14 DEF complete_task, Goto, Halt
<1>15. CASE Others \/ UNCHANGED vars
  <2>1. run' = run
    BY <1>15 DEF Others, terminate_session, cancel_task, supersede_plan, cancel_action,
       write_step, vars
  <2> QED
    BY <1>0, <2>1
<1> QED
  BY <1>1, <1>2, <1>3, <1>4, <1>5, <1>6, <1>7, <1>8, <1>9, <1>10, <1>11, <1>12, <1>13,
     <1>14, <1>15 DEF Next, Turn, Drive, MovesStep

-----------------------------------------------------------------------------
(* What a step can do to the actions and to the run's way through the plan. *)

SamePlace ==
  /\ run'.order = run.order /\ run'.idx = run.idx /\ run'.actions = run.actions

\* The action rows and the run's place stay; the run goes on, or somebody else moves.
Talks ==
  /\ UNCHANGED <<action, step>> /\ SamePlace
  /\ \/ verify
     \/ UNCHANGED result /\ (run'.pc \in {"verify"} \cup Moving => UNCHANGED run)
  /\ \/ run'.pc = run.pc /\ run'.op = run.op
     \/ /\ run.pc \in Proposal /\ run'.pc \in Proposal \cup {"halted", "raised"}
        /\ run'.op \in {run.op, run.stage}
     \/ /\ run'.op = run.op
        /\ \/ run.pc = "dispatch" /\ run'.pc = "begin" /\ Driven # NoAction
           \/ run.pc \in {"begin", "ask", "sign"} /\ run'.pc \in {"begin", "ask", "sign"}
           \/ run.pc = "verify" /\ run'.pc = "ready"
           \/ run.pc = "complete" /\ run'.pc = "ok"
           \/ run.pc \in Driving \cup {"complete"} /\ run'.pc = "halted"

\* begin_executing goes through.
Starts ==
  /\ run.pc = "begin" /\ run'.pc = "execute" /\ run'.op = run.op /\ SamePlace
  /\ action[Driven].status = "PENDING" /\ Gate(Driven)
  /\ SetAction(Driven, "EXECUTING")
  /\ UNCHANGED <<step, approval, result>>

\* The attempt ends one way or the other.
Reports ==
  /\ run.pc = "execute" /\ run'.op = run.op /\ SamePlace
  /\ action[Driven].status = "EXECUTING"
  /\ UNCHANGED <<step, approval, result>>
  /\ \E outcome \in {"OBSERVED", "FAILED", "UNKNOWN_OUTCOME"} :
       /\ SetAction(Driven, outcome)
       /\ run'.pc = IF outcome = "OBSERVED" THEN "verify" ELSE "halted"
       /\ outcome = "OBSERVED" => run'.unchecked = StepVers

\* Nothing else happens.
LEMMA Kinds ==
  ASSUME Shape, [Next]_vars
  PROVE  \/ Talks \/ Starts \/ Reports \/ MovesStep
         \/ \E s \in OtherSteps, status \in OtherStatuses : write_step(s, status)
         \/ \E p \in Plans, t \in Tasks : propose_plan(p, t)
         \/ \E a \in Actions : propose_action(a) \/ cancel_action(a)
<1> USE DEF Proposal, Driving, Moving, SamePlace
<1>0. DOMAIN run = {"pc", "stage", "op", "calls", "failed", "turn", "reprompts",
                    "rejections", "task", "plan", "order", "idx", "actions", "asked",
                    "unchecked", "revision"}
  BY DEF Shape, TypeInv, RunType
<1>1. CASE provider_call
  <2>1. /\ run.pc = "turn" /\ (Reprompt \/ MalformedTurn \/ Calls)
        /\ UNCHANGED <<action, step, result>>
    BY <1>1 DEF provider_call, rows
  <2>2. CASE Reprompt
    BY <1>0, <2>1, <2>2 DEF Reprompt, Talks
  <2>3. CASE MalformedTurn
    BY <1>0, <2>1, <2>3 DEF MalformedTurn, Talks
  <2>4. CASE Calls
    BY <1>0, <2>1, <2>4 DEF Calls, Talks
  <2> QED
    BY <2>1, <2>2, <2>3, <2>4
<1>2. CASE out_of_turns \/ dispatch \/ propose_rejected
  BY <1>0, <1>2 DEF out_of_turns, dispatch, propose_rejected, Rejected, Talks, rows
<1>3. CASE propose_goal
  BY <1>0, <1>3 DEF propose_goal, Proposing, Talks, rows
<1>4. CASE \E t \in Tasks : propose_task(t)
  BY <1>0, <1>4 DEF propose_task, Proposing, Talks
<1>5. CASE activate_task
  BY <1>0, <1>5 DEF activate_task, Talks
<1>6. CASE activate_plan
  <2>1. CASE Rejected
    BY <1>0, <1>6, <2>1 DEF activate_plan, Rejected, Talks
  <2>2. CASE ~Rejected
    BY <1>0, <1>6, <2>2 DEF activate_plan, Talks
  <2> QED
    BY <2>1, <2>2
<1>7. CASE turn_over
  <2>1. /\ run.pc = "dispatch" /\ UNCHANGED <<action, step, result>>
        /\ \/ run' = [run EXCEPT !.pc = "turn"]
           \/ Driven # NoAction /\ run' = [run EXCEPT !.pc = "begin", !.asked = FALSE]
           \/ \E x \in {"halted", "turn"} :
                run' = [run EXCEPT !.rejections = @ + 1, !.pc = x]
    BY <1>7 DEF turn_over, rows
  <2> QED
    BY <1>0, <2>1 DEF Talks
<1>8. CASE begin_executing
  <2>1. /\ run.pc = "begin"
        /\ UNCHANGED <<step, approval, result>>
        /\ \/ /\ action[Driven].status = "PENDING" /\ Gate(Driven)
              /\ SetAction(Driven, "EXECUTING") /\ Goto("execute")
           \/ UNCHANGED action /\ (Goto("ask") \/ Halt)
    BY <1>8 DEF begin_executing
  <2>2. CASE Goto("execute")
    BY <1>0, <2>1, <2>2 DEF Goto, Halt, Starts
  <2>3. CASE ~Goto("execute")
    BY <1>0, <2>1, <2>3 DEF Goto, Halt, Talks
  <2> QED
    BY <2>2, <2>3
<1>9. CASE stage_confirmation
  BY <1>0, <1>9 DEF stage_confirmation, Goto, Halt, Talks
<1>10. CASE confirm
  BY <1>0, <1>10 DEF confirm, Halt, Talks
<1>11. CASE execute
  <2>1. CASE report_rejected
    BY <1>0, <2>1 DEF report_rejected, Halt, Talks, rows
  <2>2. CASE Report("OBSERVED") /\ StartVerifying
    BY <1>0, <2>2 DEF Report, StartVerifying, Reports
  <2>3. ASSUME NEW outcome \in {"FAILED", "UNKNOWN_OUTCOME"}, Report(outcome), Halt
        PROVE  Reports
    <3>1. run'.pc = "halted" /\ SamePlace /\ run'.op = run.op
      BY <1>0, <2>3 DEF Halt
    <3> QED
      BY <2>3, <3>1 DEF Report, Reports
  <2> QED
    BY <1>11, <2>1, <2>2, <2>3 DEF execute
<1>12. CASE verify
  <2>1. /\ run.pc = "verify" /\ UNCHANGED <<action, step>>
        /\ \/ load_step \/ Halt
           \/ \E v : run' = [run EXCEPT !.unchecked = @ \ {v}]
    BY <1>12 DEF verify
  <2> QED
    BY <1>0, <1>12, <2>1 DEF load_step, Halt, Talks
<1>13. CASE complete_task
  BY <1>0, <1>13 DEF complete_task, Goto, Halt, Talks
<1>14. CASE terminate_session \/ (\E t \in Tasks : cancel_task(t) \/ supersede_plan(t))
            \/ UNCHANGED vars
  BY <1>14 DEF terminate_session, cancel_task, supersede_plan, vars, rows, Talks
<1>15. CASE \E s \in OtherSteps, status \in OtherStatuses : write_step(s, status)
  BY <1>15
<1> QED
  BY <1>1, <1>2, <1>3, <1>4, <1>5, <1>6, <1>7, <1>8, <1>9, <1>10, <1>11, <1>12, <1>13,
     <1>14, <1>15 DEF Next, Turn, Drive, Others, MovesStep

\* SetAction moves one action and nothing of the others.
LEMMA StatusOnly ==
  ASSUME RowsType, NEW a \in Actions, NEW status, SetAction(a, status)
  PROVE  \A b \in Actions :
           /\ action'[b].step = action[b].step
           /\ action'[b].status = IF b = a THEN status ELSE action[b].status
           /\ b # a => action'[b] = action[b]
BY DEF RowsType, SetAction

\* A run that has not moved is at the same step, with the same action.
LEMMA SameStep ==
  ASSUME SamePlace
  PROVE  Current' = Current /\ Driven' = Driven
BY DEF SamePlace, Current, Driven

\* Somebody else's write of a step's row changes that row and nothing else.
LEMMA OthersWrite ==
  ASSUME RowsType, NEW s \in Steps, NEW status, write_step(s, status)
  PROVE  /\ UNCHANGED <<session, task, plan, action, approval, result, run, late>>
         /\ step'[s].others > 0
         /\ \A q \in Steps : q # s => step'[q] = step[q]
BY DEF RowsType, write_step

-----------------------------------------------------------------------------
(* The actions.                                                            *)

\* Actions are proposed for the step the run is at and driven one at a time.
LEMMA ActionsStep ==
  ASSUME Shape, [Next]_vars
  PROVE  ActionsInv'
<1> USE DEF Proposal, Driving, Running, Moving, Ended, Attempted
<1>0. /\ RowsType /\ RunType /\ StageInv /\ ActionsInv
      /\ \A s \in Steps : run.actions[s] # NoAction => run.actions[s] \in Actions
  BY DEF Shape, TypeInv, RunType
<1>1. CASE Talks
  <2>1. Driven' = Driven
    BY <1>1, SameStep DEF Talks
  <2>2. run'.op # "action" => run.op # "action"
    BY <1>0, <1>1 DEF Talks, StageInv
  <2>3. run'.pc \in Driving => Driven # NoAction
    BY <1>0, <1>1 DEF Talks, ActionsInv
  <2>4. /\ run'.pc \notin Ended => run.pc \notin Ended
        /\ run'.pc \notin Ended => (run.pc \in Running <=> run'.pc \in Running)
    BY <1>1 DEF Talks
  <2> QED
    BY <1>0, <1>1, <2>1, <2>2, <2>3, <2>4 DEF Talks, SamePlace, ActionsInv
<1>2. CASE Starts \/ Reports \/ \E a \in Actions : cancel_action(a)
  <2>1. PICK a \in Actions, status \in ActionStatus :
          /\ SetAction(a, status) /\ SamePlace /\ run'.op = run.op
          /\ action[a].status # "ABSENT"
          /\ \/ run'.pc = run.pc /\ status = "CANCELLED"
             \/ /\ a = Driven /\ run.pc \in {"begin", "execute"}
                /\ run'.pc \in {"execute", "verify", "halted"}
    <3>1. CASE Starts
      <4>1. Driven \in Actions
        BY <3>1, AtAStep DEF Starts
      <4> QED
        BY <3>1, <4>1 DEF Starts, ActionStatus, ACTION_TRANSITIONS
    <3>2. CASE Reports
      <4>1. Driven \in Actions
        BY <3>2, AtAStep DEF Reports
      <4> QED
        BY <3>2, <4>1 DEF Reports, ActionStatus, ACTION_TERMINAL
    <3>3. CASE \E a \in Actions : cancel_action(a)
      BY <3>3 DEF cancel_action, SamePlace, Contracted, ACTION_TRANSITIONS, ActionStatus,
         ACTION_TERMINAL
    <3> QED
      BY <1>2, <3>1, <3>2, <3>3
  <2>2. \A b \in Actions :
          /\ action'[b].step = action[b].step
          /\ action'[b].status = IF b = a THEN status ELSE action[b].status
    BY <1>0, <2>1, StatusOnly
  <2>3. status # "ABSENT"
    BY DEF ActionStatus, ACTION_TRANSITIONS, ACTION_TERMINAL
  <2>4. Driven' = Driven
    BY <2>1, SameStep
  <2>5. run'.pc \notin Ended => \A b \in Actions : action'[b].status \in Attempted =>
          \/ \E j \in 1 .. Len(run.order) : j < run.idx /\ action[b].step = run.order[j]
          \/ run'.pc \in Running /\ b = Driven
    BY <1>0, <2>1, <2>2 DEF ActionsInv
  <2>6. run'.pc \in Driving => Driven # NoAction
    BY <1>0, <2>1 DEF ActionsInv
  <2> QED
    BY <1>0, <2>1, <2>2, <2>3, <2>4, <2>5, <2>6 DEF ActionsInv, SamePlace
<1>3. ASSUME NEW a \in Actions, propose_action(a)
      PROVE  ActionsInv'
  <2>1. /\ run.pc = "propose" /\ run.op = "action"
        /\ action[a].status = "ABSENT"
        /\ action' = [action EXCEPT ![a] = [status |-> "PENDING", step |-> Current]]
        /\ run' = [run EXCEPT !.actions[Current] = a, !.pc = "dispatch", !.calls = @ - 1]
    BY <1>3 DEF propose_action, Proposing
  <2>2. Current \in Steps /\ run.idx \in 1 .. Len(run.order) /\ Current = run.order[run.idx]
    BY <1>0, <2>1, AtAStep DEF StageInv, Current
  <2>3. /\ run'.pc = "dispatch" /\ run'.op = "action"
        /\ run'.order = run.order /\ run'.idx = run.idx
        /\ run'.actions = [run.actions EXCEPT ![Current] = a]
    BY <1>0, <2>1 DEF RunType
  <2>4. \A b \in Actions :
          action'[b] = IF b = a THEN [status |-> "PENDING", step |-> Current] ELSE action[b]
    BY <1>0, <2>1 DEF RowsType
  <2>5. \A s \in Steps : run'.actions[s] # NoAction =>
          /\ action'[run'.actions[s]].step = s
          /\ action'[run'.actions[s]].status # "ABSENT"
    <3>1. SUFFICES ASSUME NEW s \in Steps, run'.actions[s] # NoAction
                   PROVE  /\ action'[run'.actions[s]].step = s
                          /\ action'[run'.actions[s]].status # "ABSENT"
      OBVIOUS
    <3>2. CASE s = Current
      <4>1. run'.actions[s] = a
        BY <1>0, <2>3, <3>2 DEF RunType
      <4> QED
        BY <2>4, <3>2, <4>1
    <3>3. CASE s # Current
      <4>1. run'.actions[s] = run.actions[s]
        BY <1>0, <2>3, <3>3 DEF RunType
      <4>2. run.actions[s] \in Actions /\ run.actions[s] # a
        BY <1>0, <2>1, <3>1, <4>1 DEF ActionsInv
      <4> QED
        BY <1>0, <2>4, <3>1, <4>1, <4>2 DEF ActionsInv
    <3> QED
      BY <3>2, <3>3
  <2>6. \A b \in Actions : action'[b].status # "ABSENT" =>
          \E j \in 1 .. Len(run.order) : j <= run.idx /\ action'[b].step = run.order[j]
    BY <1>0, <2>2, <2>4 DEF ActionsInv
  <2>7. \A b \in Actions : action'[b].status \in Attempted =>
          \E j \in 1 .. Len(run.order) : j < run.idx /\ action'[b].step = run.order[j]
    BY <1>0, <2>1, <2>4 DEF ActionsInv
  <2> QED
    BY <2>3, <2>5, <2>6, <2>7 DEF ActionsInv
<1>4. ASSUME NEW p \in Plans, NEW t \in Tasks, propose_plan(p, t)
      PROVE  ActionsInv'
  <2>1. /\ run.op = "plan" /\ UNCHANGED action
        /\ run'.pc = "activate_plan" /\ run'.op = run.op /\ run'.actions = run.actions
    BY <1>0, <1>4 DEF propose_plan, Proposing, RunType
  <2> QED
    BY <1>0, <2>1 DEF ActionsInv
<1>5. CASE MovesStep
  <2>1. /\ run.pc \in Moving /\ UNCHANGED action
        /\ run'.op = run.op /\ run'.order = run.order /\ run'.actions = run.actions
        /\ \/ run'.pc \in Moving \cup {"raised"} /\ run'.idx = run.idx
           \/ run'.pc \in {"complete", "turn"} /\ run'.idx = run.idx + 1
    BY <1>0, <1>5, MoveKinds
  <2>2. /\ run.idx \in 1 .. Len(run.order) /\ Current = run.order[run.idx]
        /\ action[Driven].step = Current /\ run.op = "action"
    BY <1>0, <2>1, AtAStep DEF Current, StageInv
  <2>3. run'.idx = run.idx => Driven' = Driven
    BY <2>1 DEF Driven, Current
  <2>4. \A a \in Actions : action[a].status \in Attempted =>
          \E j \in 1 .. Len(run.order) :
            /\ action[a].step = run.order[j]
            /\ j < run.idx \/ (j = run.idx /\ a = Driven)
    BY <1>0, <2>1, <2>2 DEF ActionsInv
  <2>5. run.idx \in Nat
    BY <1>0 DEF RunType
  <2> QED
    BY <1>0, <2>1, <2>2, <2>3, <2>4, <2>5 DEF ActionsInv
<1>6. CASE \E s \in OtherSteps, status \in OtherStatuses : write_step(s, status)
  <2>1. UNCHANGED <<action, run>>
    BY <1>6 DEF write_step
  <2>2. Driven' = Driven
    BY <2>1 DEF Driven, Current
  <2> QED
    BY <1>0, <2>1, <2>2 DEF ActionsInv
<1> QED
  BY <1>1, <1>2, <1>3, <1>4, <1>5, <1>6, Kinds

-----------------------------------------------------------------------------
(* One attempt per step, and none that needed a human and had none.        *)

\* The steps of the order are distinct.
LEMMA OrderInjective ==
  ASSUME Shape, run.stage = "action"
  PROVE  \A i, j \in 1 .. Len(run.order) : run.order[i] = run.order[j] => i = j
<1>1. /\ run.plan \in Plans /\ run.order \in Seq(Steps)
      /\ run.order = dependency_order(Graph[run.plan], Listed[run.plan])
  BY DEF Shape, OrderInv, TypeInv, RunType
<1>2. IsInjective(run.order)
  BY <1>1, PlanWalk
<1> QED
  BY <1>1, <1>2 DEF IsInjective

\* Before the current step's action starts nothing was tried for that step.
LEMMA NotYetTried ==
  ASSUME Shape, run.pc \in {"begin", "ask", "sign"},
         NEW a \in Actions, action[a].status \in Attempted
  PROVE  action[a].step # Current
<1>1. PICK j \in 1 .. Len(run.order) : j < run.idx /\ action[a].step = run.order[j]
  BY DEF Shape, ActionsInv, Running, Ended
<1>2. run.idx \in 1 .. Len(run.order) /\ run.stage = "action"
  BY AtAStep DEF Driving
<1> QED
  BY <1>1, <1>2, OrderInjective DEF Current

\* A step is tried only when it has become the current one (begin_executing).
LEMMA OneAttemptStep ==
  ASSUME Shape, [Next]_vars, OneAttemptPerStep
  PROVE  OneAttemptPerStep'
<1> USE DEF Attempted
<1>0. RowsType /\ \A a, b \in Actions :
        {action[a].status, action[b].status} \subseteq Attempted
          /\ action[a].step = action[b].step => a = b
  BY DEF Shape, TypeInv, OneAttemptPerStep
<1>1. CASE \/ Talks \/ MovesStep
           \/ \E s \in OtherSteps, status \in OtherStatuses : write_step(s, status)
           \/ \E p \in Plans, t \in Tasks : propose_plan(p, t)
  <2>1. UNCHANGED action
    BY <1>1, MoveKinds DEF Talks, write_step, propose_plan, Shape, TypeInv
  <2> QED
    BY <2>1 DEF OneAttemptPerStep
<1>2. CASE Starts
  <2>1. /\ Driven \in Actions /\ action[Driven].step = Current
        /\ SetAction(Driven, "EXECUTING") /\ run.pc = "begin"
    BY <1>2, AtAStep DEF Starts, Driving
  <2>2. \A b \in Actions :
          /\ action'[b].step = action[b].step
          /\ action'[b].status = IF b = Driven THEN "EXECUTING" ELSE action[b].status
    BY <1>0, <2>1, StatusOnly
  <2>3. \A b \in Actions : action[b].status \in Attempted => action[b].step # Current
    BY <2>1, NotYetTried
  <2> QED
    BY <1>0, <2>1, <2>2, <2>3 DEF OneAttemptPerStep
<1>3. CASE Reports
  <2>1. PICK outcome : /\ Driven \in Actions /\ action[Driven].status = "EXECUTING"
                       /\ SetAction(Driven, outcome)
    BY <1>3, AtAStep DEF Reports, Driving
  <2>2. \A b \in Actions :
          /\ action'[b].step = action[b].step
          /\ action'[b].status \in Attempted => action[b].status \in Attempted
    BY <1>0, <2>1, StatusOnly
  <2> QED
    BY <1>0, <2>2 DEF OneAttemptPerStep
<1>4. ASSUME NEW a \in Actions, propose_action(a) \/ cancel_action(a)
      PROVE  OneAttemptPerStep'
  <2>1. \A b \in Actions : action'[b].status \in Attempted =>
          action'[b] = action[b]
    BY <1>0, <1>4 DEF propose_action, cancel_action, SetAction, RowsType
  <2> QED
    BY <1>0, <2>1 DEF OneAttemptPerStep
<1> QED
  BY <1>1, <1>2, <1>3, <1>4, Kinds

\* Only the run writes confirmations, and only for the action it is about to start.
LEMMA ApprovalMoves ==
  ASSUME [Next]_vars
  PROVE  \/ UNCHANGED approval
         \/ /\ UNCHANGED action
            /\ \/ approval' = [approval EXCEPT ![Driven] = "confirmed"]
               \/ run.pc = "ask" /\ approval' = [approval EXCEPT ![Driven] = "staged"]
<1>1. CASE stage_confirmation \/ confirm
  BY <1>1 DEF stage_confirmation, confirm
<1>2. CASE ~(stage_confirmation \/ confirm)
  BY <1>2 DEF Next, Turn, Drive, Others, vars, rows, provider_call, out_of_turns, dispatch,
     propose_rejected, propose_goal, propose_task, activate_task, propose_plan,
     activate_plan, propose_action, turn_over, begin_executing, execute, Report,
     report_rejected, verify, transition_step, complete_step, complete_task,
     terminate_session, cancel_task, supersede_plan, write_step, cancel_action
<1> QED
  BY <1>1, <1>2

\* Only the gate lets an action start that needs a human's word.
LEMMA ApprovedStep ==
  ASSUME Shape, [Next]_vars, NothingRunsUnapproved
  PROVE  NothingRunsUnapproved'
<1> USE DEF Attempted
<1>0. /\ RowsType
      /\ \A a \in Actions : action[a].status \in Attempted /\ action[a].step \in NeedsApproval
           => approval[a] = "confirmed"
  BY DEF Shape, TypeInv, NothingRunsUnapproved
<1>1. CASE approval' # approval
  <2>1. /\ UNCHANGED action
        /\ \/ approval' = [approval EXCEPT ![Driven] = "confirmed"]
           \/ run.pc = "ask" /\ approval' = [approval EXCEPT ![Driven] = "staged"]
    BY <1>1, ApprovalMoves
  <2>2. CASE approval' = [approval EXCEPT ![Driven] = "confirmed"]
    <3>1. \A a \in Actions : approval[a] = "confirmed" => approval'[a] = "confirmed"
      BY <1>0, <2>2 DEF RowsType
    <3> QED
      BY <1>0, <2>1, <3>1 DEF NothingRunsUnapproved
  <2>3. CASE run.pc = "ask" /\ approval' = [approval EXCEPT ![Driven] = "staged"]
    <3>1. action[Driven].step = Current /\ Driven \in Actions
      BY <2>3, AtAStep DEF Driving
    <3>2. action[Driven].status \notin Attempted
      BY <2>3, <3>1, NotYetTried
    <3>3. \A a \in Actions : a # Driven => approval'[a] = approval[a]
      BY <1>0, <2>3 DEF RowsType
    <3> QED
      BY <1>0, <2>1, <3>2, <3>3 DEF NothingRunsUnapproved
  <2> QED
    BY <2>1, <2>2, <2>3
<1>2. CASE UNCHANGED approval
  <2>1. CASE \/ Talks \/ MovesStep
             \/ \E s \in OtherSteps, status \in OtherStatuses : write_step(s, status)
             \/ \E p \in Plans, t \in Tasks : propose_plan(p, t)
    <3>1. UNCHANGED action
      BY <2>1, MoveKinds DEF Talks, write_step, propose_plan, Shape, TypeInv
    <3> QED
      BY <1>2, <3>1 DEF NothingRunsUnapproved
  <2>2. CASE Starts
    <3>1. Driven \in Actions /\ SetAction(Driven, "EXECUTING") /\ Gate(Driven)
      BY <2>2, AtAStep DEF Starts, Driving
    <3>2. \A b \in Actions :
            /\ action'[b].step = action[b].step
            /\ action'[b].status = IF b = Driven THEN "EXECUTING" ELSE action[b].status
      BY <1>0, <3>1, StatusOnly
    <3> QED
      BY <1>0, <1>2, <3>1, <3>2 DEF NothingRunsUnapproved, Gate
  <2>3. CASE Reports
    <3>1. PICK outcome : /\ Driven \in Actions /\ action[Driven].status = "EXECUTING"
                         /\ SetAction(Driven, outcome)
      BY <2>3, AtAStep DEF Reports, Driving
    <3>2. \A b \in Actions :
            /\ action'[b].step = action[b].step
            /\ action'[b].status \in Attempted => action[b].status \in Attempted
      BY <1>0, <3>1, StatusOnly
    <3> QED
      BY <1>0, <1>2, <3>2 DEF NothingRunsUnapproved
  <2>4. ASSUME NEW a \in Actions, propose_action(a) \/ cancel_action(a)
        PROVE  NothingRunsUnapproved'
    <3>1. \A b \in Actions : action'[b].status \in Attempted => action'[b] = action[b]
      BY <1>0, <2>4 DEF propose_action, cancel_action, SetAction, RowsType
    <3> QED
      BY <1>0, <1>2, <3>1 DEF NothingRunsUnapproved
  <2> QED
    BY <2>1, <2>2, <2>3, <2>4, Kinds
<1> QED
  BY <1>1, <1>2

-----------------------------------------------------------------------------
(* What is done stays done.                                                *)

\* A step stays done if its row, the results of its verifications and every
\* observed action stay.
LEMMA DoneStays ==
  ASSUME RowsType, NEW s \in Steps, Done(s),
         step'[s].status = "COMPLETED" \/ step'[s].others > 0,
         \A a \in Actions : action[a].status = "OBSERVED" => action'[a] = action[a],
         \A v \in Vers : VerStep[v] = s => result'[v] = result[v]
  PROVE  Done(s)'
BY DEF Done, RowsType

\* The current step is not among those the run has left.
LEMMA LeftBehind ==
  ASSUME Shape, run.stage = "action", run.idx \in 1 .. Len(run.order)
  PROVE  Current \notin Left
<1>1. \A i, j \in 1 .. Len(run.order) : run.order[i] = run.order[j] => i = j
  BY OrderInjective
<1> QED
  BY <1>1 DEF Current, Left

\* A run that has not moved has left the same steps.
LEMMA SameLeft ==
  ASSUME run'.order = run.order, run'.idx = run.idx
  PROVE  Left' = Left
BY DEF Left

\* The run leaves a step only when it is observed, verified and completed, or when
\* somebody else has written its row: complete_step moves it from the revision the run
\* remembers, and nobody but others can have gone beyond that revision.
LEMMA DoneStep ==
  ASSUME Shape, [Next]_vars, DoneInv
  PROVE  DoneInv'
<1> USE DEF Proposal, Driving, Moving
<1>0. /\ RowsType /\ RunType /\ StageInv /\ OrderInv
      /\ run.order \in Seq(Steps) /\ run.idx \in Nat
      /\ \A s \in Left : s \in Steps /\ Done(s)
  BY DEF Shape, TypeInv, RunType, DoneInv, Left
<1>2. ASSUME SamePlace, UNCHANGED <<step, result>>,
             \A a \in Actions : action[a].status = "OBSERVED" => action'[a] = action[a]
      PROVE  \A s \in Left' : Done(s)'
  <2>1. ASSUME NEW s \in Left
        PROVE  Done(s)'
    BY <1>0, <1>2, DoneStays DEF Done
  <2>2. Left' = Left
    BY <1>2, SameLeft DEF SamePlace
  <2> QED
    BY <2>1, <2>2
<1>3. CASE Talks /\ ~verify
  <2>1. /\ UNCHANGED <<action, step, result>> /\ SamePlace
        /\ run'.pc \in {"verify"} \cup Moving => UNCHANGED run
    BY <1>3 DEF Talks
  <2>2. \A s \in Left' : Done(s)'
    BY <1>2, <2>1
  <2>3. CASE run'.pc \notin {"verify"} \cup Moving
    BY <2>2, <2>3 DEF DoneInv
  <2>4. CASE UNCHANGED run
    <3>1. Current' = Current /\ Driven' = Driven /\ StepVers' = StepVers
      BY <2>4 DEF Current, Driven, StepVers
    <3> QED
      BY <2>1, <2>2, <2>4, <3>1 DEF DoneInv
  <2> QED
    BY <2>1, <2>3, <2>4
<1>4. CASE verify
  <2>0. run.pc = "verify" /\ UNCHANGED <<action, step>>
    BY <1>4 DEF verify
  <2>1. SamePlace
    <3>1. \/ load_step \/ Halt
          \/ \E v : run' = [run EXCEPT !.unchecked = @ \ {v}]
      BY <1>4 DEF verify
    <3> QED
      BY <1>0, <3>1 DEF load_step, Halt, RunType, SamePlace
  <2>2. Current' = Current /\ Driven' = Driven /\ StepVers' = StepVers
    BY <2>1, SameStep DEF StepVers
  <2>3. /\ run.idx \in 1 .. Len(run.order) /\ run.stage = "action"
        /\ action[Driven].status = "OBSERVED"
        /\ run.unchecked \subseteq StepVers
        /\ \A v \in StepVers \ run.unchecked : result[v] = "PASS"
    BY <2>0, AtAStep DEF DoneInv
  <2>4. \A v \in Vers : v \notin run.unchecked => result'[v] = result[v]
    BY <1>0, <1>4 DEF verify, RowsType
  <2>5. \A s \in Left' : Done(s)'
    <3>1. SUFFICES ASSUME NEW s \in Left
                   PROVE  Done(s)'
      BY <2>1, SameLeft DEF SamePlace
    <3>2. s \in Steps /\ s # Current /\ Done(s)
      BY <1>0, <2>3, LeftBehind
    <3>3. \A v \in Vers : VerStep[v] = s => result'[v] = result[v]
      BY <2>3, <2>4, <3>2 DEF StepVers
    <3>4. step'[s].status = "COMPLETED" \/ step'[s].others > 0
      BY <2>0, <3>2 DEF Done
    <3>5. \A a \in Actions : action[a].status = "OBSERVED" => action'[a] = action[a]
      BY <2>0
    <3> QED
      BY <1>0, <3>2, <3>3, <3>4, <3>5, DoneStays
  <2>6. \/ run'.pc = "halted"
        \/ run'.pc = "ready" /\ run.unchecked = {} /\ result' = result
        \/ /\ run'.pc = "verify"
           /\ \E v \in run.unchecked : /\ result' = [result EXCEPT ![v] = "PASS"]
                                       /\ run'.unchecked = run.unchecked \ {v}
    <3>1. CASE load_step /\ run.unchecked = {} /\ UNCHANGED result
      BY <1>0, <3>1 DEF load_step, RunType
    <3>2. CASE Halt
      BY <1>0, <3>2 DEF Halt, RunType
    <3>3. ASSUME NEW v \in run.unchecked, result' = [result EXCEPT ![v] = "PASS"],
                 run' = [run EXCEPT !.unchecked = @ \ {v}]
          PROVE  /\ run'.pc = "verify"
                 /\ run'.unchecked = run.unchecked \ {v}
      BY <1>0, <2>0, <3>3 DEF RunType
    <3> QED
      BY <1>4, <3>1, <3>2, <3>3 DEF verify
  <2>7. CASE run'.pc = "halted"
    BY <2>5, <2>7 DEF DoneInv
  <2>8. CASE run'.pc = "ready" /\ run.unchecked = {} /\ result' = result
    BY <2>0, <2>2, <2>3, <2>5, <2>8 DEF DoneInv
  <2>9. ASSUME NEW v \in run.unchecked, run'.pc = "verify",
               result' = [result EXCEPT ![v] = "PASS"],
               run'.unchecked = run.unchecked \ {v}
        PROVE  DoneInv'
    <3>1. v \in Vers /\ DOMAIN result = Vers
      BY <1>0 DEF RunType, RowsType
    <3>2. \A w \in StepVers \ run'.unchecked : result'[w] = "PASS"
      BY <2>3, <2>9, <3>1 DEF StepVers
    <3> QED
      BY <2>0, <2>2, <2>3, <2>5, <2>9, <3>2 DEF DoneInv
  <2> QED
    BY <2>6, <2>7, <2>8, <2>9
<1>5. CASE Starts
  <2>1. Driven \in Actions /\ SetAction(Driven, "EXECUTING")
        /\ action[Driven].status = "PENDING" /\ run'.pc = "execute"
    BY <1>5, AtAStep DEF Starts
  <2>2. \A a \in Actions : action[a].status = "OBSERVED" => action'[a] = action[a]
    BY <1>0, <2>1, StatusOnly
  <2>3. \A s \in Left' : Done(s)'
    BY <1>2, <1>5, <2>2 DEF Starts
  <2> QED
    BY <2>1, <2>3 DEF DoneInv
<1>6. CASE Reports
  <2>1. PICK outcome :
          /\ Driven \in Actions /\ action[Driven].status = "EXECUTING"
          /\ SetAction(Driven, outcome)
          /\ run'.pc = IF outcome = "OBSERVED" THEN "verify" ELSE "halted"
          /\ outcome = "OBSERVED" => run'.unchecked = StepVers
    BY <1>6, AtAStep DEF Reports
  <2>2. /\ \A a \in Actions : action[a].status = "OBSERVED" => action'[a] = action[a]
        /\ action'[Driven].status = outcome
    BY <1>0, <2>1, StatusOnly
  <2>3. \A s \in Left' : Done(s)'
    BY <1>2, <1>6, <2>2 DEF Reports
  <2>4. Driven' = Driven /\ StepVers' = StepVers
    BY <1>6, SameStep DEF Reports, StepVers
  <2> QED
    BY <2>1, <2>2, <2>3, <2>4 DEF DoneInv
<1>7. ASSUME NEW a \in Actions, propose_action(a)
      PROVE  DoneInv'
  <2>1. \A b \in Actions : action[b].status = "OBSERVED" => action'[b] = action[b]
    BY <1>0, <1>7 DEF propose_action, RowsType
  <2>2. /\ run'.order = run.order /\ run'.idx = run.idx /\ run'.pc = "dispatch"
        /\ UNCHANGED <<step, result>>
    BY <1>0, <1>7 DEF propose_action, RunType
  <2>3. SUFFICES ASSUME NEW s \in Left
                 PROVE  Done(s)'
    BY <2>2, SameLeft DEF DoneInv
  <2> QED
    BY <1>0, <2>1, <2>2, DoneStays DEF Done
<1>8. ASSUME NEW a \in Actions, cancel_action(a)
      PROVE  DoneInv'
  <2>1. \A b \in Actions : action[b].status = "OBSERVED" => action'[b] = action[b]
    BY <1>0, <1>8, StatusOnly DEF cancel_action, Contracted, ACTION_TRANSITIONS
  <2>2. UNCHANGED <<run, step, result>>
    BY <1>8 DEF cancel_action
  <2>3. \A s \in Left' : Done(s)'
    BY <1>2, <2>1, <2>2 DEF SamePlace
  <2>4. Current' = Current /\ Driven' = Driven /\ StepVers' = StepVers
    BY <2>2 DEF Current, Driven, StepVers
  <2>5. run.pc \in {"verify"} \cup Moving => Driven \in Actions
    BY AtAStep
  <2> QED
    BY <2>1, <2>2, <2>3, <2>4, <2>5 DEF DoneInv
<1>9. ASSUME NEW p \in Plans, NEW t \in Tasks, propose_plan(p, t)
      PROVE  DoneInv'
  <2>1. run'.idx = 1 /\ run'.pc = "activate_plan"
    BY <1>0, <1>9 DEF propose_plan, RunType
  <2>2. Left' = {}
    BY <2>1 DEF Left
  <2> QED
    BY <2>1, <2>2 DEF DoneInv
<1>10. CASE MovesStep
  <2>1. /\ run.pc \in Moving /\ UNCHANGED <<action, result>>
        /\ run'.order = run.order /\ run'.actions = run.actions
    BY <1>0, <1>10, MoveKinds
  <2>2. /\ run.idx \in 1 .. Len(run.order) /\ run.stage = "action"
        /\ Current \in Steps /\ Current = run.order[run.idx]
        /\ Driven \in Actions /\ action[Driven].step = Current
        /\ action[Driven].status = "OBSERVED"
        /\ \A v \in StepVers : result[v] = "PASS"
    BY <2>1, AtAStep DEF DoneInv, Current
  <2>3. \A s \in Steps : s # Current => step'[s] = step[s]
    BY <1>0, <1>10 DEF MovesStep, transition_step, complete_step, WriteStep, RowsType
  <2>4. ASSUME NEW s \in Left
        PROVE  Done(s)'
    <3>1. s \in Steps /\ s # Current /\ Done(s)
      BY <1>0, <2>2, LeftBehind
    <3> QED
      BY <1>0, <2>1, <2>3, <3>1, DoneStays DEF Done
  <2>5. CASE run'.idx = run.idx /\ run'.pc \in {"executing", "completing", "raised"}
    <3>1. Current' = Current /\ Driven' = Driven /\ StepVers' = StepVers /\ Left' = Left
      BY <2>1, <2>5 DEF Current, Driven, StepVers, Left
    <3>2. run'.pc = "completing" =>
            step'[Current].status = "EXECUTING" /\ step'[Current].revision = run'.revision
      <4>1. SUFFICES ASSUME run'.pc = "completing"
                     PROVE  /\ step'[Current].status = "EXECUTING"
                            /\ step'[Current].revision = run'.revision
        OBVIOUS
      <4>2. /\ Accepted("EXECUTING") /\ WriteStep(Current, "EXECUTING")
            /\ run' = [run EXCEPT !.pc = "completing", !.revision = @ + 1]
        BY <1>0, <1>10, <4>1 DEF MovesStep, transition_step, complete_step, Goto, RunType
      <4> QED
        BY <1>0, <2>2, <4>2 DEF Accepted, WriteStep, RowsType, RunType
    <3> QED
      BY <2>1, <2>2, <2>4, <2>5, <3>1, <3>2 DEF DoneInv
  <2>6. CASE /\ run.pc = "completing" /\ complete_step /\ run'.idx = run.idx + 1
             /\ run'.pc \in {"complete", "turn"}
    <3>1. step'[Current].status = "COMPLETED" \/ step'[Current].others > 0
      <4>1. CASE Accepted("COMPLETED")
        BY <1>0, <2>2, <2>6, <4>1 DEF complete_step, WriteStep, RowsType
      <4>2. CASE ~Accepted("COMPLETED")
        <5>1. Contracted(STEP_TRANSITIONS, "EXECUTING", "COMPLETED")
          BY DEF Contracted, STEP_TRANSITIONS, STEP_TERMINAL
        <5>2. step[Current].others > 0
          BY <2>6, <4>2, <5>1 DEF Accepted, DoneInv
        <5> QED
          BY <2>6, <4>2, <5>2 DEF complete_step
      <4> QED
        BY <4>1, <4>2
    <3>2. ASSUME NEW s \in Steps, s = Current
          PROVE  Done(s)'
      <4>1. action'[Driven] = [status |-> "OBSERVED", step |-> s] /\ Driven \in Actions
        BY <1>0, <2>1, <2>2, <3>2 DEF RowsType
      <4>2. \A v \in Vers : VerStep[v] = s => result'[v] = "PASS"
        BY <2>1, <2>2, <3>2 DEF StepVers
      <4> QED
        BY <3>1, <3>2, <4>1, <4>2 DEF Done
    <3>3. Left' \subseteq Left \cup {Current}
      BY <1>0, <2>1, <2>2, <2>6 DEF Left
    <3>4. \A s \in Left' : Done(s)'
      BY <2>2, <2>4, <3>2, <3>3
    <3> QED
      BY <2>6, <3>4 DEF DoneInv
  <2> QED
    BY <1>0, <1>10, <2>5, <2>6, MoveKinds
<1>11. ASSUME NEW s \in OtherSteps, NEW status \in OtherStatuses, write_step(s, status)
       PROVE  DoneInv'
  <2>1. /\ s \in Steps /\ UNCHANGED <<action, result, run>>
        /\ \A q \in Steps : q # s => step'[q] = step[q]
        /\ step'[s].others > 0
    BY <1>0, <1>11, OthersWrite, LoopConstants
  <2>2. ASSUME NEW q \in Left
        PROVE  Done(q)'
    BY <1>0, <2>1, DoneStays DEF Done
  <2>3. Current' = Current /\ Driven' = Driven /\ StepVers' = StepVers /\ Left' = Left
    BY <2>1 DEF Current, Driven, StepVers, Left
  <2>4. run.pc = "completing" =>
          \/ step'[Current].others > 0
          \/ step'[Current].status = "EXECUTING" /\ step'[Current].revision = run.revision
    <3>1. run.pc = "completing" => Current \in Steps
      BY AtAStep
    <3> QED
      BY <2>1, <3>1 DEF DoneInv
  <2> QED
    BY <2>1, <2>2, <2>3, <2>4 DEF DoneInv
<1> QED
  BY <1>3, <1>4, <1>5, <1>6, <1>7, <1>8, <1>9, <1>10, <1>11, Kinds

\* ok is answered where the task was completed, and completed it stays.
LEMMA OkStep ==
  ASSUME Shape, [Next]_vars, OkInv
  PROVE  OkInv'
<1> USE DEF Driving, Moving
<1>0. RowsType /\ RunType /\ StageInv
  BY DEF Shape, TypeInv
<1>1. CASE complete_task
  <2>1. run.task \in Tasks /\ run.pc = "complete"
    BY <1>0, <1>1 DEF complete_task, StageInv
  <2>2. CASE Halt
    BY <1>0, <2>2 DEF Halt, RunType, OkInv
  <2>3. CASE ~Halt
    <3>1. /\ task' = [task EXCEPT ![run.task] = [status |-> "COMPLETED", plan |-> NoPlan]]
          /\ run'.task = run.task
      BY <1>0, <1>1, <2>3 DEF complete_task, Goto, RunType
    <3>2. task'[run.task].status = "COMPLETED"
      BY <1>0, <2>1, <3>1 DEF RowsType
    <3> QED
      BY <3>1, <3>2 DEF OkInv
  <2> QED
    BY <2>2, <2>3
<1>2. CASE Others \/ UNCHANGED vars
  <2>1. run' = run
    BY <1>2 DEF Others, terminate_session, cancel_task, supersede_plan, cancel_action,
       write_step, vars
  <2>2. SUFFICES ASSUME run.pc = "ok"
                 PROVE  task'[run.task].status = "COMPLETED"
    BY <2>1 DEF OkInv
  <2>3. task[run.task].status = "COMPLETED" /\ run.task \in Tasks
    BY <1>0, <2>2 DEF OkInv, StageInv
  <2>4. \A t \in Tasks : cancel_task(t) \/ supersede_plan(t) => task[t].status # "COMPLETED"
    BY DEF cancel_task, supersede_plan, Contracted, TASK_TRANSITIONS
  <2>5. \A t \in Tasks : (cancel_task(t) \/ supersede_plan(t)) /\ t # run.task =>
          task'[run.task] = task[run.task]
    BY <1>0, <2>3 DEF cancel_task, supersede_plan, RowsType
  <2>6. /\ terminate_session \/ UNCHANGED vars => task' = task
        /\ \A s \in OtherSteps, status \in OtherStatuses : write_step(s, status) => task' = task
        /\ \A a \in Actions : cancel_action(a) => task' = task
    BY DEF terminate_session, write_step, cancel_action, vars, rows
  <2> QED
    BY <1>2, <2>3, <2>4, <2>5, <2>6 DEF Others
<1>3. CASE Next /\ ~complete_task /\ ~Others
  <2>1. run'.pc # "ok"
    <3>1. CASE Talks
      <4>1. run.pc # "ok"
        BY <1>3 DEF Next, Turn, Drive, provider_call, out_of_turns, dispatch,
           propose_rejected, propose_goal, propose_task, activate_task, propose_plan,
           activate_plan, propose_action, turn_over, begin_executing, stage_confirmation,
           confirm, execute, Report, report_rejected, verify, transition_step, complete_step,
           Proposing
      <4>2. run.pc # "complete"
        BY <1>3 DEF Next, Turn, Drive, provider_call, out_of_turns, dispatch,
           propose_rejected, propose_goal, propose_task, activate_task, propose_plan,
           activate_plan, propose_action, turn_over, begin_executing, stage_confirmation,
           confirm, execute, Report, report_rejected, verify, transition_step, complete_step,
           Proposing
      <4> QED
        BY <3>1, <4>1, <4>2 DEF Talks, Proposal
    <3>2. CASE Starts \/ Reports
      BY <3>2 DEF Starts, Reports
    <3>3. CASE MovesStep
      BY <1>0, <3>3, MoveKinds
    <3>4. ASSUME NEW p \in Plans, NEW t \in Tasks, propose_plan(p, t)
          PROVE  run'.pc # "ok"
      BY <1>0, <3>4 DEF propose_plan, RunType
    <3>5. ASSUME NEW a \in Actions, propose_action(a)
          PROVE  run'.pc # "ok"
      BY <1>0, <3>5 DEF propose_action, RunType
    <3>6. /\ \A a \in Actions : ~cancel_action(a)
          /\ ~\E s \in OtherSteps, status \in OtherStatuses : write_step(s, status)
      BY <1>3 DEF Others
    <3> QED
      BY <3>1, <3>2, <3>3, <3>4, <3>5, <3>6, Kinds
  <2> QED
    BY <2>1 DEF OkInv
<1> QED
  BY <1>1, <1>2, <1>3

-----------------------------------------------------------------------------
(* The invariant.                                                          *)

\* The run starts well.
LEMMA InitHolds ==
  ASSUME Init
  PROVE  LoopInv
<1> USE DEF Init
<1>1. (CHOOSE s \in Steps : TRUE) \in Steps
  BY LoopConstants
<1>2. RowsType
  BY <1>1 DEF RowsType, NewStep
<1>3. RunType
  BY DEF RunType, Proposal
<1>4. StageInv /\ OrderInv
  BY DEF StageInv, OrderInv, Driving
<1>5. ActionsInv
  BY DEF ActionsInv, Driving, Attempted
<1>6. DoneInv /\ OkInv
  BY DEF DoneInv, OkInv, Left, Moving
<1>7. NothingRunsUnapproved /\ OneAttemptPerStep
  BY DEF NothingRunsUnapproved, OneAttemptPerStep
<1> QED
  BY <1>2, <1>3, <1>4, <1>5, <1>6, <1>7 DEF LoopInv, TypeInv

\* What the run believes, what the rows say and how far it has come agree at every
\* step of the loop, whoever else cancels, supersedes or writes its rows (run_live_slice).
THEOREM LoopInvariance == Spec => []LoopInv
<1>1. Init => LoopInv
  BY InitHolds
<1>2. LoopInv /\ [Next]_vars => LoopInv'
  <2> SUFFICES ASSUME LoopInv, [Next]_vars
               PROVE  LoopInv'
    OBVIOUS
  <2>1. Shape /\ DoneInv /\ OkInv /\ NothingRunsUnapproved /\ OneAttemptPerStep
    BY DEF LoopInv, Shape
  <2>2. TypeInv' /\ StageInv' /\ OrderInv' /\ ActionsInv'
    BY <2>1, RowsTypeStep, RunTypeStep, StageStep, OrderStep, ActionsStep DEF TypeInv
  <2>3. DoneInv' /\ OkInv' /\ NothingRunsUnapproved' /\ OneAttemptPerStep'
    BY <2>1, DoneStep, OkStep, ApprovedStep, OneAttemptStep
  <2> QED
    BY <2>2, <2>3 DEF LoopInv
<1> QED
  BY <1>1, <1>2, PTL DEF Spec

\* An action whose capability needs a human's confirmation starts only after a human
\* confirmed that action (make_confirmation_gate, Laws 32 and 33).
THEOREM ConfirmationComesFirst == Spec => []NothingRunsUnapproved
BY LoopInvariance, PTL DEF LoopInv

\* The loop never tries a step twice, whatever the model proposes and others do
\* (run_live_slice).
THEOREM StepsAreTriedOnce == Spec => []OneAttemptPerStep
BY LoopInvariance, PTL DEF LoopInv

\* No step has an action before all it waits for was observed, verified and completed,
\* for every acyclic graph, every listing of its steps and every writer of them
\* (run_live_slice).  Only a step whose row somebody else has written can be left behind
\* in another status than COMPLETED.
THEOREM DependenciesComeFirst == Spec => []NoActionBeforeDependencies
<1>1. LoopInv => NoActionBeforeDependencies
  <2> SUFFICES ASSUME LoopInv, NEW a \in Actions, action[a].status # "ABSENT",
                      NEW s \in Graph[PlanOf(action[a].step)][action[a].step]
               PROVE  Done(s)
    BY DEF NoActionBeforeDependencies
  <2> DEFINE p == run.plan
             waits == action[a].step
  <2>1. Shape /\ \A d \in Left : Done(d)
    BY DEF LoopInv, Shape, DoneInv
  <2>2. run.stage = "action"
    BY <2>1 DEF Shape, ActionsInv, StageInv
  <2>3. /\ p \in Plans /\ run.order = dependency_order(Graph[p], Listed[p])
        /\ run.order \in Seq(Steps) /\ run.idx \in Nat
    BY <2>1, <2>2 DEF Shape, OrderInv, TypeInv, RunType
  <2>4. PICK j \in 1 .. Len(run.order) : j <= run.idx /\ waits = run.order[j]
    BY <2>1 DEF Shape, ActionsInv
  <2>5. Topological(Graph[p], run.order) /\ ToSet(run.order) = ToSet(Listed[p])
    BY <2>3, PlanWalk
  <2>6. waits \in ToSet(Listed[p])
    BY <2>3, <2>4, <2>5 DEF ToSet
  <2>7. PlanOf(waits) = p
    <3>1. \A q \in Plans : waits \in ToSet(Listed[q]) => q = p
      BY <2>3, <2>6, LoopConstants
    <3> QED
      BY <2>3, <2>6, <3>1 DEF PlanOf
  <2>8. s \in Deps(Graph[p], waits)
    <3>1. Graph[p] \in [ToSet(Listed[p]) -> SUBSET ToSet(Listed[p])]
      BY <2>3, LoopConstants
    <3> HIDE DEF waits
    <3> QED
      BY <2>6, <2>7, <3>1 DEF Deps, waits
  <2>9. s \in {run.order[k] : k \in 1 .. j - 1}
    BY <2>3, <2>4, <2>5, <2>8 DEF Topological
  <2>10. PICK k \in 1 .. j - 1 : s = run.order[k]
    BY <2>9
  <2>11. k \in 1 .. Len(run.order) /\ k < run.idx /\ run.order[k] \in Steps
    BY <2>3, <2>4, <2>10
  <2> QED
    BY <2>1, <2>10, <2>11 DEF Left
<1> QED
  BY <1>1, LoopInvariance, PTL

\* ok = True means a completed task whose plan is done step by step: observed, verified,
\* and completed unless somebody else has written the step's row (run_live_slice).
THEOREM SuccessMeansDone == Spec => []SuccessIsEarned
<1>1. LoopInv => SuccessIsEarned
  <2> SUFFICES ASSUME LoopInv, run.pc = "ok"
               PROVE  /\ task[run.task].status = "COMPLETED"
                      /\ \A i \in 1 .. Len(run.order) : Done(run.order[i])
    BY DEF SuccessIsEarned
  <2>1. /\ task[run.task].status = "COMPLETED"
        /\ run.stage = "action" /\ run.idx = Len(run.order) + 1
        /\ run.order \in Seq(Steps) /\ \A d \in Left : Done(d)
    BY DEF LoopInv, OkInv, StageInv, OrderInv, TypeInv, RunType, DoneInv
  <2>2. ASSUME NEW i \in 1 .. Len(run.order)
        PROVE  run.order[i] \in Left
    BY <2>1 DEF Left
  <2> QED
    BY <2>1, <2>2
<1> QED
  BY <1>1, LoopInvariance, PTL

-----------------------------------------------------------------------------
(* The session.                                                            *)

\* A terminated session gets no proposal accepted but the one whose check it had
\* already passed (_require_context, section 13.3).
THEOREM TerminationIsFinal == Spec => []TerminationStopsProposals
<1>1. Init => LoopInv /\ LateInv
  BY InitHolds DEF Init, LateInv
<1>2. LoopInv /\ LateInv /\ [Next]_vars => LateInv'
  <2> SUFFICES ASSUME RunType, RowsType, LateInv, [Next]_vars
               PROVE  LateInv'
    BY DEF LoopInv, TypeInv
  <2>1. CASE propose_goal \/ (\E t \in Tasks : propose_task(t))
             \/ (\E p \in Plans, t \in Tasks : propose_plan(p, t))
             \/ (\E a \in Actions : propose_action(a))
    <3>1. /\ run.pc = "propose" /\ session' = session
          /\ late' = IF session = "LIVE" THEN late ELSE late + 1
      BY <2>1 DEF Proposing, propose_goal, propose_task, propose_plan, propose_action
    <3>2. run'.pc \in {"dispatch", "activate_task", "activate_plan"}
      BY <2>1 DEF RunType, propose_goal, propose_task, propose_plan, propose_action
    <3> QED
      BY <3>1, <3>2 DEF LateInv, RowsType
  <2>2. CASE dispatch
    <3>1. /\ UNCHANGED <<session, late>>
          /\ run'.pc = "propose" => session = "LIVE"
      BY <2>2 DEF dispatch, Rejected, SessionLive, RunType
    <3> QED
      BY <3>1 DEF LateInv
  <2>3. CASE terminate_session \/ UNCHANGED vars
    BY <2>3 DEF terminate_session, vars, LateInv
  <2>4. ASSUME Next, ~dispatch, ~terminate_session, ~propose_goal,
               ~(\E t \in Tasks : propose_task(t)),
               ~(\E p \in Plans, t \in Tasks : propose_plan(p, t)),
               ~(\E a \in Actions : propose_action(a))
        PROVE  LateInv'
    <3>1. UNCHANGED <<session, late>>
      BY <2>4 DEF Next, Turn, Drive, Others, provider_call, out_of_turns, propose_rejected,
         activate_task, activate_plan, turn_over, begin_executing, stage_confirmation,
         confirm, execute, Report, report_rejected, verify, transition_step, complete_step,
         complete_task, cancel_task, supersede_plan, write_step, cancel_action
    <3>2. run.pc # "propose" => run'.pc # "propose"
      <4> USE DEF RunType
      <4>1. CASE provider_call
        <5>1. Reprompt \/ MalformedTurn \/ Calls
          BY <4>1 DEF provider_call
        <5> QED
          BY <5>1 DEF Reprompt, MalformedTurn, Calls
      <4>2. CASE out_of_turns \/ propose_rejected \/ activate_task
        BY <4>2 DEF out_of_turns, propose_rejected, activate_task, Rejected
      <4>3. CASE activate_plan
        <5>1. \/ Rejected
              \/ run' = [run EXCEPT !.stage = "action", !.pc = "dispatch", !.calls = @ - 1]
          BY <4>3 DEF activate_plan
        <5> QED
          BY <5>1 DEF Rejected
      <4>4. CASE turn_over
        <5>1. \/ run' = [run EXCEPT !.pc = "turn"]
              \/ run' = [run EXCEPT !.pc = "begin", !.asked = FALSE]
              \/ \E x \in {"halted", "turn"} :
                   run' = [run EXCEPT !.rejections = @ + 1, !.pc = x]
          BY <4>4 DEF turn_over
        <5> QED
          BY <5>1
      <4>5. CASE begin_executing \/ stage_confirmation \/ confirm \/ complete_task
        <5>1. \/ \E pc \in {"execute", "ask", "sign", "ok"} : Goto(pc)
              \/ Halt
              \/ run' = [run EXCEPT !.pc = "begin", !.asked = TRUE]
          BY <4>5 DEF begin_executing, stage_confirmation, confirm, complete_task
        <5> QED
          BY <5>1 DEF Goto, Halt
      <4>6. CASE execute \/ verify
        <5>1. \/ StartVerifying \/ Halt \/ load_step
              \/ \E v : run' = [run EXCEPT !.unchecked = @ \ {v}]
          BY <4>6 DEF execute, report_rejected, verify
        <5> QED
          BY <5>1 DEF StartVerifying, Halt, load_step
      <4>7. CASE MovesStep
        BY <4>7, MoveKinds
      <4>8. CASE Others
        BY <2>4, <4>8 DEF Others, cancel_task, supersede_plan, write_step, cancel_action
      <4> QED
        BY <2>4, <4>1, <4>2, <4>3, <4>4, <4>5, <4>6, <4>7, <4>8 DEF Next, Turn, Drive, MovesStep
    <3> QED
      BY <3>1, <3>2 DEF LateInv
  <2> QED
    BY <2>1, <2>2, <2>3, <2>4
<1>3. LateInv => TerminationStopsProposals
  BY DEF LateInv, TerminationStopsProposals
<1> QED
  BY <1>1, <1>2, <1>3, LoopInvariance, PTL DEF Spec
=============================================================================
