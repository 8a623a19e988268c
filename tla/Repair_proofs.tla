------------------------------ MODULE Repair_proofs ------------------------------
(***************************************************************************)
(* What integrity repair cannot break, for any number of humans, threads   *)
(* and objects: it acts on what its human saw, it leaves no thread with    *)
(* authority it should not have, it fabricates no observation, and what it *)
(* ends hands its obligations over.                                        *)
(*                                                                         *)
(* The argument is about revisions: whatever changes a task's or an        *)
(* attempt's row makes its revision grow, so equal revisions mean equal    *)
(* rows to everybody who remembers one.                                    *)
(***************************************************************************)
EXTENDS Repair, Core_proofs

Sight == [object: Objects \cup {Nothing}, rev: Nat, fresh: BOOLEAN]

\* Only rows that exist are looked at, and who looks at none knows nothing.
SightInv ==
  /\ repairs \in Nat
  /\ sight \in [Humans -> Sight]
  /\ \A h \in Humans :
       /\ sight[h].object \in Actions => Exists(sight[h].object)
       /\ sight[h].object = Nothing => sight[h] = Blind

RepairTypes == TypeInv /\ SightInv

-----------------------------------------------------------------------------
(* Rows by kind.                                                           *)

\* An id is of one kind, so its row is found in one table (_object_type).
LEMMA Kinds ==
  ASSUME NEW x
  PROVE  /\ x \in Goals   => Row(x) = goal[x]
         /\ x \in Tasks   => Row(x) = task[x]
         /\ x \in Plans   => Row(x) = plan[x]
         /\ x \in Actions => Row(x) = action[x]
         /\ x \in Obls    => Row(x) = obligation[x]
         /\ x \in Goals   => RepairTargets(x) = GoalRepairs
         /\ x \in Tasks   => RepairTargets(x) = TaskRepairs
         /\ x \in Plans   => RepairTargets(x) = PlanRepairs
         /\ x \in Actions => RepairTargets(x) = ActionRepairs
         /\ x \in Obls    => RepairTargets(x) = OblRepairs
BY RepairConstants DEF Row, RepairTargets

\* The same for the row after a step.
LEMMA KindsPrimed ==
  ASSUME NEW x \in Objects
  PROVE  /\ x \in Goals   => Row(x)' = goal'[x]
         /\ x \in Tasks   => Row(x)' = task'[x]
         /\ x \in Plans   => Row(x)' = plan'[x]
         /\ x \in Actions => Row(x)' = action'[x]
         /\ x \in Obls    => Row(x)' = obligation'[x]
BY RepairConstants DEF Row

\* A patched row of each kind is a row of that kind with a fresh revision, and
\* an attempt keeps its plan and exists as before (repair_object's writes).
LEMMA PatchedGoal ==
  ASSUME TypeOK, NEW x \in Goals, NEW r, DOMAIN r \subseteq {"status", "integrity"},
         "status" \in DOMAIN r => r.status \in GoalStatus,
         "integrity" \in DOMAIN r => r.integrity \in IntegrityStatus
  PROVE  Patched(x, r) \in GoalRow
<1>1. goal[x] \in GoalRow /\ Row(x) = goal[x]
  BY Kinds DEF TypeOK
<1>2. DOMAIN goal[x] = {"status", "integrity"}
  BY <1>1 DEF GoalRow
<1> DEFINE q == Patched(x, r)
<1>3. q = [f \in {"status", "integrity"} |-> q[f]]
  BY <1>1, <1>2 DEF Patched
<1>4. q["status"] \in GoalStatus /\ q["integrity"] \in IntegrityStatus
  BY <1>1, <1>2 DEF Patched, GoalRow, IntegrityStatus
<1>5. q = [status |-> q["status"], integrity |-> q["integrity"]]
  BY <1>3
<1> QED
  BY <1>4, <1>5 DEF GoalRow

\* The same for tasks.
LEMMA PatchedTask ==
  ASSUME TypeOK, NEW x \in Tasks, NEW r,
         DOMAIN r \subseteq {"status", "integrity", "active"},
         "status" \in DOMAIN r => r.status \in TaskStatus,
         "integrity" \in DOMAIN r => r.integrity \in IntegrityStatus,
         "active" \in DOMAIN r => r.active \in Plans \cup {NoPlan}
  PROVE  Patched(x, r) \in TaskRow /\ Patched(x, r).rev = task[x].rev + 1
<1>1. task[x] \in TaskRow /\ Row(x) = task[x]
  BY Kinds DEF TypeOK
<1>2. DOMAIN task[x] = {"status", "integrity", "rev", "active", "used"}
  BY <1>1 DEF TaskRow
<1> DEFINE q == Patched(x, r)
<1>3. q = [f \in {"status", "integrity", "rev", "active", "used"} |-> q[f]]
  BY <1>1, <1>2 DEF Patched
<1>4. /\ q["status"] \in TaskStatus
      /\ q["integrity"] \in IntegrityStatus
      /\ q["rev"] = task[x].rev + 1
      /\ q["active"] \in Plans \cup {NoPlan}
      /\ q["used"] \in Nat
  BY <1>1, <1>2 DEF Patched, TaskRow, IntegrityStatus
<1>5. q = [status |-> q["status"], integrity |-> q["integrity"], rev |-> q["rev"],
           active |-> q["active"], used |-> q["used"]]
  BY <1>3
<1> QED
  BY <1>1, <1>4, <1>5 DEF TaskRow

\* The same for plans.
LEMMA PatchedPlan ==
  ASSUME TypeOK, NEW x \in Plans, NEW r, DOMAIN r \subseteq {"status", "successor"},
         "status" \in DOMAIN r => r.status \in PlanStatus,
         "successor" \in DOMAIN r => r.successor \in Plans \cup {NoPlan}
  PROVE  Patched(x, r) \in PlanRow
<1>1. plan[x] \in PlanRow /\ Row(x) = plan[x]
  BY Kinds DEF TypeOK
<1>2. DOMAIN plan[x] = {"status", "successor"}
  BY <1>1 DEF PlanRow
<1> DEFINE q == Patched(x, r)
<1>3. q = [f \in {"status", "successor"} |-> q[f]]
  BY <1>1, <1>2 DEF Patched
<1>4. q["status"] \in PlanStatus /\ q["successor"] \in Plans \cup {NoPlan}
  BY <1>1, <1>2 DEF Patched, PlanRow
<1>5. q = [status |-> q["status"], successor |-> q["successor"]]
  BY <1>3
<1> QED
  BY <1>4, <1>5 DEF PlanRow

\* The same for attempts, which keep their plan.
LEMMA PatchedAction ==
  ASSUME TypeOK, NEW x \in Actions, Exists(x), NEW r,
         DOMAIN r \subseteq {"status", "integrity"},
         "status" \in DOMAIN r => r.status \in ActionStatus,
         "integrity" \in DOMAIN r => r.integrity \in IntegrityStatus
  PROVE  /\ Patched(x, r) \in ActionRow
         /\ Patched(x, r).rev = action[x].rev + 1
         /\ Patched(x, r).plan = action[x].plan
         /\ Patched(x, r).status =
              IF "status" \in DOMAIN r THEN r.status ELSE action[x].status
<1>1. action[x] \in ActionRow /\ Row(x) = action[x]
  BY Kinds DEF TypeOK
<1>2. DOMAIN action[x] = {"status", "integrity", "rev", "plan", "retry_of"}
  BY <1>1 DEF ActionRow
<1> DEFINE q == Patched(x, r)
<1>3. q = [f \in {"status", "integrity", "rev", "plan", "retry_of"} |-> q[f]]
  BY <1>1, <1>2 DEF Patched
<1>4. /\ q["status"] = IF "status" \in DOMAIN r THEN r.status ELSE action[x].status
      /\ q["status"] \in ActionStatus \cup {"ABSENT"}
      /\ q["integrity"] \in IntegrityStatus
      /\ q["rev"] = action[x].rev + 1
      /\ q["plan"] = action[x].plan
      /\ q["plan"] \in Plans \cup {NoPlan}
      /\ q["retry_of"] \in Actions \cup {NoAction}
  BY <1>1, <1>2 DEF Patched, ActionRow, IntegrityStatus
<1>5. q = [status |-> q["status"], integrity |-> q["integrity"], rev |-> q["rev"],
           plan |-> q["plan"], retry_of |-> q["retry_of"]]
  BY <1>3
<1> QED
  BY <1>1, <1>4, <1>5 DEF ActionRow

\* The same for obligations.
LEMMA PatchedObl ==
  ASSUME TypeOK, NEW x \in Obls, NEW r, DOMAIN r \subseteq {"owner", "disposition"},
         "disposition" \in DOMAIN r => r.disposition \in Disposition,
         "owner" \in DOMAIN r => r.owner \in Owners
  PROVE  Patched(x, r) \in OblRow
<1>1. obligation[x] \in OblRow /\ Row(x) = obligation[x]
  BY Kinds DEF TypeOK
<1>2. DOMAIN obligation[x] = {"disposition", "owner", "origin"}
  BY <1>1 DEF OblRow
<1> DEFINE q == Patched(x, r)
<1>3. q = [f \in {"disposition", "owner", "origin"} |-> q[f]]
  BY <1>1, <1>2 DEF Patched
<1>4. /\ q["disposition"] \in Disposition
      /\ q["owner"] \in Owners
      /\ q["origin"] \in Actions \cup {NoAction}
  BY <1>1, <1>2 DEF Patched, OblRow
<1>5. q = [disposition |-> q["disposition"], owner |-> q["owner"],
           origin |-> q["origin"]]
  BY <1>3
<1> QED
  BY <1>4, <1>5 DEF OblRow

-----------------------------------------------------------------------------
(* A repair, by the kind of its object.                                    *)

\* What either operation of repair.py writes.
Write(h, r, ends) ==
  /\ sight[h].object # Nothing
  /\ RevisionMatches(h)
  /\ Replace(sight[h].object, Patched(sight[h].object, r), ends)
  /\ Commit(h)

\* A repair writes one row x with a fresh revision, and only what has an
\* Observation becomes OBSERVED.
Wrote(x) ==
  /\ TypeInv'
  /\ \A t \in Tasks :
       IF t = x THEN task'[t].rev > task[t].rev ELSE task'[t] = task[t]
  /\ \A a \in Actions :
       IF a = x THEN action'[a].rev > action[a].rev ELSE action'[a] = action[a]
  /\ \A a \in Actions :
       action'[a].status = "OBSERVED" => action[a].status = "OBSERVED" \/ a \in observed
  /\ \A a \in Actions : Exists(a)' <=> Exists(a)
  /\ UNCHANGED <<observed, effect, worker>>

\* Whatever repair is asked for, that is what it writes (repair_object,
\* abandon_unrepairable).
LEMMA RepairWrites ==
  ASSUME RepairTypes, NEW h \in Humans, NEW r, NEW ends \in BOOLEAN, Write(h, r, ends),
         NEW x, x = sight[h].object, ends => x \notin Obls,
         \/ r \in RepairTargets(x)
         \/ HasIntegrity(x) /\ r = [integrity |-> "ABANDONED_UNREPAIRABLE"],
         x \in Actions /\ "status" \in DOMAIN r /\ r.status = "OBSERVED"
           => x \in observed,
         x \in Obls /\ "owner" \in DOMAIN r => r.owner \in Owners
  PROVE  Wrote(x)
<1> USE DEF RepairTypes, TypeInv
<1>1. /\ x \in Objects
      /\ UNCHANGED <<observed, effect, worker, trigger, process, stuck, crashes>>
  BY DEF Write, SightInv, Sight, Commit, procVars
<1>2. \/ r \in RepairTargets(x)
      \/ /\ x \in Goals \cup Tasks \cup Actions
         /\ DOMAIN r = {"integrity"}
         /\ r.integrity \in IntegrityStatus
  BY DEF HasIntegrity, IntegrityStatus
<1> DEFINE new == Patched(x, r)
<1>3. PICK q : q = new
  OBVIOUS
<1>4. Replace(x, q, ends)
  BY <1>3 DEF Write
<1>5. x \notin Obls => obligation' \in [Obls -> OblRow]
  BY <1>4, TransferSubtreeType DEF Replace, TypeOK
<1>6. ASSUME TypeOK', UNCHANGED <<action, worker, trigger>>
      PROVE  TypeInv'
  BY <1>6 DEF RowsHavePlans, ThreadsHoldRows, TriggersHoldRows, Exists
<1> HIDE DEF new
<1>7. CASE x \in Goals
  <2>1. q \in GoalRow
    BY <1>2, <1>3, <1>7, Kinds, RepairRequests, PatchedGoal DEF new
  <2>2. /\ goal' = [goal EXCEPT ![x] = q]
        /\ UNCHANGED <<task, plan, action>>
    BY <1>4, <1>7, RepairConstants DEF Replace
  <2>3. TypeOK'
    BY <1>1, <1>5, <1>7, <2>1, <2>2, RepairConstants DEF TypeOK
  <2> QED
    BY <1>1, <1>6, <1>7, <2>2, <2>3, RepairConstants DEF Wrote, Exists
<1>8. CASE x \in Tasks
  <2>1. q \in TaskRow /\ q.rev = task[x].rev + 1 /\ task[x].rev \in Nat
    BY <1>2, <1>3, <1>8, Kinds, RepairRequests, PatchedTask DEF new, TypeOK, TaskRow
  <2>2. /\ task' = [task EXCEPT ![x] = q]
        /\ UNCHANGED <<goal, plan, action>>
    BY <1>4, <1>8, RepairConstants DEF Replace
  <2>3. TypeOK'
    BY <1>1, <1>5, <1>8, <2>1, <2>2, RepairConstants DEF TypeOK
  <2>4. \A t \in Tasks : task'[t] = IF t = x THEN q ELSE task[t]
    BY <1>8, <2>2 DEF TypeOK
  <2>5. q.rev > task[x].rev
    BY <2>1
  <2> QED
    BY <1>1, <1>6, <1>8, <2>2, <2>3, <2>4, <2>5, RepairConstants DEF Wrote, Exists
<1>9. CASE x \in Plans
  <2>1. q \in PlanRow
    BY <1>2, <1>3, <1>9, Kinds, RepairConstants, RepairRequests, PatchedPlan DEF new
  <2>2. /\ plan' = [plan EXCEPT ![x] = q]
        /\ UNCHANGED <<goal, task, action>>
    BY <1>4, <1>9, RepairConstants DEF Replace
  <2>3. TypeOK'
    BY <1>1, <1>5, <1>9, <2>1, <2>2, RepairConstants DEF TypeOK
  <2> QED
    BY <1>1, <1>6, <1>9, <2>2, <2>3, RepairConstants DEF Wrote, Exists
<1>10. CASE x \in Actions
  <2>0. Exists(x)
    BY <1>10 DEF SightInv
  <2>1. /\ DOMAIN r \subseteq {"status", "integrity"}
        /\ "status" \in DOMAIN r => r.status \in ActionStatus
        /\ "integrity" \in DOMAIN r => r.integrity \in IntegrityStatus
    BY <1>2, <1>10, Kinds, RepairRequests
  <2>2. /\ q \in ActionRow
        /\ q.rev = action[x].rev + 1
        /\ q.plan = action[x].plan
        /\ q.status = IF "status" \in DOMAIN r THEN r.status ELSE action[x].status
    BY <1>3, <1>10, <2>0, <2>1, PatchedAction DEF new
  <2>3. /\ action' = [action EXCEPT ![x] = q]
        /\ UNCHANGED <<goal, task, plan>>
    BY <1>4, <1>10, RepairConstants DEF Replace
  <2>4. q.status # "ABSENT"
    BY <2>0, <2>1, <2>2, NamedStatuses DEF Exists
  <2>5. \A a \in Actions : action'[a] = IF a = x THEN q ELSE action[a]
    BY <1>10, <2>3 DEF TypeOK
  <2>6. \A a \in Actions : Exists(a)' <=> Exists(a)
    BY <2>0, <2>4, <2>5 DEF Exists
  <2>7. TypeOK'
    BY <1>1, <1>5, <1>10, <2>2, <2>3, RepairConstants DEF TypeOK
  <2>8. RowsHavePlans'
    BY <1>10, <2>0, <2>2, <2>5, <2>6 DEF RowsHavePlans
  <2>9. TypeInv'
    BY <1>1, <2>6, <2>7, <2>8
    DEF ThreadsHoldRows, TriggersHoldRows, TypeOK, Worker, Trigger
  <2>10. action[x].rev \in Nat /\ q.rev > action[x].rev
    BY <1>10, <2>2 DEF TypeOK, ActionRow
  <2>11. \A a \in Actions : action'[a].status = "OBSERVED"
           => action[a].status = "OBSERVED" \/ a \in observed
    BY <1>10, <2>2, <2>5
  <2> QED
    BY <1>1, <1>10, <2>3, <2>5, <2>6, <2>9, <2>10, <2>11, RepairConstants DEF Wrote
<1>11. CASE x \in Obls
  <2>1. q \in OblRow
    BY <1>2, <1>3, <1>11, Kinds, RepairConstants, RepairRequests, PatchedObl DEF new
  <2>2. /\ UNCHANGED <<goal, task, plan, action>>
        /\ obligation' = [obligation EXCEPT ![x] = q]
    BY <1>4, <1>11, RepairConstants DEF Replace
  <2>3. TypeOK'
    BY <1>1, <1>11, <2>1, <2>2 DEF TypeOK
  <2> QED
    BY <1>1, <1>6, <1>11, <2>2, <2>3, RepairConstants DEF Wrote, Exists
<1> QED
  BY <1>1, <1>7, <1>8, <1>9, <1>10, <1>11 DEF Objects

-----------------------------------------------------------------------------
(* A step of the core, as the humans and the threads see it.               *)

\* An attempt's row appears once, and then changes only with a fresh revision.
RowMove(a) ==
  \/ action'[a] = action[a]
  \/ Exists(a) /\ Exists(a)' /\ action'[a].rev > action[a].rev
  \/ ~Exists(a) /\ action'[a].status = "PENDING"

\* A thread lets its attempt go, takes one up, starts it or runs its capability,
\* and knows each time the revision its attempt then has.
ThreadMove(w) ==
  \/ worker'[w] = worker[w]
  \/ worker'[w] = Idle
  \/ /\ worker'[w].pc = "holding"
     /\ worker'[w].rev = action[worker'[w].action].rev
     /\ action[worker'[w].action].status = "PENDING"
     /\ UNCHANGED action
  \/ /\ worker'[w].pc = "begun"
     /\ worker'[w].rev = action'[worker'[w].action].rev
     /\ action'[worker'[w].action].status = "EXECUTING"
  \/ /\ worker[w].pc = "begun"
     /\ worker'[w].pc \in {"returned", "no_effect", "raised"}
     /\ worker'[w].action = worker[w].action
     /\ worker'[w].rev = worker[w].rev
     /\ worker'[w].pc = "returned" => effect'[worker[w].action] > 0
     /\ UNCHANGED action

\* Effects are not undone, and only an attempt whose capability has returned
\* gets an Observation.
WorldMove ==
  /\ \A a \in Actions : effect'[a] >= effect[a]
  /\ \A a \in Actions : action'[a].status = "OBSERVED"
       => action[a].status = "OBSERVED" \/ a \in observed'
  /\ observed \subseteq observed'
  /\ \A a \in observed' \ observed :
       \E w \in Workers : worker[w].pc = "returned" /\ worker[w].action = a

CoreMoves ==
  /\ \A t \in Tasks : task'[t] = task[t] \/ task'[t].rev > task[t].rev
  /\ \A a \in Actions : RowMove(a)
  /\ \A w \in Workers : ThreadMove(w)
  /\ WorldMove

\* Every write of the work service to a task bumps its revision.
LEMMA WorkBumps ==
  ASSUME TypeOK, WorkNext
  PROVE  \A t \in Tasks : task'[t] = task[t] \/ task'[t].rev > task[t].rev
<1>1. ASSUME NEW t \in Tasks, NEW p, Point(t, p)
      PROVE  \A u \in Tasks : task'[u] = task[u] \/ task'[u].rev > task[u].rev
  BY <1>1 DEF Point, TypeOK, TaskRow
<1>2. ASSUME NEW t \in Tasks, NEW target, CloseTask(t, target)
      PROVE  \A u \in Tasks : task'[u] = task[u] \/ task'[u].rev > task[u].rev
  BY <1>2 DEF CloseTask, TypeOK, TaskRow
<1>3. ASSUME NEW t \in Tasks, NEW target, transition_task(t, target) \/ freeze_task(t)
      PROVE  \A u \in Tasks : task'[u] = task[u] \/ task'[u].rev > task[u].rev
  BY <1>3 DEF transition_task, freeze_task, TypeOK, TaskRow
<1> QED
  BY <1>1, <1>2, <1>3
  DEF WorkNext, activate_plan, supersede_plan, complete_task, terminate_task,
      complete_goal, terminate_goal, transition_goal, freeze_goal, transition_plan,
      CloseGoal

\* A step that leaves the attempts, the threads and the world alone moves none.
LEMMA NothingMoves ==
  ASSUME TypeOK, UNCHANGED <<action, worker, effect, observed>>
  PROVE  /\ \A a \in Actions : RowMove(a)
         /\ \A w \in Workers : ThreadMove(w)
         /\ WorldMove
BY DEF TypeOK, RowMove, ThreadMove, WorldMove

\* Writing a status moves that row.
LEMMA SetStatusBumps ==
  ASSUME TypeOK, NEW a \in Actions, Exists(a), NEW target \in ActionStatus,
         SetStatus(a, target)
  PROVE  /\ \A b \in Actions : RowMove(b)
         /\ action'[a].status = target
         /\ action'[a].rev = action[a].rev + 1
         /\ \A b \in Actions \ {a} : action'[b] = action[b]
BY NamedStatuses DEF TypeOK, ActionRow, SetStatus, RowMove, Exists

\* The host's and the threads' steps are such moves.
LEMMA ExecutionBumps ==
  ASSUME TypeInv,
         \/ \E a \in Actions : ActionStep(a)
         \/ \E w \in Workers : Executing(w) \/ \E a \in Actions : hold_action(w, a)
  PROVE  CoreMoves
<1> USE DEF TypeInv
<1>1. ASSUME NEW a \in Actions, NEW p \in Plans, create_action(a, p)
      PROVE  CoreMoves
  <2>1. \A b \in Actions : /\ RowMove(b)
                        /\ \/ action'[b].status # "OBSERVED"
                           \/ action'[b] = action[b]
    BY <1>1 DEF create_action, Insert, RowMove, Exists, TypeOK
  <2> QED
    BY <1>1, <2>1 DEF create_action, CoreMoves, RowMove, ThreadMove, WorldMove, TypeOK
<1>2. ASSUME NEW a \in Actions, cancel_action(a)
      PROVE  CoreMoves
  <2>1. Exists(a)
    BY <1>2, CancelsUnsettled DEF cancel_action, MayBecome, Exists
  <2> QED
    BY <1>2, <2>1, SetStatusBumps, NamedStatuses
    DEF cancel_action, CoreMoves, ThreadMove, WorldMove, TypeOK
<1>3. ASSUME NEW a \in Actions, freeze_action(a)
      PROVE  CoreMoves
  <2>1. \A b \in Actions : RowMove(b) /\ action'[b].status = action[b].status
    BY <1>3 DEF freeze_action, RowMove, Exists, TypeOK, ActionRow
  <2> QED
    BY <1>3, <2>1 DEF freeze_action, CoreMoves, ThreadMove, WorldMove, TypeOK
<1>4. ASSUME NEW w \in Workers, NEW a \in Actions, hold_action(w, a)
      PROVE  CoreMoves
  <2>1. \A v \in Workers : ThreadMove(v)
    BY <1>4 DEF hold_action, rowVars, ThreadMove, TypeOK
  <2> QED
    BY <1>4, <2>1, NothingMoves
    DEF hold_action, rowVars, workVars, CoreMoves, RowMove, WorldMove, TypeOK
<1>5. ASSUME NEW w \in Workers, begin_rejected(w) \/ report_rejected(w)
      PROVE  CoreMoves
  <2>1. \A v \in Workers : ThreadMove(v)
    BY <1>5 DEF begin_rejected, report_rejected, ThreadMove, TypeOK
  <2> QED
    BY <1>5, <2>1
    DEF begin_rejected, report_rejected, rowVars, workVars, CoreMoves, RowMove,
        WorldMove, TypeOK
<1>6. ASSUME NEW w \in Workers,
             capability_returns(w) \/ capability_refuses(w) \/ capability_raises(w)
      PROVE  CoreMoves
  <2>1. worker[w].pc = "begun" /\ worker[w].action \in Actions
    BY <1>6 DEF capability_returns, capability_refuses, capability_raises, ThreadsHoldRows
  <2>2. \A a \in Actions : effect'[a] >= effect[a]
    BY <1>6, <2>1 DEF capability_returns, capability_refuses, capability_raises, TypeOK
  <2>3. worker'[w].pc = "returned" => effect'[worker[w].action] > 0
    BY <1>6, <2>1
    DEF capability_returns, capability_refuses, capability_raises, TypeOK, Worker
  <2>4. /\ worker'[w].pc \in {"returned", "no_effect", "raised"}
        /\ worker'[w].action = worker[w].action
        /\ worker'[w].rev = worker[w].rev
        /\ \A v \in Workers \ {w} : worker'[v] = worker[v]
        /\ UNCHANGED rowVars
    BY <1>6 DEF capability_returns, capability_refuses, capability_raises, TypeOK, Worker
  <2> QED
    BY <2>1, <2>2, <2>3, <2>4
    DEF rowVars, workVars, CoreMoves, RowMove, ThreadMove, WorldMove
<1>7. ASSUME NEW w \in Workers, begin_executing(w)
      PROVE  CoreMoves
  <2> DEFINE a == worker[w].action
  <2>1. a \in Actions /\ Exists(a) /\ worker[w].rev = action[a].rev
    BY <1>7 DEF begin_executing, ThreadsHoldRows
  <2>2. /\ \A b \in Actions : RowMove(b)
        /\ action'[a].status = "EXECUTING"
        /\ action'[a].rev = action[a].rev + 1
        /\ \A b \in Actions \ {a} : action'[b] = action[b]
    BY <1>7, <2>1, SetStatusBumps, NamedStatuses DEF begin_executing
  <2>3. /\ worker'[w].pc = "begun"
        /\ worker'[w].action = a
        /\ worker'[w].rev = worker[w].rev + 1
        /\ \A v \in Workers \ {w} : worker'[v] = worker[v]
    BY <1>7 DEF begin_executing, TypeOK, Worker
  <2>4. \A v \in Workers : ThreadMove(v)
    BY <2>1, <2>2, <2>3 DEF ThreadMove
  <2> QED
    BY <1>7, <2>2, <2>4 DEF begin_executing, CoreMoves, WorldMove, TypeOK
<1>8. ASSUME NEW w \in Workers,
             mark_observed(w) \/ mark_failed(w) \/ mark_unknown_outcome(w)
      PROVE  CoreMoves
  <2> DEFINE a == worker[w].action
  <2>1. a \in Actions /\ Exists(a)
    BY <1>8 DEF mark_observed, mark_failed, mark_unknown_outcome, ThreadsHoldRows
  <2>2. PICK target \in {"OBSERVED", "FAILED", "UNKNOWN_OUTCOME"} :
          /\ SetStatus(a, target)
          /\ target = "OBSERVED" => worker[w].pc = "returned" /\ observed' = observed \cup {a}
          /\ target # "OBSERVED" => UNCHANGED observed
    BY <1>8 DEF mark_observed, mark_failed, mark_unknown_outcome, unknown_outcome
  <2>3. /\ \A b \in Actions : RowMove(b)
        /\ action'[a].status = target
        /\ \A b \in Actions \ {a} : action'[b] = action[b]
    BY <2>1, <2>2, SetStatusBumps, NamedStatuses
  <2>4. \A v \in Workers : ThreadMove(v)
    BY <1>8 DEF mark_observed, mark_failed, mark_unknown_outcome, ThreadMove, TypeOK
  <2>5. UNCHANGED <<task, effect>>
    BY <1>8 DEF mark_observed, mark_failed, mark_unknown_outcome
  <2> QED
    BY <2>1, <2>2, <2>3, <2>4, <2>5 DEF CoreMoves, WorldMove, TypeOK
<1> QED
  BY <1>1, <1>2, <1>3, <1>4, <1>5, <1>6, <1>7, <1>8 DEF ActionStep, Executing

\* Retries, crashes, restarts and recovery are such moves.
LEMMA RetryAndProcessBumps ==
  ASSUME TypeInv,
         \/ \E c \in Triggers : RetryStep(c)
         \/ crash \/ restart \/ Recovering
         \/ /\ \E a \in Actions : recover_freezes(a)
            /\ \A a \in observed : Exists(a)
  PROVE  CoreMoves
<1> USE DEF TypeInv
<1>1. ASSUME NEW c \in Triggers, retry_action(c)
      PROVE  CoreMoves
  <2>1. \A t \in Tasks : task'[t] = task[t] \/ task'[t].rev > task[t].rev
    BY <1>1 DEF retry_action, ChargeRetry, TypeOK, TaskRow
  <2>2. PICK b \in Actions : Insert(b, action[trigger[c].action].plan, trigger[c].action)
    BY <1>1 DEF retry_action
  <2>3. \A d \in Actions : /\ RowMove(d)
                        /\ \/ action'[d].status # "OBSERVED"
                           \/ action'[d] = action[d]
    BY <2>2 DEF Insert, RowMove, Exists, TypeOK
  <2> QED
    BY <1>1, <2>1, <2>3
    DEF retry_action, CoreMoves, RowMove, ThreadMove, WorldMove, TypeOK
<1>2. ASSUME NEW a \in Actions, recover_marks(a)
      PROVE  CoreMoves
  <2>1. Exists(a)
    BY <1>2, SettlesFromExecuting DEF recover_marks, Uncertain, MayBecome, Exists
  <2> QED
    BY <1>2, <2>1, SetStatusBumps, NamedStatuses
    DEF recover_marks, unknown_outcome, CoreMoves, ThreadMove, WorldMove, TypeOK
<1>3. ASSUME NEW a \in Actions, recover_freezes(a), \A b \in observed : Exists(b)
      PROVE  CoreMoves
  <2>1. Exists(a)
    <3>1. a \notin observed => classify_action_state(a) # "INTEGRITY_VIOLATION"
      BY DEF classify_action_state
    <3> QED
      BY <1>3, <3>1 DEF recover_freezes, Mismatched
  <2>2. \A b \in Actions : RowMove(b) /\ action'[b].status = action[b].status
    BY <1>3, <2>1 DEF recover_freezes, RowMove, Exists, TypeOK, ActionRow
  <2> QED
    BY <1>3, <2>2 DEF recover_freezes, CoreMoves, ThreadMove, WorldMove, TypeOK
<1>4. ASSUME UNCHANGED <<rowVars, effect>>,
             worker' = worker \/ worker' = [w \in Workers |-> Idle]
      PROVE  CoreMoves
  BY <1>4
  DEF rowVars, workVars, CoreMoves, RowMove, ThreadMove, WorldMove, TypeOK
<1> QED
  BY <1>1, <1>2, <1>3, <1>4
  DEF RetryStep, decide_retry, retry_rejected, crash, restart, Recovering,
      recover_skips, recovered
\* A step of the core, or of a recovery after repairs.
CoreOrFreeze == [Next]_vars \/ \E a \in Actions : recover_freezes(a)

\* A core step or a freeze by recovery keeps the types and moves rows only as CoreMoves says.
LEMMA CoreStepMoves ==
  ASSUME TypeInv, \A a \in observed : Exists(a), CoreOrFreeze
  PROVE  TypeInv' /\ CoreMoves
<1>1. ASSUME NEW a \in Actions, recover_freezes(a)
      PROVE  TypeInv'
  <2>1. /\ action' \in [Actions -> ActionRow]
        /\ RowsHavePlans'
        /\ \A b \in Actions : Exists(b)' <=> Exists(b)
    BY <1>1
    DEF recover_freezes, TypeInv, TypeOK, ActionRow, IntegrityStatus, RowsHavePlans, Exists
  <2> QED
    BY <1>1, <2>1
    DEF recover_freezes, TypeInv, TypeOK, ThreadsHoldRows, TriggersHoldRows, Worker, Trigger
<1>2. TypeInv'
  BY <1>1, StepKeepsTypes DEF CoreOrFreeze
<1>3. ASSUME action' = action, worker' = worker, effect' = effect, observed' = observed,
             \A t \in Tasks : task'[t] = task[t] \/ task'[t].rev > task[t].rev
      PROVE  CoreMoves
  BY <1>3, NothingMoves DEF CoreMoves, TypeInv
<1>4. CASE WorkStep
  BY <1>2, <1>3, <1>4, WorkBumps DEF WorkStep, TypeInv
<1>5. CASE ObligationStep \/ UNCHANGED vars
  BY <1>2, <1>3, <1>5 DEF ObligationStep, vars, rowVars, workVars
<1> QED
  BY <1>2, <1>4, <1>5, ExecutionBumps, RetryAndProcessBumps
  DEF CoreOrFreeze, Next, Serving
-----------------------------------------------------------------------------
(* The invariant.                                                          *)

\* Who looked at a row knows a revision it has had; if it is still the row's
\* revision, the row is still the one that was seen.
FreshInv ==
  \A h \in Humans :
    LET x == sight[h].object IN
    /\ x \in Tasks => /\ sight[h].rev <= task[x].rev
                      /\ sight[h].rev = task[x].rev => sight[h].fresh
    /\ x \in Actions => /\ sight[h].rev <= action[x].rev
                        /\ sight[h].rev = action[x].rev => sight[h].fresh

\* A thread knows a revision its attempt has had; if it still has it, the
\* attempt is in the state the thread left it in.
AuthInv ==
  \A w \in Workers : worker[w].pc # "idle" =>
    LET a == worker[w].action IN
    /\ worker[w].rev <= action[a].rev
    /\ worker[w].rev = action[a].rev =>
         action[a].status = IF worker[w].pc = "holding" THEN "PENDING" ELSE "EXECUTING"

\* Whatever has an Observation had its effect, and so has whatever a thread
\* is about to observe; what does not exist is not frozen.
RealInv ==
  /\ \A a \in observed : Exists(a) /\ effect[a] > 0
  /\ \A a \in Actions : action[a].status = "OBSERVED" => a \in observed
  /\ \A w \in Workers : worker[w].pc = "returned" => effect[worker[w].action] > 0
  /\ \A a \in Actions : ~Exists(a) => action[a].integrity = "OK"

RepairInv == RepairTypes /\ FreshInv /\ AuthInv /\ RealInv

\* Initially nobody has looked at anything and no thread is busy.
LEMMA RepairInitially ==
  ASSUME RepairInit
  PROVE  RepairInv
<1>1. TypeInv
  BY TypesInitially DEF RepairInit
<1>2. SightInv /\ FreshInv
  BY RepairConstants DEF RepairInit, SightInv, FreshInv, Sight, Blind
<1>3. AuthInv /\ RealInv
  BY NamedStatuses DEF RepairInit, Init, NoRow, Idle, AuthInv, RealInv
<1> QED
  BY <1>1, <1>2, <1>3 DEF RepairInv, RepairTypes

\* The core's moves keep what threads know of their attempts.
LEMMA MovesKeepAuthority ==
  ASSUME TypeInv, TypeInv', AuthInv, CoreMoves
  PROVE  AuthInv'
<1> SUFFICES ASSUME NEW w \in Workers, worker'[w].pc # "idle",
                    NEW a, a = worker'[w].action
             PROVE  /\ worker'[w].rev <= action'[a].rev
                    /\ worker'[w].rev = action'[a].rev =>
                         action'[a].status = IF worker'[w].pc = "holding"
                                             THEN "PENDING" ELSE "EXECUTING"
  BY DEF AuthInv
<1> USE DEF TypeInv
<1>1. /\ a \in Actions
      /\ Exists(a)'
      /\ action[a].rev \in Nat /\ action'[a].rev \in Nat
      /\ worker[w].rev \in Nat
  BY DEF ThreadsHoldRows, TypeOK, ActionRow, Worker
<1>2. CASE worker'[w] = worker[w]
  <2>1. Exists(a) /\ worker[w].rev <= action[a].rev
    BY <1>2 DEF ThreadsHoldRows, AuthInv
  <2>2. action'[a] = action[a] \/ action'[a].rev > action[a].rev
    BY <1>1, <2>1 DEF CoreMoves, RowMove
  <2> QED
    BY <1>1, <1>2, <2>1, <2>2 DEF AuthInv
<1>3. CASE worker'[w] # worker[w]
  <2>1. ThreadMove(w) /\ worker'[w] # Idle
    BY DEF CoreMoves, Idle
  <2> QED
    BY <1>1, <1>3, <2>1 DEF ThreadMove, AuthInv
<1> QED
  BY <1>2, <1>3

\* The core's moves keep Observations true.
LEMMA MovesKeepReal ==
  ASSUME TypeInv, TypeInv', RealInv, CoreMoves
  PROVE  RealInv'
<1> USE DEF TypeInv
<1>1. \A a \in Actions : effect[a] > 0 => effect'[a] > 0
  BY DEF CoreMoves, WorldMove, TypeOK
<1>2. \A a \in Actions : Exists(a) => Exists(a)'
  BY NamedStatuses DEF CoreMoves, RowMove, Exists
<1>3. \A w \in Workers : worker[w].pc = "returned" =>
        worker[w].action \in Actions /\ Exists(worker[w].action)
  BY DEF ThreadsHoldRows
<1>4. \A a \in observed' : Exists(a)' /\ effect'[a] > 0
  BY <1>1, <1>2, <1>3 DEF CoreMoves, WorldMove, RealInv, TypeOK
<1>5. \A a \in Actions : action'[a].status = "OBSERVED" => a \in observed'
  BY DEF CoreMoves, WorldMove, RealInv
<1>6. \A w \in Workers : worker'[w].pc = "returned" => effect'[worker'[w].action] > 0
  BY <1>1, <1>3 DEF CoreMoves, ThreadMove, RealInv, Idle
<1>7. \A a \in Actions : ~Exists(a)' => action'[a].integrity = "OK"
  BY NamedStatuses DEF CoreMoves, RowMove, Exists, RealInv
<1> QED
  BY <1>4, <1>5, <1>6, <1>7 DEF RealInv
-----------------------------------------------------------------------------
(* The steps.                                                              *)

\* A step of the core keeps the invariant (CoreStep).
LEMMA CoreKeepsRepairInv ==
  ASSUME RepairInv, CoreStep
  PROVE  RepairInv'
<1> USE DEF RepairInv
<1>1. TypeInv /\ SightInv /\ \A a \in observed : Exists(a)
  BY DEF RepairTypes, RealInv
<1>2. CoreOrFreeze
  BY DEF CoreStep, RecoveringAfterRepair, CoreOrFreeze, Next, Recovering
<1>3. TypeInv' /\ CoreMoves
  BY <1>1, <1>2, CoreStepMoves
<1>4. AuthInv' /\ RealInv'
  BY <1>1, <1>3, MovesKeepAuthority, MovesKeepReal
<1>5. \A h \in Humans :
        /\ sight'[h].object = sight[h].object
        /\ sight'[h].rev = sight[h].rev
        /\ sight'[h].fresh = (sight[h].fresh /\ \A x \in Objects :
                                 x = sight[h].object => Row(x)' = Row(x))
  BY <1>1 DEF CoreStep, SightInv, Sight
<1>6. SightInv'
  <2>1. sight' \in [Humans -> Sight]
    BY <1>1 DEF CoreStep, SightInv, Sight
  <2>2. \A a \in Actions : Exists(a) => Exists(a)'
    BY <1>3, NamedStatuses DEF CoreMoves, RowMove, Exists
  <2>3. \A h \in Humans : sight[h] = Blind => sight'[h] = Blind
    <3> SUFFICES ASSUME NEW h \in Humans, sight[h] = Blind
                 PROVE  sight'[h] = Blind
      OBVIOUS
    <3>1. sight[h].fresh = FALSE
      BY DEF Blind
    <3>2. sight'[h].fresh = FALSE
      BY <1>5, <3>1
    <3>3. sight'[h] = [object |-> sight'[h].object, rev |-> sight'[h].rev,
                       fresh |-> sight'[h].fresh]
      BY <2>1 DEF Sight
    <3>4. sight'[h].object = Nothing /\ sight'[h].rev = 0
      BY <1>5 DEF Blind
    <3> QED
      BY <3>2, <3>3, <3>4, Zenon DEF Blind
  <2>4. repairs' = repairs
    BY DEF CoreStep
  <2> QED
    BY <1>1, <1>5, <2>1, <2>2, <2>3, <2>4 DEF SightInv
<1>7. FreshInv'
  <2> SUFFICES ASSUME NEW h \in Humans, NEW x, x = sight[h].object
               PROVE  /\ x \in Tasks =>
                           /\ sight[h].rev <= task'[x].rev
                           /\ sight[h].rev = task'[x].rev => sight'[h].fresh
                      /\ x \in Actions =>
                           /\ sight[h].rev <= action'[x].rev
                           /\ sight[h].rev = action'[x].rev => sight'[h].fresh
    BY <1>5 DEF FreshInv
  <2>1. sight[h].rev \in Nat
    BY <1>1 DEF SightInv, Sight
  <2>2. CASE x \in Tasks
    <3>1. task[x].rev \in Nat /\ task'[x].rev \in Nat
      BY <1>1, <1>3, <2>2 DEF TypeInv, TypeOK, TaskRow
    <3>2. task'[x] = task[x] \/ task'[x].rev > task[x].rev
      BY <1>3, <2>2 DEF CoreMoves
    <3>3. task'[x] = task[x] => Row(x)' = Row(x)
      BY <2>2, Kinds, KindsPrimed DEF Objects
    <3>4. task'[x] = task[x] /\ sight[h].fresh => sight'[h].fresh
      BY <1>5, <3>3
    <3>5. x \notin Actions
      BY <2>2, RepairConstants
    <3> QED
      BY <2>1, <2>2, <3>1, <3>2, <3>4, <3>5 DEF FreshInv
  <2>3. CASE x \in Actions
    <3>1. action[x].rev \in Nat /\ action'[x].rev \in Nat /\ Exists(x)
      BY <1>1, <1>3, <2>3 DEF TypeInv, TypeOK, ActionRow, SightInv
    <3>2. action'[x] = action[x] \/ action'[x].rev > action[x].rev
      BY <1>3, <2>3, <3>1 DEF CoreMoves, RowMove
    <3>3. action'[x] = action[x] => Row(x)' = Row(x)
      BY <2>3, Kinds, KindsPrimed DEF Objects
    <3>4. action'[x] = action[x] /\ sight[h].fresh => sight'[h].fresh
      BY <1>5, <3>3
    <3>5. x \notin Tasks
      BY <2>3, RepairConstants
    <3> QED
      BY <2>1, <2>3, <3>1, <3>2, <3>4, <3>5 DEF FreshInv
  <2> QED
    BY <2>2, <2>3
<1> QED
  BY <1>3, <1>4, <1>6, <1>7 DEF RepairTypes

\* A repair is a Write.
LEMMA RepairIsWrite ==
  ASSUME RepairTypes, NEW h \in Humans,
         \/ \E target \in RepairTargets(sight[h].object) : repair_object(h, target)
         \/ abandon_unrepairable(h)
  PROVE  Wrote(sight[h].object) /\ Commit(h) /\ RevisionMatches(h)
<1> DEFINE o == sight[h].object
<1>1. PICK x : x = o
  OBVIOUS
<1>2. CASE abandon_unrepairable(h)
  <2> DEFINE target == [integrity |-> "ABANDONED_UNREPAIRABLE"]
  <2>1. PICK r : r = target
    OBVIOUS
  <2>2. Write(h, r, TRUE) /\ HasIntegrity(x)
    BY <1>1, <1>2, <2>1 DEF abandon_unrepairable, Write
  <2>3. "status" \notin DOMAIN r /\ "owner" \notin DOMAIN r
    BY <2>1
  <2>4. x \notin Obls
    BY <2>2, RepairConstants DEF HasIntegrity
  <2> QED
    BY <1>1, <1>2, <2>1, <2>2, <2>3, <2>4, RepairWrites DEF abandon_unrepairable
<1>3. ASSUME NEW target \in RepairTargets(sight[h].object), repair_object(h, target)
      PROVE  Wrote(sight[h].object) /\ Commit(h) /\ RevisionMatches(h)
  <2>1. PICK ends \in BOOLEAN : ends = (x \notin Obls /\ Terminal(x, Patched(x, target).status))
    OBVIOUS
  <2>2. Write(h, target, ends)
    BY <1>1, <1>3, <2>1 DEF repair_object, Write
  <2>3. /\ x \in Actions /\ "status" \in DOMAIN target /\ target.status = "OBSERVED"
             => x \in observed
        /\ x \in Obls /\ "owner" \in DOMAIN target => target.owner \in Owners
    BY <1>1, <1>3 DEF repair_object, Substantiated, AggregateAllows
  <2> QED
    BY <1>1, <1>3, <2>1, <2>2, <2>3, RepairWrites DEF repair_object
<1> QED
  BY <1>2, <1>3
\* A human's step keeps the invariant (repair.py).
LEMMA HumanKeepsRepairInv ==
  ASSUME RepairInv, NEW h \in Humans,
         \/ look(h)
         \/ \E target \in RepairTargets(sight[h].object) : repair_object(h, target)
         \/ abandon_unrepairable(h)
         \/ repair_rejected(h)
  PROVE  RepairInv'
<1> USE DEF RepairInv
<1>1. TypeInv /\ SightInv
  BY DEF RepairTypes
<1>2. ASSUME vars' = vars
      PROVE  TypeInv' /\ AuthInv' /\ RealInv'
  BY <1>1, <1>2
  DEF vars, rowVars, workVars, procVars, TypeInv, TypeOK, RowsHavePlans,
      ThreadsHoldRows, TriggersHoldRows, Exists, AuthInv, RealInv
<1>3. CASE look(h)
  <2>1. vars' = vars
    BY <1>3 DEF look
  <2>2. PICK x \in Objects :
          /\ InStore(x)
          /\ sight' = [sight EXCEPT ![h] =
                         [object |-> x, rev |-> IF HasRevision(x) THEN Row(x).rev ELSE 0,
                          fresh |-> TRUE]]
    BY <1>3 DEF look
  <2>3. /\ x \in Tasks => Row(x) = task[x] /\ Row(x).rev \in Nat
        /\ x \in Actions => Row(x) = action[x] /\ Row(x).rev \in Nat /\ Exists(x)
    BY <1>1, <2>2, Kinds DEF TypeInv, TypeOK, TaskRow, ActionRow, InStore, Exists
  <2>4. SightInv'
    BY <1>1, <1>3, <2>1, <2>2, <2>3, RepairConstants
    DEF look, SightInv, Sight, HasRevision, Objects, vars, rowVars, Exists
  <2>5. FreshInv'
    BY <1>1, <2>1, <2>2, <2>3
    DEF SightInv, FreshInv, HasRevision, vars, rowVars, workVars
  <2> QED
    BY <1>2, <2>1, <2>4, <2>5 DEF RepairTypes
<1>4. CASE repair_rejected(h)
  <2>1. vars' = vars /\ \A k \in Humans : sight'[k] = IF k = h THEN Blind ELSE sight[k]
    BY <1>1, <1>4 DEF repair_rejected, SightInv
  <2>2. SightInv'
    BY <1>1, <1>4, <2>1, RepairConstants
    DEF repair_rejected, SightInv, Sight, Blind, Objects, vars, rowVars, Exists
  <2>3. FreshInv'
    BY <2>1, RepairConstants DEF FreshInv, Blind, vars, rowVars, workVars
  <2> QED
    BY <1>2, <2>1, <2>2, <2>3 DEF RepairTypes
<1>5. CASE \/ \E target \in RepairTargets(sight[h].object) : repair_object(h, target)
           \/ abandon_unrepairable(h)
  <2>1. PICK x : x = sight[h].object
    OBVIOUS
  <2>2. Wrote(x) /\ Commit(h)
    BY <1>5, <2>1, RepairIsWrite
  <2>3. TypeInv'
    BY <2>2 DEF Wrote
  <2>4. \A k \in Humans \ {h} :
          /\ sight'[k].object = sight[k].object
          /\ sight'[k].rev = sight[k].rev
          /\ sight'[k].fresh = (sight[k].fresh /\ sight[k].object # x)
    BY <1>1, <2>1, <2>2 DEF Commit, SightInv, Sight
  <2>5. sight'[h] = Blind
    BY <2>2 DEF Commit
  <2>6. SightInv'
    <3>1. sight' \in [Humans -> Sight]
      BY <1>1, <2>2, RepairConstants DEF Commit, SightInv, Sight, Blind, Objects
    <3>2. \A k \in Humans \ {h} : sight[k] = Blind => sight'[k] = Blind
      <4> SUFFICES ASSUME NEW k \in Humans \ {h}, sight[k] = Blind
                   PROVE  sight'[k] = Blind
        OBVIOUS
      <4>1. sight[k].fresh = FALSE
        BY DEF Blind
      <4>2. sight'[k].fresh = FALSE
        BY <2>4, <4>1
      <4>3. sight'[k] = [object |-> sight'[k].object, rev |-> sight'[k].rev,
                         fresh |-> sight'[k].fresh]
        BY <3>1 DEF Sight
      <4>4. sight'[k].object = Nothing /\ sight'[k].rev = 0
        BY <2>4 DEF Blind
      <4> QED
        BY <4>2, <4>3, <4>4, Zenon DEF Blind
    <3>3. Nothing \notin Actions
      BY RepairConstants
    <3>4. repairs' \in Nat
      BY <1>1, <2>2 DEF SightInv, Commit
    <3> QED
      BY <1>1, <2>2, <2>4, <2>5, <3>1, <3>2, <3>3, <3>4 DEF SightInv, Wrote, Blind
  <2>7. FreshInv'
    <3> SUFFICES ASSUME NEW k \in Humans \ {h}, NEW y, y = sight[k].object
                 PROVE  /\ y \in Tasks =>
                             /\ sight[k].rev <= task'[y].rev
                             /\ sight[k].rev = task'[y].rev => sight'[k].fresh
                        /\ y \in Actions =>
                             /\ sight[k].rev <= action'[y].rev
                             /\ sight[k].rev = action'[y].rev => sight'[k].fresh
      BY <2>4, <2>5, RepairConstants DEF FreshInv, Blind
    <3>1. /\ y \in Tasks => task[y].rev \in Nat /\ task'[y].rev \in Nat
          /\ y \in Actions => action[y].rev \in Nat /\ action'[y].rev \in Nat
          /\ sight[k].rev \in Nat
      BY <1>1, <2>3 DEF TypeInv, TypeOK, TaskRow, ActionRow, SightInv, Sight
    <3>2. CASE y = x
      <4>1. /\ y \in Tasks => task'[y].rev > task[y].rev /\ sight[k].rev <= task[y].rev
            /\ y \in Actions => action'[y].rev > action[y].rev /\ sight[k].rev <= action[y].rev
        BY <2>2, <3>2 DEF FreshInv, Wrote
      <4> QED
        BY <3>1, <4>1
    <3>3. CASE y # x
      BY <2>2, <3>1, <3>3, <2>4 DEF FreshInv, Wrote
    <3> QED
      BY <3>2, <3>3
  <2>8. AuthInv'
    <3>1. \A w \in Workers : worker[w].pc # "idle" =>
            /\ worker[w].action \in Actions
            /\ worker[w].rev \in Nat
            /\ action[worker[w].action].rev \in Nat
            /\ action'[worker[w].action].rev \in Nat
      BY <1>1, <2>3 DEF TypeInv, TypeOK, ThreadsHoldRows, Worker, ActionRow
    <3> QED
      BY <2>2, <3>1 DEF Wrote, AuthInv
  <2>9. RealInv'
    <3>1. \A a \in Actions : ~Exists(a)' => ~Exists(a) /\ a # x
      BY <1>1, <2>1, <2>2 DEF Wrote, SightInv
    <3> QED
      BY <1>1, <2>2, <3>1 DEF Wrote, RealInv, TypeInv, TypeOK
  <2> QED
    BY <2>3, <2>6, <2>7, <2>8, <2>9 DEF RepairTypes
<1> QED
  BY <1>3, <1>4, <1>5

\* Every step keeps the invariant.
LEMMA StepKeepsRepairInv ==
  ASSUME RepairInv, [RepairNext]_repairVars
  PROVE  RepairInv'
<1>1. CASE UNCHANGED repairVars
  BY <1>1
  DEF repairVars, vars, rowVars, workVars, procVars, RepairInv, RepairTypes, SightInv,
      FreshInv, AuthInv, RealInv, TypeInv, TypeOK, RowsHavePlans, ThreadsHoldRows,
      TriggersHoldRows, Exists
<1> QED
  BY <1>1, CoreKeepsRepairInv, HumanKeepsRepairInv DEF RepairNext

\* Every reachable state satisfies the invariant.
THEOREM RepairInvariance == RepairSpec => []RepairInv
  BY RepairInitially, StepKeepsRepairInv, PTL DEF RepairSpec

-----------------------------------------------------------------------------
(* The theorems.                                                           *)

\* A repair replaces the row its human looked at and no later one, for any
\* number of humans, threads and repairs (repair_object, abandon_unrepairable).
THEOREM RepairsAreInformed == RepairSpec => RepairsWhatWasSeen
<1> DEFINE A == Repairing => \A h \in Humans :
                  sight[h] # Blind /\ sight'[h] = Blind => sight[h].fresh
<1>1. ASSUME RepairInv, RepairNext, Repairing, NEW h \in Humans,
             sight[h] # Blind, sight'[h] = Blind
      PROVE  sight[h].fresh
  <2>1. RepairTypes /\ FreshInv /\ repairs' # repairs
    BY <1>1 DEF RepairInv, Repairing
  <2>2. PICK k \in Humans :
          \/ \E target \in RepairTargets(sight[k].object) : repair_object(k, target)
          \/ abandon_unrepairable(k)
    BY <1>1, <2>1 DEF RepairNext, CoreStep, look, repair_rejected
  <2>3. Commit(k) /\ RevisionMatches(k)
    BY <2>1, <2>2, RepairIsWrite
  <2>4. CASE h = k
    <3>1. PICK x : x = sight[h].object
      OBVIOUS
    <3>2. x \in Tasks => Row(x) = task[x]
      BY Kinds
    <3>3. x \in Actions => Row(x) = action[x]
      BY Kinds
    <3> QED
      BY <2>1, <2>3, <2>4, <3>1, <3>2, <3>3 DEF RevisionMatches, HasRevision, FreshInv
  <2>5. CASE h # k
    <3>1. sight'[h].object = sight[h].object
      BY <2>1, <2>3, <2>5 DEF Commit, RepairTypes, SightInv, Sight
    <3>2. sight[h].object = Nothing
      BY <1>1, <3>1 DEF Blind
    <3> QED
      BY <1>1, <2>1, <3>2 DEF RepairTypes, SightInv
  <2> QED
    BY <2>4, <2>5
<1>2. RepairInv /\ [RepairNext]_repairVars => [A]_repairVars
  BY <1>1
<1> QED
  BY <1>2, RepairInvariance, PTL DEF RepairSpec, RepairsWhatWasSeen

\* No repair leaves a thread with authority over an attempt that is not in the
\* state the thread left it in (repair_object bumps the revision).
THEOREM AuthorityStaysCurrent == RepairSpec => []AuthorityIsCurrent
<1>1. RepairInv => AuthorityIsCurrent
  BY DEF RepairInv, AuthInv, AuthorityIsCurrent
<1> QED
  BY <1>1, RepairInvariance, PTL

\* No sequence of repairs, attempts and crashes fabricates an observed attempt
\* (Law 29).
THEOREM ObservationsAreReal == RepairSpec => []ObservedIsReal
<1>1. RepairInv => ObservedIsReal
  BY DEF RepairInv, RealInv, ObservedIsReal
<1> QED
  BY <1>1, RepairInvariance, PTL
\* A human's step is a repair, a look or a rejection; only the first touches
\* rows, and only while the process is up.
LEMMA HumanSteps ==
  ASSUME NEW h \in Humans,
         \/ look(h)
         \/ \E target \in RepairTargets(sight[h].object) : repair_object(h, target)
         \/ abandon_unrepairable(h)
         \/ repair_rejected(h)
  PROVE  \/ vars' = vars /\ repairs' = repairs
         \/ process = "up" /\ Commit(h) /\ repairs' = repairs + 1
BY DEF look, repair_rejected, repair_object, abandon_unrepairable, Commit

\* Recovery settles no attempt that has an Observation, whatever a repair has
\* made of its status (recover).
THEOREM RecoveryDoesNotGuess == RepairSpec => RecoveryNeverGuesses
<1> DEFINE A == process = "recovering" =>
                  \A a \in observed : action'[a].status = action[a].status
<1>1. ASSUME RepairInv, RepairNext, process = "recovering", NEW a \in observed
      PROVE  action'[a].status = action[a].status
  <2>1. TypeOK /\ a \in Actions
    BY <1>1 DEF RepairInv, RepairTypes, TypeInv, TypeOK
  <2>2. CASE UNCHANGED action
    BY <2>2
  <2>3. ASSUME NEW b \in Actions, recover_freezes(b)
        PROVE  action'[a].status = action[a].status
    BY <2>1, <2>3 DEF recover_freezes, TypeOK, ActionRow
  <2>4. ASSUME NEW b \in Actions, recover_marks(b), ~Mismatched(b)
        PROVE  action'[a].status = action[a].status
    <3>1. action[b].status = "EXECUTING"
      BY <2>4, SettlesFromExecuting DEF recover_marks, Uncertain, MayBecome
    <3>2. a # b
      BY <2>4, <3>1 DEF Mismatched, classify_action_state
    <3> QED
      BY <2>1, <2>4, <3>2 DEF recover_marks, unknown_outcome, SetStatus, TypeOK
  <2>5. CASE CoreStep
    BY <1>1, <2>2, <2>3, <2>4, <2>5
    DEF CoreStep, Serving, RecoveringAfterRepair, crash, restart, recover_skips,
        recovered, rowVars
  <2> QED
    BY <1>1, <2>2, <2>5, HumanSteps DEF RepairNext, vars, rowVars
<1>2. RepairInv /\ [RepairNext]_repairVars => [A]_repairVars
  BY <1>1
<1> QED
  BY <1>2, RepairInvariance, PTL DEF RepairSpec, RecoveryNeverGuesses

\* Whichever operation ends a goal or a task hands its subtree over, repair
\* included, if transition_object is not called with terminal targets.
THEOREM RepairedEndingsHandOver ==
  ASSUME GoalTargets \cap GOAL_TERMINAL = {}, TaskTargets \cap TASK_TERMINAL = {}
  PROVE  RepairSpec => EndingHandsOver
<1> DEFINE Over(x) == \A o \in Obls : Open(o)' => obligation'[o].owner \notin Subtree(x)
           A == \A x \in Goals \cup Tasks :
                  ~Terminal(x, Row(x).status) /\ Terminal(x, Row(x).status)' => Over(x)
<1>0. ASSUME NEW x \in Goals \cup Tasks
      PROVE  /\ x \in Goals => /\ Terminal(x, Row(x).status) <=> goal[x].status \in GOAL_TERMINAL
                               /\ Terminal(x, Row(x).status)' <=> goal'[x].status \in GOAL_TERMINAL
             /\ x \in Tasks => /\ Terminal(x, Row(x).status) <=> task[x].status \in TASK_TERMINAL
                               /\ Terminal(x, Row(x).status)' <=> task'[x].status \in TASK_TERMINAL
  <2>1. /\ x \in Goals => Row(x) = goal[x] /\ Row(x)' = goal'[x]
        /\ x \in Tasks => Row(x) = task[x] /\ Row(x)' = task'[x]
    BY Kinds, KindsPrimed DEF Objects
  <2> QED
    BY <2>1, RepairConstants DEF Terminal
<1>1. ASSUME TypeOK, NEW x \in Goals \cup Tasks, TransferSubtree(x)
      PROVE  Over(x)
  BY <1>1, WorkConstants, ObligationConstants DEF TransferSubtree, Open, Subtree, TypeOK, OblRow
<1>2. ASSUME RepairInv, CoreStep
      PROVE  A
  <2>1. CASE [Next]_vars
    <3>1. Moves /\ TypeOK
      BY <1>2, <2>1, StepMoves DEF RepairInv, RepairTypes, TypeInv
    <3> QED
      BY <1>0, <1>1, <3>1, RepairConstants DEF Moves, TaskMove, GoalMove
  <2>2. CASE UNCHANGED <<goal, task>>
    BY <1>0, <2>2
  <2> QED
    BY <1>2, <2>1, <2>2 DEF CoreStep, RecoveringAfterRepair, Next, Recovering, recover_freezes
<1>3. ASSUME RepairInv, NEW h \in Humans,
             \/ \E target \in RepairTargets(sight[h].object) : repair_object(h, target)
             \/ abandon_unrepairable(h)
      PROVE  A
  <2>1. PICK y, row, ends :
          /\ ends \in BOOLEAN
          /\ Replace(y, row, ends)
          /\ y \in Goals \cup Tasks /\ Terminal(y, row.status) => ends
    <3>1. ASSUME NEW target, repair_object(h, target)
          PROVE  \E y, row, ends :
                   /\ ends \in BOOLEAN
                   /\ Replace(y, row, ends)
                   /\ y \in Goals \cup Tasks /\ Terminal(y, row.status) => ends
      <4> DEFINE x == sight[h].object
                 new == Patched(x, target)
                 over == x \notin Obls /\ Terminal(x, new.status)
      <4>1. Replace(x, new, over) /\ over \in BOOLEAN
        BY <3>1 DEF repair_object
      <4>2. x \in Goals \cup Tasks /\ Terminal(x, new.status) => over
        BY RepairConstants
      <4> HIDE DEF x, new, over
      <4> QED
        BY <4>1, <4>2
    <3>2. ASSUME abandon_unrepairable(h)
          PROVE  \E y, row, ends :
                   /\ ends \in BOOLEAN
                   /\ Replace(y, row, ends)
                   /\ y \in Goals \cup Tasks /\ Terminal(y, row.status) => ends
      <4>1. \E y, row : Replace(y, row, TRUE)
        BY <3>2 DEF abandon_unrepairable
      <4> QED
        BY <4>1
    <3> QED
      BY <1>3, <3>1, <3>2
  <2>2. TypeOK
    BY <1>3 DEF RepairInv, RepairTypes, TypeInv
  <2> SUFFICES ASSUME NEW x \in Goals \cup Tasks,
                      ~Terminal(x, Row(x).status), Terminal(x, Row(x).status)'
               PROVE  Over(x)
    OBVIOUS
  <2>3. x = y
    BY <1>0, <2>1, <2>2 DEF Replace, TypeOK
  <2>4. Terminal(x, row.status)
    BY <1>0, <2>1, <2>2, <2>3, RepairConstants DEF Replace, TypeOK, Terminal
  <2> QED
    BY <1>1, <2>1, <2>2, <2>3, <2>4 DEF Replace
<1>4. ASSUME vars' = vars
      PROVE  A
  BY <1>0, <1>4 DEF vars, rowVars, workVars
<1>5. RepairInv /\ [RepairNext]_repairVars => [A]_repairVars
  BY <1>2, <1>3, <1>4 DEF RepairNext, look, repair_rejected
<1> QED
  BY <1>5, RepairInvariance, PTL DEF RepairSpec, EndingHandsOver
-----------------------------------------------------------------------------
(* What is frozen waits.                                                   *)

\* What an operation may do to a task, a goal or an attempt whose integrity is
\* in doubt.
TaskWaits(t) == task[t].integrity # "OK" =>
                  task'[t].status = task[t].status /\ task'[t].integrity # "OK"
GoalWaits(g) == goal[g].integrity # "OK" =>
                  goal'[g].status = goal[g].status /\ goal'[g].integrity # "OK"
ActionWaits(a) == action[a].integrity = "FROZEN" =>
                    /\ action'[a].integrity = "FROZEN"
                    /\ action'[a].status \in {action[a].status, "CANCELLED", "FAILED"}

\* Every operation of the work service asks for integrity before it moves a
\* status, and none clears a freeze.
LEMMA WorkWaits ==
  ASSUME TypeOK, WorkNext
  PROVE  /\ \A t \in Tasks : TaskWaits(t)
         /\ \A g \in Goals : GoalWaits(g)
<1>1. ASSUME NEW t \in Tasks, NEW p, Point(t, p)
      PROVE  \A u \in Tasks : TaskWaits(u)
  BY <1>1 DEF Point, TypeOK, TaskRow, TaskWaits
<1>2. ASSUME NEW t \in Tasks, NEW target, CloseTask(t, target), task[t].integrity = "OK"
      PROVE  \A u \in Tasks : TaskWaits(u)
  BY <1>2 DEF CloseTask, TypeOK, TaskRow, TaskWaits
<1>3. ASSUME NEW t \in Tasks, NEW target, transition_task(t, target) \/ freeze_task(t)
      PROVE  \A u \in Tasks : TaskWaits(u)
  BY <1>3 DEF transition_task, freeze_task, TypeOK, TaskRow, TaskWaits
<1>4. ASSUME NEW g \in Goals, NEW target, CloseGoal(g, target), goal[g].integrity = "OK"
      PROVE  \A k \in Goals : GoalWaits(k)
  BY <1>4 DEF CloseGoal, TypeOK, GoalRow, GoalWaits
<1>5. ASSUME NEW g \in Goals, NEW target, transition_goal(g, target) \/ freeze_goal(g)
      PROVE  \A k \in Goals : GoalWaits(k)
  BY <1>5 DEF transition_goal, freeze_goal, TypeOK, GoalRow, GoalWaits
<1>6. goal' = goal => \A g \in Goals : GoalWaits(g)
  BY DEF GoalWaits
<1>7. task' = task => \A t \in Tasks : TaskWaits(t)
  BY DEF TaskWaits
<1>8. CASE \E t \in Tasks :
             \/ \E p \in Plans : activate_plan(t, p)
             \/ \E old, new \in Plans : supersede_plan(t, old, new)
  BY <1>1, <1>6, <1>8 DEF activate_plan, supersede_plan
<1>9. CASE \E t \in Tasks :
             \/ complete_task(t)
             \/ \E target \in {"CANCELLED", "ARCHIVED"} : terminate_task(t, target)
  BY <1>2, <1>6, <1>9 DEF complete_task, terminate_task, CloseTask
<1>10. CASE \E t \in Tasks :
              \/ \E target \in TaskTargets : transition_task(t, target)
              \/ freeze_task(t)
  BY <1>3, <1>6, <1>10 DEF transition_task, freeze_task
<1>11. CASE \E g \in MovedGoals :
              \/ complete_goal(g)
              \/ \E target \in {"CANCELLED", "ARCHIVED"} : terminate_goal(g, target)
  BY <1>4, <1>7, <1>11, WorkConstants DEF complete_goal, terminate_goal, CloseGoal
<1>12. CASE \E g \in MovedGoals :
              \/ \E target \in GoalTargets : transition_goal(g, target)
              \/ freeze_goal(g)
  BY <1>5, <1>7, <1>12, WorkConstants DEF transition_goal, freeze_goal
<1>13. CASE \E p \in Plans : \E target \in PlanTargets : transition_plan(p, target)
  BY <1>6, <1>7, <1>13 DEF transition_plan
<1> QED
  BY <1>8, <1>9, <1>10, <1>11, <1>12, <1>13 DEF WorkNext

\* A status write to an attempt that is not frozen, or one that cancels it or
\* fails it, leaves the frozen ones waiting.
LEMMA SetStatusWaits ==
  ASSUME TypeOK, NEW a \in Actions, NEW target, SetStatus(a, target),
         action[a].integrity # "FROZEN" \/ target \in {"CANCELLED", "FAILED"}
  PROVE  \A b \in Actions : ActionWaits(b)
BY DEF TypeOK, ActionRow, SetStatus, ActionWaits

\* No step of the core moves or clears what is frozen, except that an attempt
\* can still be cancelled or have failed.
LEMMA CoreWaits ==
  ASSUME TypeInv, RealInv, CoreOrFreeze
  PROVE  /\ \A t \in Tasks : TaskWaits(t)
         /\ \A g \in Goals : GoalWaits(g)
         /\ \A a \in Actions : ActionWaits(a)
<1> DEFINE All == /\ \A t \in Tasks : TaskWaits(t)
                  /\ \A g \in Goals : GoalWaits(g)
                  /\ \A a \in Actions : ActionWaits(a)
<1> USE DEF TypeInv
<1>1. ASSUME goal' = goal, task' = task
      PROVE  (\A t \in Tasks : TaskWaits(t)) /\ (\A g \in Goals : GoalWaits(g))
  BY <1>1 DEF TaskWaits, GoalWaits
<1>2. ASSUME action' = action
      PROVE  \A a \in Actions : ActionWaits(a)
  BY <1>2 DEF ActionWaits
<1>3. ASSUME NEW a \in Actions, NEW p, NEW origin, Insert(a, p, origin)
      PROVE  \A b \in Actions : ActionWaits(b)
  BY <1>3 DEF Insert, ActionWaits, RealInv, Exists, TypeOK
<1>4. CASE WorkStep
  BY <1>2, <1>4, WorkWaits DEF WorkStep
<1>5. CASE ObligationStep
  BY <1>1, <1>2, <1>5 DEF ObligationStep, workVars
<1>6. ASSUME NEW a \in Actions, ActionStep(a)
      PROVE  All
  <2>1. freeze_action(a) => \A b \in Actions : ActionWaits(b)
    BY DEF freeze_action, ActionWaits, TypeOK, ActionRow
  <2> QED
    BY <1>1, <1>3, <1>6, <2>1, SetStatusWaits DEF ActionStep, create_action, cancel_action, freeze_action
<1>7. ASSUME NEW w \in Workers,
             \/ begin_executing(w)
             \/ mark_observed(w)
             \/ mark_unknown_outcome(w)
             \/ mark_failed(w)
      PROVE  All
  <2>1. worker[w].action \in Actions
    BY <1>7
    DEF begin_executing, mark_observed, mark_unknown_outcome, mark_failed, ThreadsHoldRows
  <2>2. \A a \in Actions : ActionWaits(a)
    BY <1>7, <2>1, SetStatusWaits
    DEF begin_executing, mark_observed, mark_unknown_outcome, mark_failed, Observable,
        Uncertain, unknown_outcome
  <2> QED
    BY <1>1, <1>7, <2>2
    DEF begin_executing, mark_observed, mark_unknown_outcome, mark_failed
<1>8. ASSUME rowVars' = rowVars
      PROVE  All
  BY <1>1, <1>2, <1>8 DEF rowVars
<1>9. ASSUME NEW w \in Workers,
             \/ Executing(w)
             \/ \E a \in Actions : hold_action(w, a)
      PROVE  All
  BY <1>7, <1>8, <1>9
  DEF Executing, hold_action, begin_rejected, report_rejected, capability_returns,
      capability_refuses, capability_raises
<1>10. ASSUME NEW c \in Triggers, RetryStep(c)
       PROVE  All
  <2>1. CASE retry_action(c)
    <3>1. \A t \in Tasks : TaskWaits(t)
      BY <2>1 DEF retry_action, ChargeRetry, TaskWaits, TypeOK, TaskRow
    <3>2. \A g \in Goals : GoalWaits(g)
      BY <2>1 DEF retry_action, GoalWaits
    <3> QED
      BY <1>3, <2>1, <3>1, <3>2 DEF retry_action
  <2> QED
    BY <1>8, <1>10, <2>1 DEF RetryStep, decide_retry, retry_rejected
<1>11. ASSUME NEW a \in Actions, recover_marks(a)
       PROVE  All
  <2>1. \A b \in Actions : ActionWaits(b)
    BY <1>11, SetStatusWaits DEF recover_marks, Uncertain, unknown_outcome
  <2> QED
    BY <1>1, <1>11, <2>1 DEF recover_marks
<1>12. ASSUME NEW a \in Actions, recover_freezes(a)
       PROVE  All
  <2>1. \A b \in Actions : ActionWaits(b)
    BY <1>12 DEF recover_freezes, ActionWaits, TypeOK, ActionRow
  <2> QED
    BY <1>1, <1>12, <2>1 DEF recover_freezes
<1>13. CASE crash \/ restart \/ Recovering
  BY <1>8, <1>11, <1>13 DEF crash, restart, Recovering, recover_skips, recovered
<1>14. CASE UNCHANGED vars
  BY <1>8, <1>14 DEF vars
<1> QED
  BY <1>4, <1>5, <1>6, <1>9, <1>10, <1>12, <1>13, <1>14 DEF CoreOrFreeze, Next, Serving

\* Only a repair moves or clears a goal or a task in doubt, and a frozen
\* attempt can otherwise only be cancelled or have failed (Law 5).
THEOREM FreezesHold == RepairSpec => FrozenWaitsForRepair
<1> DEFINE A == ~Repairing =>
                  /\ \A x \in Goals \cup Tasks : Row(x).integrity # "OK" =>
                       Row(x)'.status = Row(x).status /\ Row(x)'.integrity # "OK"
                  /\ \A a \in Actions : action[a].integrity = "FROZEN" =>
                       /\ action'[a].integrity = "FROZEN"
                       /\ action'[a].status \in {action[a].status, "CANCELLED", "FAILED"}
<1>1. ASSUME \A t \in Tasks : TaskWaits(t), \A g \in Goals : GoalWaits(g),
             \A a \in Actions : ActionWaits(a)
      PROVE  A
  <2>1. ASSUME NEW x \in Goals \cup Tasks
        PROVE  /\ x \in Goals => Row(x) = goal[x] /\ Row(x)' = goal'[x]
               /\ x \in Tasks => Row(x) = task[x] /\ Row(x)' = task'[x]
    BY Kinds, KindsPrimed DEF Objects
  <2>2. ASSUME NEW x \in Goals \cup Tasks, Row(x).integrity # "OK"
        PROVE  Row(x)'.status = Row(x).status /\ Row(x)'.integrity # "OK"
    BY <1>1, <2>1, <2>2 DEF TaskWaits, GoalWaits
  <2> QED
    BY <1>1, <2>2 DEF ActionWaits
<1>2. ASSUME RepairInv, CoreStep
      PROVE  A
  <2>1. CoreOrFreeze
    BY <1>2 DEF CoreStep, RecoveringAfterRepair, CoreOrFreeze, Next, Recovering
  <2> QED
    BY <1>1, <1>2, <2>1, CoreWaits DEF RepairInv, RepairTypes
<1>3. ASSUME vars' = vars
      PROVE  A
  BY <1>1, <1>3 DEF vars, rowVars, workVars, TaskWaits, GoalWaits, ActionWaits
<1>4. ASSUME repairs' # repairs
      PROVE  A
  BY <1>4 DEF Repairing
<1>5. ASSUME NEW h \in Humans,
             \/ look(h)
             \/ \E target \in RepairTargets(sight[h].object) : repair_object(h, target)
             \/ abandon_unrepairable(h)
             \/ repair_rejected(h)
      PROVE  A \/ ~RepairInv
  <2>1. CASE vars' = vars
    BY <1>3, <2>1
  <2>2. ASSUME RepairInv, repairs' = repairs + 1
        PROVE  A
    BY <1>4, <2>2 DEF RepairInv, RepairTypes, SightInv
  <2> QED
    BY <1>5, <2>1, <2>2, HumanSteps
<1>6. RepairInv /\ [RepairNext]_repairVars => [A]_repairVars
  BY <1>2, <1>5 DEF RepairNext
<1> QED
  BY <1>6, RepairInvariance, PTL DEF RepairSpec, FrozenWaitsForRepair
=============================================================================
