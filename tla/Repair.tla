-------------------------------- MODULE Repair --------------------------------
(***************************************************************************)
(* Integrity repair (v5/repair.py) composed with the whole execution core: *)
(* a human reads an object, and later patches it, or abandons it, in one   *)
(* transaction that is checked against the revision the human saw.  It is  *)
(* the only operation outside the transition tables, so everything the     *)
(* core is careful about can meet it in any state.                         *)
(*                                                                         *)
(* Tasks and actions carry their revision, which is what repair.py         *)
(* compares.  `fresh` records whether the row is still the one the human   *)
(* read: for goals, plans and obligations, whose revisions are left out    *)
(* and whose every write bumps them, it stands for that comparison; for    *)
(* tasks and actions no operation reads it.                                *)
(***************************************************************************)
EXTENDS Core

CONSTANTS Humans,          \* authorized humans
          Nothing,         \* "no object"
          GoalRepairs,     \* the target states humans ask for, by kind: each a
          TaskRepairs,     \* record with some of the row's repairable fields
          PlanRepairs,
          ActionRepairs,
          OblRepairs,
          MaxRepairs       \* bound: no human looks after so many repairs

\* Ids carry their kind (new_id).  A request names repairable fields only
\* (_REPAIRABLE_FIELDS; the retry budget and the fields that have no place in
\* the rows here are left out); that it gives them values of their kind is up
\* to the human, for the schema has no CHECK.
ASSUME RepairConstants ==
  /\ MaxRepairs \in Nat
  /\ Nothing \notin Goals \cup Tasks \cup Plans \cup Actions \cup Obls
  /\ Goals \cap (Tasks \cup Plans \cup Actions \cup Obls) = {}
  /\ Tasks \cap (Plans \cup Actions \cup Obls) = {}
  /\ Plans \cap (Actions \cup Obls) = {}
  /\ Actions \cap Obls = {}

ASSUME RepairRequests ==
  /\ \A r \in GoalRepairs \cup TaskRepairs \cup ActionRepairs :
       "integrity" \in DOMAIN r => r.integrity \in IntegrityStatus
  /\ \A r \in GoalRepairs :
       /\ DOMAIN r \subseteq {"status", "integrity"}
       /\ "status" \in DOMAIN r => r.status \in GoalStatus
  /\ \A r \in TaskRepairs :
       /\ DOMAIN r \subseteq {"status", "integrity", "active"}
       /\ "status" \in DOMAIN r => r.status \in TaskStatus
       /\ "active" \in DOMAIN r => r.active \in Plans \cup {NoPlan}
  /\ \A r \in PlanRepairs :
       /\ DOMAIN r \subseteq {"status", "successor"}
       /\ "status" \in DOMAIN r => r.status \in PlanStatus
       /\ "successor" \in DOMAIN r => r.successor \in Plans \cup {NoPlan}
  /\ \A r \in ActionRepairs :
       /\ DOMAIN r \subseteq {"status", "integrity"}
       /\ "status" \in DOMAIN r => r.status \in ActionStatus
  /\ \A r \in OblRepairs :
       /\ DOMAIN r \subseteq {"owner", "disposition"}
       /\ "disposition" \in DOMAIN r => r.disposition \in Disposition \ {"ABSENT"}

VARIABLES sight,     \* human -> what it looked at: object, rev, fresh
          repairs    \* how many repairs have been committed

repairVars == <<vars, sight, repairs>>

Objects == Goals \cup Tasks \cup Plans \cup Actions \cup Obls

\* _object_type and the SELECT of the row.
Row(x) == CASE x \in Goals   -> goal[x]
            [] x \in Tasks   -> task[x]
            [] x \in Plans   -> plan[x]
            [] x \in Actions -> action[x]
            [] x \in Obls    -> obligation[x]

InStore(x) == /\ x \in Actions => action[x].status # "ABSENT"
              /\ x \in Obls => obligation[x].disposition # "ABSENT"

HasIntegrity(x) == x \in Goals \cup Tasks \cup Actions
HasRevision(x)  == x \in Tasks \cup Actions

Terminal(x, status) ==
  \/ x \in Goals /\ status \in GOAL_TERMINAL
  \/ x \in Tasks /\ status \in TASK_TERMINAL
  \/ x \in Plans /\ status \in PLAN_TERMINAL
  \/ x \in Actions /\ status \in ACTION_TERMINAL

RepairTargets(x) == CASE x \in Goals   -> GoalRepairs
                      [] x \in Tasks   -> TaskRepairs
                      [] x \in Plans   -> PlanRepairs
                      [] x \in Actions -> ActionRepairs
                      [] x \in Obls    -> OblRepairs
                      [] OTHER         -> {}

Blind == [object |-> Nothing, rev |-> 0, fresh |-> FALSE]

\* The human reads the object it is going to repair.
look(h) ==
  \E x \in Objects :
    /\ repairs < MaxRepairs
    /\ InStore(x)
    /\ sight[h].object = Nothing
    /\ sight' = [sight EXCEPT ![h] =
                   [object |-> x, rev |-> IF HasRevision(x) THEN Row(x).rev ELSE 0,
                    fresh |-> TRUE]]
    /\ UNCHANGED <<vars, repairs>>

\* Mutant: the revision the human saw is not compared.
RevisionMatches_Vacuous(h) == sight[h].object # Nothing

RevisionMatches(h) ==
  LET x == sight[h].object IN
  IF HasRevision(x) THEN Row(x).rev = sight[h].rev ELSE sight[h].fresh

-----------------------------------------------------------------------------
(* repair_object.                                                          *)

\* Mutant: a human's word is enough.
Substantiated_Always(x, target) == TRUE

\* Law 29: no fabricated Observation-backed state.
Substantiated(x, target) ==
  x \in Actions /\ "status" \in DOMAIN target /\ target.status = "OBSERVED"
    => x \in observed

\* _validate_aggregate (Law 30).
AggregateAllows(x, target) ==
  /\ x \in Tasks /\ "active" \in DOMAIN target =>
       LET cur == task[x].active
           new == target.active IN
       /\ new # NoPlan => PlanTask[new] = x /\ plan[new].status \in {"DRAFT", "BLOCKED"}
       /\ cur \notin {NoPlan, new} =>
            plan[cur].status \in {"SUPERSEDED", "CANCELLED", "FAILED"}
  /\ x \in Plans /\ "status" \in DOMAIN target /\ target.status = "SUPERSEDED" =>
         NoPlan # IF "successor" \in DOMAIN target THEN target.successor
                                                  ELSE plan[x].successor
  /\ x \in Obls /\ "owner" \in DOMAIN target => target.owner \in Owners

\* Mutant: the revision is left as it was.
Patched_SameRevision(x, target) ==
  LET row == Row(x) IN
  [f \in DOMAIN row |->
     IF f \in DOMAIN target THEN target[f]
     ELSE IF f = "integrity" /\ row[f] = "FROZEN" THEN "OK" ELSE row[f]]

\* The fields asked for, a fresh revision, and a FROZEN object unfrozen.
Patched(x, target) ==
  LET row == Row(x) IN
  [f \in DOMAIN row |->
     CASE f \in DOMAIN target                       -> target[f]
       [] f = "rev"                                 -> row.rev + 1
       [] f = "integrity" /\ row.integrity = "FROZEN" -> "OK"
       [] OTHER                                     -> row[f]]

\* Mutant: nobody hands over the obligations of what a repair ends.
Replace_KeepsObligations(x, row, ends) ==
  /\ goal'   = IF x \in Goals THEN [goal EXCEPT ![x] = row] ELSE goal
  /\ task'   = IF x \in Tasks THEN [task EXCEPT ![x] = row] ELSE task
  /\ plan'   = IF x \in Plans THEN [plan EXCEPT ![x] = row] ELSE plan
  /\ action' = IF x \in Actions THEN [action EXCEPT ![x] = row] ELSE action
  /\ obligation' = IF x \in Obls THEN [obligation EXCEPT ![x] = row] ELSE obligation

\* The row is written; if it ends the object, the OPEN obligations of its
\* subtree leave in the same transaction.
Replace(x, row, ends) ==
  /\ goal'   = IF x \in Goals THEN [goal EXCEPT ![x] = row] ELSE goal
  /\ task'   = IF x \in Tasks THEN [task EXCEPT ![x] = row] ELSE task
  /\ plan'   = IF x \in Plans THEN [plan EXCEPT ![x] = row] ELSE plan
  /\ action' = IF x \in Actions THEN [action EXCEPT ![x] = row] ELSE action
  /\ IF ends THEN TransferSubtree(x)
     ELSE obligation' = IF x \in Obls THEN [obligation EXCEPT ![x] = row]
                                      ELSE obligation

\* The authorization is spent; others who looked at the object see it age.
Commit(h) ==
  /\ repairs' = repairs + 1
  /\ sight' = [k \in Humans |->
                 IF k = h THEN Blind
                 ELSE [sight[k] EXCEPT !.fresh = @ /\ sight[k].object # sight[h].object]]
  /\ UNCHANGED <<observed, effect, worker, trigger, procVars>>

repair_object(h, target) ==
  LET x   == sight[h].object
      row == Patched(x, target) IN
  /\ process = "up"
  /\ x # Nothing
  /\ target \in RepairTargets(x)
  /\ RevisionMatches(h)
  /\ Substantiated(x, target)
  /\ AggregateAllows(x, target)
  /\ Replace(x, row, x \notin Obls /\ Terminal(x, row.status))
  /\ Commit(h)

abandon_unrepairable(h) ==
  LET x == sight[h].object IN
  /\ process = "up"
  /\ x # Nothing
  /\ HasIntegrity(x)
  /\ RevisionMatches(h)
  /\ Row(x).integrity # "ABANDONED_UNREPAIRABLE"
  /\ Replace(x, Patched(x, [integrity |-> "ABANDONED_UNREPAIRABLE"]), TRUE)
  /\ Commit(h)

\* STALE_REPAIR and the other rejections: the human has to look again.
repair_rejected(h) ==
  /\ sight[h].object # Nothing
  /\ sight' = [sight EXCEPT ![h] = Blind]
  /\ UNCHANGED <<vars, repairs>>

-----------------------------------------------------------------------------
(* Recovery meets rows that only a repair can leave behind: an attempt     *)
(* that is EXECUTING although it has an Observation.                       *)

Mismatched(a) == classify_action_state(a) = "INTEGRITY_VIOLATION"

\* Mutant: recovery doubts what was observed.
recover_freezes_Marks(a) ==
  /\ a \in stuck
  /\ Mismatched(a)
  /\ SetStatus(a, "UNKNOWN_OUTCOME")
  /\ stuck' = stuck \ {a}
  /\ UNCHANGED <<obligation, goal, task, plan, observed, effect, worker, trigger, process, crashes>>

\* Integrity first: freeze, never guess.
recover_freezes(a) ==
  /\ a \in stuck
  /\ Mismatched(a)
  /\ action' = [action EXCEPT ![a].integrity = "FROZEN", ![a].rev = @ + 1]
  /\ stuck' = stuck \ {a}
  /\ UNCHANGED <<obligation, goal, task, plan, observed, effect, worker, trigger, process, crashes>>

RecoveringAfterRepair ==
  /\ process = "recovering"
  /\ \/ \E a \in Actions :
          \/ recover_freezes(a)
          \/ ~Mismatched(a) /\ (recover_marks(a) \/ recover_skips(a))
     \/ recovered

\* A step of the core ages what the humans have looked at.
CoreStep ==
  /\ Serving \/ crash \/ restart \/ RecoveringAfterRepair
  /\ sight' = [h \in Humans |->
                 [sight[h] EXCEPT !.fresh = @ /\ \A x \in Objects :
                    x = sight[h].object => Row(x)' = Row(x)]]
  /\ UNCHANGED repairs

RepairInit ==
  /\ Init
  /\ sight = [h \in Humans |-> Blind]
  /\ repairs = 0

RepairNext ==
  \/ CoreStep
  \/ \E h \in Humans :
       \/ look(h)
       \/ \E target \in RepairTargets(sight[h].object) : repair_object(h, target)
       \/ abandon_unrepairable(h)
       \/ repair_rejected(h)

RepairSpec == RepairInit /\ [][RepairNext]_repairVars

-----------------------------------------------------------------------------
(* What makes repair safe.                                                 *)

Repairing == repairs' # repairs

\* Law 30 (repair_object, abandon_unrepairable): a repair replaces the row its
\* human looked at and no later one, though the check compares revisions only. Of two
\* humans who looked at the same row one wins, and no operation of the core
\* changes a row under an unchanged revision.
RepairsWhatWasSeen ==
  [][Repairing => \A h \in Humans :
       sight[h] # Blind /\ sight'[h] = Blind => sight[h].fresh]_repairVars

\* Law 30, "invalidates all pre-repair execution authority": a thread whose
\* remembered revision is still that of its attempt finds the attempt in the
\* state in which the thread left it, whatever was repaired meanwhile.
AuthorityIsCurrent ==
  \A w \in Workers :
    LET a == worker[w].action IN
    worker[w].pc # "idle" /\ worker[w].rev = action[a].rev =>
      action[a].status = IF worker[w].pc = "holding" THEN "PENDING" ELSE "EXECUTING"

\* Law 29: no sequence of repairs, attempts and crashes produces an OBSERVED
\* attempt without an Observation and an effect.
ObservedIsReal ==
  \A a \in Actions :
    action[a].status = "OBSERVED" => a \in observed /\ effect[a] > 0

\* Law 20: whichever operation ends a goal or a task, repair included, the
\* OPEN obligations of its subtree leave in that step.
EndingHandsOver ==
  [][\A x \in Goals \cup Tasks :
       ~Terminal(x, Row(x).status) /\ Terminal(x, Row(x).status)' =>
         \A o \in Obls : Open(o)' => obligation'[o].owner \notin Subtree(x)]_repairVars

\* Law 5 (freeze_object, freeze_action): only a repair moves a goal or a task
\* that is FROZEN or abandoned, or makes it OK again. A FROZEN attempt can
\* still be cancelled or found to have failed, and nothing else.
FrozenWaitsForRepair ==
  [][~Repairing =>
       /\ \A x \in Goals \cup Tasks : Row(x).integrity # "OK" =>
            Row(x)'.status = Row(x).status /\ Row(x)'.integrity # "OK"
       /\ \A a \in Actions : action[a].integrity = "FROZEN" =>
            /\ action'[a].integrity = "FROZEN"
            /\ action'[a].status \in {action[a].status, "CANCELLED", "FAILED"}]_repairVars

\* Law 9 after a repair (recover): recovery settles no attempt that has an
\* Observation, it freezes it.
RecoveryNeverGuesses ==
  [][process = "recovering" =>
       \A a \in observed : action'[a].status = action[a].status]_repairVars
=============================================================================
