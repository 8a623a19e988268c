----------------------------- MODULE Obligations -----------------------------
(***************************************************************************)
(* The obligations service (v5/obligations.py): one row per unresolved     *)
(* external outcome, owned by a task or by the Unresolved Obligations      *)
(* Registry (UOR).  Every operation is one write transaction, so it is one *)
(* action.  The row's revision is not kept: its compare-and-set is always  *)
(* made against a value read for that very call, so an accepted call is    *)
(* one whose caller had read the current row.  The event history and the   *)
(* free-text fields are left out.                                          *)
(***************************************************************************)
EXTENDS Lifecycle

CONSTANTS Goals,      \* goal ids
          Tasks,      \* task ids
          TaskGoal,   \* the goal each task belongs to
          Actions,    \* action ids
          Obls,       \* obligation ids
          HostObls,   \* the ids create_obligation may mint; marking an unknown
                      \* outcome mints the others (bounds the rows)
          UOR,        \* the registry sentinel
          NoAction    \* "no action"

ASSUME ObligationConstants ==
  /\ TaskGoal \in [Tasks -> Goals]
  /\ HostObls \subseteq Obls
  /\ UOR \notin Tasks \cup Goals
  /\ NoAction \notin Actions

VARIABLE obligation   \* id -> row; disposition "ABSENT" before the row exists

Owners      == Tasks \cup {UOR}
Disposition == {"ABSENT", "OPEN", "RESOLVED", "ABANDONED"}
OblRow      == [disposition: Disposition, owner: Owners,
                origin: Actions \cup {NoAction}]
NoObl       == [disposition |-> "ABSENT", owner |-> UOR, origin |-> NoAction]

Open(o) == obligation[o].disposition = "OPEN"

\* save_new_obligation, inside the caller's transaction.
Mint(o, a, owner) ==
  /\ obligation[o].disposition = "ABSENT"
  /\ obligation' = [obligation EXCEPT ![o] =
                      [disposition |-> "OPEN", owner |-> owner, origin |-> a]]

\* The owners open_obligations_in_subtree_locked looks under: a task is its own
\* subtree, a goal's subtree is the tasks that belong to it.
Subtree(obj) == IF obj \in Tasks THEN {obj}
                ELSE {t \in Tasks : TaskGoal[t] = obj}

\* Mutant: looks under the object itself only, not under a goal's tasks.
TransferSubtree_Shallow(obj) ==
  obligation' = [o \in Obls |->
                   IF Open(o) /\ obligation[o].owner = obj
                   THEN [obligation[o] EXCEPT !.owner = UOR]
                   ELSE obligation[o]]

\* transfer_subtree_obligations_to_uor_locked, inside a terminal transition.
TransferSubtree(obj) ==
  obligation' = [o \in Obls |->
                   IF Open(o) /\ obligation[o].owner \in Subtree(obj)
                   THEN [obligation[o] EXCEPT !.owner = UOR]
                   ELSE obligation[o]]

create_obligation(o, a, owner) ==
  /\ o \in HostObls
  /\ Mint(o, a, owner)

\* Mutant: forgets that only an OPEN obligation may move.
transfer_obligation_Disposed(o, new_owner, expected_owner) ==
  /\ obligation[o].disposition # "ABSENT"
  /\ obligation[o].owner # new_owner
  /\ obligation[o].owner = expected_owner
  /\ new_owner \in Owners
  /\ obligation' = [obligation EXCEPT ![o].owner = new_owner]

\* Transferring to the current owner is an Ok no-op, that is a stuttering step.
transfer_obligation(o, new_owner, expected_owner) ==
  /\ Open(o)
  /\ obligation[o].owner # new_owner
  /\ obligation[o].owner = expected_owner
  /\ new_owner \in Owners
  /\ obligation' = [obligation EXCEPT ![o].owner = new_owner]

abandon_obligation(o) ==
  /\ Open(o)
  /\ obligation' = [obligation EXCEPT ![o].disposition = "ABANDONED"]

\* Mutant: any PASS verification resolves, whatever action it is about.
resolve_obligation_Unrelated(o, witnessed) ==
  /\ Open(o)
  /\ obligation' = [obligation EXCEPT ![o].disposition = "RESOLVED"]

\* `witnessed` are the actions for which an Observation row exists: a PASS
\* verification can cite runtime evidence of no other action.
resolve_obligation(o, witnessed) ==
  /\ Open(o)
  /\ obligation[o].origin \in witnessed
  /\ obligation' = [obligation EXCEPT ![o].disposition = "RESOLVED"]
=============================================================================
