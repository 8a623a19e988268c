------------------------------ MODULE Evidence ------------------------------
(***************************************************************************)
(* The chain from an observed action to a resolved obligation: the         *)
(* evidence service (v5/evidence.py), the verification methods             *)
(* (v5/verification.py) and the provenance walk of resolve_obligation      *)
(* (v5/obligations.py).                                                    *)
(*                                                                         *)
(* The file system belongs to everybody: anything may change a file at any *)
(* time, so a verification can only say what was true when it looked.      *)
(* Statement texts, timestamps and independence levels are left out.       *)
(***************************************************************************)
EXTENDS Obligations, Sequences, Naturals

CONSTANTS Steps, NoStep,
          StepOf,          \* the step each action was created for
          Files, Contents, Absent,
          File, Wanted,    \* an action's arguments: its path, its content
          Evs, Claims, Vers,
          VerStep,         \* the step whose requirement a verification is
          Method,          \* the registered method of each verification
          Runners,         \* threads inside run_method_for_action
          NoReport,        \* there is no Observation row
          NoVer,           \* a runner that runs nothing
          MaxVersions,     \* bound: versions of a claim
          ActionRepairs,   \* the statuses and results a human repairs
          VerRepairs       \* actions and verifications to

Methods == {"verify_file_write", "verify_file_read", "verify_file_delete"}

ASSUME EvidenceConstants ==
  /\ StepOf \in [Actions -> Steps]
  /\ File \in [Actions -> Files]
  /\ Wanted \in [Actions -> Contents]
  /\ VerStep \in [Vers -> Steps \cup {NoStep}]
  /\ Method \in [Vers -> Methods]
  /\ NoStep \notin Steps
  /\ Claims # {}
  /\ Absent \notin Contents
  /\ NoReport \notin Contents
  /\ MaxVersions \in Nat

VARIABLES action,        \* id -> status
          report,        \* id -> what the action's Observation claims
          world,         \* file -> its content now
          evidence,      \* id -> status and origin
          claim,         \* id -> its versions, oldest first
          verification,  \* id -> result and claim
          runner         \* id -> the local variables of one run

chainVars == <<evidence, claim, verification, obligation>>
vars == <<action, report, world, chainVars, runner>>

Observed == {a \in Actions : report[a] # NoReport}

-----------------------------------------------------------------------------
(* The execution core, the world and repair, as this component sees them.  *)

\* The attempt ends; only an OBSERVED one has an Observation, whose content is
\* whatever the capability says.  An attempt that a human sent back may leave a
\* second row: SELECT ... WHERE action_id finds the first one.
settle(a) ==
  /\ action[a] = "PENDING"
  /\ \/ /\ action' = [action EXCEPT ![a] = "OBSERVED"]
        /\ \E said \in Contents :
             report' = [report EXCEPT ![a] = IF @ = NoReport THEN said ELSE @]
     \/ /\ action' = [action EXCEPT ![a] = "UNKNOWN_OUTCOME"]
        /\ UNCHANGED report
  /\ UNCHANGED <<world, chainVars, runner>>

world_changes(f) ==
  /\ \E c \in Contents \cup {Absent} : world' = [world EXCEPT ![f] = c]
  /\ UNCHANGED <<action, report, chainVars, runner>>

\* repair_object on an action, in whatever status: OBSERVED needs a real Observation.
repair_action(a, target) ==
  /\ target = "OBSERVED" => a \in Observed
  /\ action' = [action EXCEPT ![a] = target]
  /\ UNCHANGED <<report, world, chainVars, runner>>

\* repair_object on a verification: never to a PASS it does not have.
repair_verification(v, target) ==
  /\ verification[v].result # "ABSENT"
  /\ target = "PASS" => verification[v].result = "PASS"
  /\ verification' = [verification EXCEPT ![v].result = target]
  /\ UNCHANGED <<action, report, world, evidence, claim, obligation, runner>>

-----------------------------------------------------------------------------
(* Evidence and claims.                                                    *)

\* INFERENCE and UNKNOWN are one status here: no operation tells them apart.
EvidenceRow == [status: {"ABSENT", "UNCONFIRMED", "CONFIRMED_RUNTIME"},
                origin: Actions \cup {NoAction}]
NoEvidence  == [status |-> "ABSENT", origin |-> NoAction]

Record(e, status, a) ==
  /\ evidence[e].status = "ABSENT"
  /\ evidence' = [evidence EXCEPT ![e] = [status |-> status, origin |-> a]]
  /\ UNCHANGED <<action, report, world, claim, verification, obligation, runner>>

record_runtime_evidence(e, a) ==
  /\ a \in Observed
  /\ Record(e, "CONFIRMED_RUNTIME", a)

\* create_inference_evidence and record_user_evidence force the status.
record_other_evidence(e) == Record(e, "UNCONFIRMED", NoAction)

\* HIGH confidence needs a confirmed item among what the claim cites.
ConfidenceJustified(based_on, confidence) ==
  confidence = "HIGH" =>
    \E e \in based_on : evidence[e].status = "CONFIRMED_RUNTIME"

Version == [based_on: SUBSET Evs, confidence: {"HIGH", "LOWER"}]

AddVersion(k, based_on, confidence) ==
  /\ \A e \in based_on : evidence[e].status # "ABSENT"
  /\ ConfidenceJustified(based_on, confidence)
  /\ claim' = [claim EXCEPT ![k] =
                 Append(@, [based_on |-> based_on, confidence |-> confidence])]
  /\ UNCHANGED <<action, report, world, evidence, verification, obligation, runner>>

create_claim(k, based_on, confidence) ==
  /\ claim[k] = <<>>
  /\ AddVersion(k, based_on, confidence)

\* Mutant: a revision is not asked to justify its confidence.
revise_claim_Unjustified(k, based_on, confidence) ==
  /\ Len(claim[k]) \in 1 .. MaxVersions - 1
  /\ \A e \in based_on : evidence[e].status # "ABSENT"
  /\ claim' = [claim EXCEPT ![k] =
                 Append(@, [based_on |-> based_on, confidence |-> confidence])]
  /\ UNCHANGED <<action, report, world, evidence, verification, obligation, runner>>

\* A new version; the older ones stay.
revise_claim(k, based_on, confidence) ==
  /\ Len(claim[k]) \in 1 .. MaxVersions - 1
  /\ AddVersion(k, based_on, confidence)

\* Everybody who asks for the claim gets its latest version.
Cited(k) == IF claim[k] = <<>> THEN {} ELSE claim[k][Len(claim[k])].based_on

-----------------------------------------------------------------------------
(* Verifications.                                                          *)

NoVerification == [result |-> "ABSENT", verifies |-> CHOOSE k \in Claims : TRUE]

create_verification(v, k) ==
  /\ verification[v].result = "ABSENT"
  /\ claim[k] # <<>>
  /\ verification' = [verification EXCEPT ![v] = [result |-> "PENDING", verifies |-> k]]
  /\ UNCHANGED <<action, report, world, evidence, claim, obligation, runner>>

\* What a method compares: the request, or the capability's report, with the
\* file as it is now.
Holds(method, a, said) ==
  CASE method = "verify_file_write"  -> world[File[a]] = Wanted[a]
    [] method = "verify_file_read"   -> world[File[a]] = said
    [] method = "verify_file_delete" -> world[File[a]] = Absent

\* The evaluator's outcomes; a file may always turn out to be unreadable.
Outcomes(method, a, said) ==
  {"INCONCLUSIVE"} \cup
    IF method = "verify_file_read" /\ said = NoReport THEN {}
    ELSE {IF Holds(method, a, said) THEN "PASS" ELSE "FAIL"}

\* The gate: the action was observed, and it is the requirement's own.
Grounds(a, v) ==
  /\ action[a] = "OBSERVED"
  /\ VerStep[v] # NoStep => StepOf[a] = VerStep[v]

\* run_method_for_action builds the evaluator, which reads the action's
\* arguments and report, before the first transaction.
make_evaluator(r, v, a) ==
  /\ runner[r].pc = "idle"
  /\ verification[v].result # "ABSENT"
  /\ runner' = [runner EXCEPT ![r] =
                  [pc |-> "made", ver |-> v, action |-> a, said |-> report[a]]]
  /\ UNCHANGED <<action, report, world, chainVars>>

IdleRunner == [pc |-> "idle", ver |-> NoVer, action |-> NoAction, said |-> NoReport]

\* The first transaction; a RUNNING left behind by a dead process may be rerun.
start_run(r) ==
  LET v == runner[r].ver IN
  /\ runner[r].pc = "made"
  /\ verification[v].result \in {"PENDING", "RUNNING"}
  /\ Grounds(runner[r].action, v)
  /\ verification' = [verification EXCEPT ![v].result = "RUNNING"]
  /\ runner' = [runner EXCEPT ![r].pc = "running"]
  /\ UNCHANGED <<action, report, world, evidence, claim, obligation>>

\* Mutant: the gate is not asked again.
finish_run_Once(r) ==
  LET v == runner[r].ver
      a == runner[r].action IN
  /\ runner[r].pc = "running"
  /\ \E result \in Outcomes(Method[v], a, runner[r].said) :
       verification' = [verification EXCEPT ![v].result = result]
  /\ runner' = [runner EXCEPT ![r] = IdleRunner]
  /\ UNCHANGED <<action, report, world, evidence, claim, obligation>>

\* Mutant: takes the capability's word for it.
finish_run_Trusting(r) ==
  LET v == runner[r].ver
      a == runner[r].action IN
  /\ runner[r].pc = "running"
  /\ Grounds(a, v)
  /\ verification' = [verification EXCEPT ![v].result =
                        IF runner[r].said = Wanted[a] THEN "PASS" ELSE "FAIL"]
  /\ runner' = [runner EXCEPT ![r] = IdleRunner]
  /\ UNCHANGED <<action, report, world, evidence, claim, obligation>>

\* The second transaction: the gate again, then the evaluation.  It does not ask
\* whether the verification is still RUNNING.
finish_run(r) ==
  LET v == runner[r].ver
      a == runner[r].action IN
  /\ runner[r].pc = "running"
  /\ Grounds(a, v)
  /\ \E result \in Outcomes(Method[v], a, runner[r].said) :
       verification' = [verification EXCEPT ![v].result = result]
  /\ runner' = [runner EXCEPT ![r] = IdleRunner]
  /\ UNCHANGED <<action, report, world, evidence, claim, obligation>>

\* A rejection in either transaction writes nothing; after the first one the
\* verification stays RUNNING.
run_rejected(r) ==
  LET v == runner[r].ver IN
  /\ runner[r].pc # "idle"
  /\ \/ ~Grounds(runner[r].action, v)
     \/ /\ runner[r].pc = "made"
        /\ verification[v].result \notin {"PENDING", "RUNNING"}
  /\ runner' = [runner EXCEPT ![r] = IdleRunner]
  /\ UNCHANGED <<action, report, world, chainVars>>

\* The process dies; only the runs in memory are lost.
crash ==
  /\ runner' = [r \in Runners |-> IdleRunner]
  /\ UNCHANGED <<action, report, world, chainVars>>

-----------------------------------------------------------------------------
(* Obligations.                                                            *)

open_obligation(o, a, owner) ==
  /\ action[a] # "PENDING"
  /\ create_obligation(o, a, owner)
  /\ UNCHANGED <<action, report, world, evidence, claim, verification, runner>>

\* _verification_concerns_obligation_locked: the claim's latest version cites
\* runtime evidence of the action the obligation is about.
Concerns(v, o) ==
  \E e \in Cited(verification[v].verifies) :
    /\ evidence[e].status = "CONFIRMED_RUNTIME"
    /\ evidence[e].origin = obligation[o].origin

\* Mutant: a PASS is enough.
resolve_AnyPass(o, v) ==
  /\ Open(o)
  /\ verification[v].result = "PASS"
  /\ obligation' = [obligation EXCEPT ![o].disposition = "RESOLVED"]
  /\ UNCHANGED <<action, report, world, evidence, claim, verification, runner>>

resolve(o, v) ==
  /\ Open(o)
  /\ verification[v].result = "PASS"
  /\ Concerns(v, o)
  /\ obligation' = [obligation EXCEPT ![o].disposition = "RESOLVED"]
  /\ UNCHANGED <<action, report, world, evidence, claim, verification, runner>>

-----------------------------------------------------------------------------
Init ==
  /\ action = [a \in Actions |-> "PENDING"]
  /\ report = [a \in Actions |-> NoReport]
  /\ world = [f \in Files |-> Absent]
  /\ evidence = [e \in Evs |-> NoEvidence]
  /\ claim = [k \in Claims |-> <<>>]
  /\ verification = [v \in Vers |-> NoVerification]
  /\ runner = [r \in Runners |-> IdleRunner]
  /\ obligation = [o \in Obls |-> NoObl]

Next ==
  \/ \E a \in Actions :
       \/ settle(a)
       \/ \E target \in ActionRepairs : repair_action(a, target)
       \/ \E e \in Evs : record_runtime_evidence(e, a)
       \/ \E o \in Obls, owner \in Owners : open_obligation(o, a, owner)
  \/ \E f \in Files : world_changes(f)
  \/ \E e \in Evs : record_other_evidence(e)
  \/ \E k \in Claims, based_on \in SUBSET Evs, confidence \in {"HIGH", "LOWER"} :
       create_claim(k, based_on, confidence) \/ revise_claim(k, based_on, confidence)
  \/ \E v \in Vers :
       \/ \E k \in Claims : create_verification(v, k)
       \/ \E target \in VerRepairs : repair_verification(v, target)
       \/ \E o \in Obls : resolve(o, v)
  \/ \E r \in Runners :
       \/ \E v \in Vers, a \in Actions : make_evaluator(r, v, a)
       \/ start_run(r)
       \/ finish_run(r)
       \/ run_rejected(r)
  \/ crash

Spec == Init /\ [][Next]_vars

-----------------------------------------------------------------------------
(* Safety.                                                                 *)

\* Laws 25 and 27 (record_runtime_evidence, _confidence_justified): behind every
\* version of a claim that says HIGH there is a real Observation.
HighRestsOnObservation ==
  \A k \in Claims : \A i \in DOMAIN claim[k] :
    claim[k][i].confidence = "HIGH" =>
      \E e \in claim[k][i].based_on : evidence[e].origin \in Observed

\* Laws 23 and 29 (resolve_obligation): no obligation is resolved unless its
\* origin action was observed; the core takes this as the operation's guard.
ResolutionIsWitnessed ==
  \A o \in Obls : obligation[o].disposition = "RESOLVED" =>
    obligation[o].origin \in Observed

Passes(v) == verification[v].result # "PASS" /\ verification'[v].result = "PASS"

\* Emission Is Not Occurrence (run_verification): at the moment a requirement's
\* verification passes, an action of its own step is OBSERVED, whatever repairs
\* and second runs happen between the two transactions.
PassNeedsOccurrence ==
  [][\A v \in Vers : Passes(v) =>
       \E a \in Actions : action[a] = "OBSERVED"
                          /\ (VerStep[v] # NoStep => StepOf[a] = VerStep[v])]_vars

\* DECISIONS 27 (the evaluators): a PASS was true of the file system, for an
\* observed action, in the very step that recorded it.
PassIsTrueWhenWritten ==
  [][\A v \in Vers : Passes(v) =>
       \E a \in Observed : Holds(Method[v], a, report[a])]_vars

-----------------------------------------------------------------------------
(* What the code says and does not do.                                     *)

\* evidence.py, ALREADY_FINAL (run_verification): the outcome of a verification
\* is never rewritten by another run.
OutcomeIsFinal ==
  [][\A v \in Vers : verification[v].result \in {"PASS", "FAIL", "INCONCLUSIVE"}
       => verification'[v] = verification[v]]_vars
=============================================================================
