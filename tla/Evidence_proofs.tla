--------------------------- MODULE Evidence_proofs ---------------------------
(***************************************************************************)
(* The chain from an observed action to a resolved obligation, for every   *)
(* set of actions, claims, verifications and threads, whatever statuses a  *)
(* human repairs rows to.                                                  *)
(*                                                                         *)
(* The invariant follows the provenance link by link: an OBSERVED row has  *)
(* its Observation, confirmed evidence has an observed origin, a version   *)
(* cites evidence that was there when it was written and is never written  *)
(* again, and what a running verification remembers of a report is still   *)
(* what the report says.                                                   *)
(***************************************************************************)
EXTENDS Evidence, TLAPS

ActionTypes  == action \in [Actions -> {"PENDING", "OBSERVED", "UNKNOWN_OUTCOME"}
                                         \cup ActionRepairs]
ReportTypes  == report \in [Actions -> Contents \cup {NoReport}]
EvidenceTypes == evidence \in [Evs -> EvidenceRow]
ClaimTypes   == claim \in [Claims -> Seq(Version)]
VerificationTypes ==
  verification \in [Vers -> [result: {"ABSENT", "PENDING", "RUNNING", "PASS", "FAIL",
                                      "INCONCLUSIVE"} \cup VerRepairs,
                             verifies: Claims]]
RunnerTypes ==
  runner \in [Runners -> [pc: {"idle", "made", "running"}, ver: Vers \cup {NoVer},
                          action: Actions \cup {NoAction},
                          said: Contents \cup {NoReport}]]
ObligationTypes == obligation \in [Obls -> OblRow]

ChainTypes ==
  /\ ActionTypes /\ ReportTypes /\ EvidenceTypes /\ ClaimTypes
  /\ VerificationTypes /\ RunnerTypes /\ ObligationTypes

\* Observation and OBSERVED are one commit, and no repair fakes the second.
ObservedHasReport == \A a \in Actions : action[a] = "OBSERVED" => a \in Observed

\* Law 23 provenance.
ConfirmedIsObserved ==
  \A e \in Evs : evidence[e].status = "CONFIRMED_RUNTIME" =>
    evidence[e].origin \in Observed

\* No version cites evidence that is yet to be recorded.
CitedExists ==
  \A k \in Claims : \A i \in DOMAIN claim[k] : \A e \in claim[k][i].based_on :
    evidence[e].status # "ABSENT"

HighIsConfirmed ==
  \A k \in Claims : \A i \in DOMAIN claim[k] :
    claim[k][i].confidence = "HIGH" =>
      \E e \in claim[k][i].based_on : evidence[e].status = "CONFIRMED_RUNTIME"

\* What the evaluator read before the first transaction is not out of date.
SaidIsReport ==
  \A r \in Runners : runner[r].pc # "idle" =>
    /\ runner[r].ver \in Vers
    /\ runner[r].action \in Actions
    /\ runner[r].said # NoReport => runner[r].said = report[runner[r].action]

ChainInv ==
  /\ ChainTypes /\ ObservedHasReport /\ ConfirmedIsObserved
  /\ CitedExists /\ HighIsConfirmed /\ SaidIsReport /\ ResolutionIsWitnessed

-----------------------------------------------------------------------------
(* What the operations may do to the rows the links rest on.               *)

\* Reports, evidence and versions only ever grow (mark_observed, record_*_evidence,
\* create_claim, revise_claim).
Monotone ==
  /\ Observed \subseteq Observed'
  /\ \A a \in Observed : report'[a] = report[a]
  /\ \A e \in Evs : evidence[e].status # "ABSENT" => evidence'[e] = evidence[e]

\* An invariant of every initial state.
LEMMA ChainInit == Init => ChainInv
<1> SUFFICES ASSUME Init
             PROVE  ChainInv
  OBVIOUS
<1>1. ActionTypes /\ ReportTypes /\ EvidenceTypes /\ ObligationTypes /\ RunnerTypes
  BY DEF Init, ActionTypes, ReportTypes, EvidenceTypes, ObligationTypes, RunnerTypes,
         EvidenceRow, NoEvidence, OblRow, NoObl, Disposition, Owners, IdleRunner
<1>2. ClaimTypes /\ VerificationTypes
  BY EvidenceConstants DEF Init, ClaimTypes, VerificationTypes, NoVerification
<1>3. ObservedHasReport /\ ConfirmedIsObserved /\ SaidIsReport /\ ResolutionIsWitnessed
  BY DEF Init, ObservedHasReport, ConfirmedIsObserved, SaidIsReport,
         ResolutionIsWitnessed, NoEvidence, NoObl, IdleRunner
<1>4. CitedExists /\ HighIsConfirmed
  BY DEF Init, CitedExists, HighIsConfirmed
<1> QED
  BY <1>1, <1>2, <1>3, <1>4 DEF ChainInv, ChainTypes

\* The first Observation of an action is the one that stays (mark_observed), and
\* an evidence row is written once.
LEMMA StepIsMonotone ==
  ASSUME ChainTypes, Next
  PROVE  Monotone
<1>1. CASE \E a \in Actions : settle(a)
  BY <1>1 DEF ChainTypes, ReportTypes, Monotone, Observed, settle, chainVars
<1>2. CASE \E e \in Evs, a \in Actions : record_runtime_evidence(e, a)
  BY <1>2 DEF ChainTypes, EvidenceTypes, Monotone, Observed, record_runtime_evidence,
              Record
<1>3. CASE \E e \in Evs : record_other_evidence(e)
  BY <1>3 DEF ChainTypes, EvidenceTypes, Monotone, Observed, record_other_evidence,
              Record
<1>4. CASE UNCHANGED <<report, evidence>>
  BY <1>4 DEF Monotone, Observed
<1> QED
  BY <1>1, <1>2, <1>3, <1>4
  DEF Next, repair_action, open_obligation, world_changes, create_claim, revise_claim,
      AddVersion, create_verification, repair_verification, resolve, make_evaluator,
      start_run, finish_run, run_rejected, crash, chainVars

-----------------------------------------------------------------------------
(* Types.                                                                  *)

\* A settled or repaired action keeps the types (settle, repair_object).
LEMMA ActionStepTypes ==
  ASSUME ChainTypes, NEW a \in Actions,
         settle(a) \/ \E target \in ActionRepairs : repair_action(a, target)
  PROVE  ChainTypes'
<1>1. ActionTypes' /\ ReportTypes'
  BY DEF ChainTypes, ActionTypes, ReportTypes, settle, repair_action
<1>2. UNCHANGED <<chainVars, runner>>
  BY DEF settle, repair_action
<1> QED
  BY <1>1, <1>2 DEF ChainTypes, EvidenceTypes, ClaimTypes, VerificationTypes,
                    RunnerTypes, ObligationTypes, chainVars

\* Recording evidence keeps the types (record_runtime_evidence and the others).
LEMMA EvidenceStepTypes ==
  ASSUME ChainTypes, NEW e \in Evs,
         record_other_evidence(e) \/ \E a \in Actions : record_runtime_evidence(e, a)
  PROVE  ChainTypes'
<1>1. EvidenceTypes'
  BY DEF ChainTypes, EvidenceTypes, EvidenceRow, record_runtime_evidence,
         record_other_evidence, Record
<1>2. UNCHANGED <<action, report, claim, verification, runner, obligation>>
  BY DEF record_runtime_evidence, record_other_evidence, Record
<1> QED
  BY <1>1, <1>2 DEF ChainTypes, ActionTypes, ReportTypes, ClaimTypes,
                    VerificationTypes, RunnerTypes, ObligationTypes

\* What a new version adds: the older ones stay where they are (revise_claim).
LEMMA VersionAppended ==
  ASSUME ClaimTypes, NEW k \in Claims, NEW based_on \in SUBSET Evs,
         NEW confidence \in {"HIGH", "LOWER"}, AddVersion(k, based_on, confidence)
  PROVE  /\ ClaimTypes'
         /\ DOMAIN claim[k]' = 1 .. Len(claim[k]) + 1
         /\ DOMAIN claim[k] = 1 .. Len(claim[k])
         /\ Len(claim[k]) \in Nat
         /\ \A i \in DOMAIN claim[k] : claim[k]'[i] = claim[k][i]
         /\ claim[k]'[Len(claim[k]) + 1]
              = [based_on |-> based_on, confidence |-> confidence]
         /\ \A j \in Claims \ {k} : claim[j]' = claim[j]
<1> DEFINE new == [based_on |-> based_on, confidence |-> confidence]
<1>1. new \in Version /\ claim[k] \in Seq(Version)
  BY DEF ClaimTypes, Version
<1>2. claim' = [claim EXCEPT ![k] = Append(claim[k], new)]
  BY DEF AddVersion
<1> HIDE DEF new
<1>3. claim[k]' = Append(claim[k], new) /\ \A j \in Claims \ {k} : claim[j]' = claim[j]
  BY <1>2 DEF ClaimTypes
<1>4. Append(claim[k], new) \in Seq(Version)
  BY <1>1
<1>5. ClaimTypes'
  BY <1>2, <1>4 DEF ClaimTypes
<1>6. /\ Len(claim[k]) \in Nat
      /\ DOMAIN claim[k] = 1 .. Len(claim[k])
      /\ DOMAIN Append(claim[k], new) = 1 .. Len(claim[k]) + 1
      /\ Append(claim[k], new)[Len(claim[k]) + 1] = new
      /\ \A i \in DOMAIN claim[k] : Append(claim[k], new)[i] = claim[k][i]
  BY <1>1
<1> QED
  BY <1>3, <1>5, <1>6 DEF new

\* Both ways to a new version are one (create_claim, revise_claim).
LEMMA ClaimStepAdds ==
  ASSUME NEW k \in Claims, NEW based_on, NEW confidence,
         create_claim(k, based_on, confidence) \/ revise_claim(k, based_on, confidence)
  PROVE  AddVersion(k, based_on, confidence)
BY DEF create_claim, revise_claim

\* The rows of a claim step (create_claim, revise_claim).
LEMMA ClaimStepTypes ==
  ASSUME ChainTypes, NEW k \in Claims, NEW based_on \in SUBSET Evs,
         NEW confidence \in {"HIGH", "LOWER"}, AddVersion(k, based_on, confidence)
  PROVE  ChainTypes'
<1>1. ClaimTypes'
  BY VersionAppended DEF ChainTypes
<1>2. UNCHANGED <<action, report, evidence, verification, runner, obligation>>
  BY DEF AddVersion
<1> QED
  BY <1>1, <1>2 DEF ChainTypes, ActionTypes, ReportTypes, EvidenceTypes,
                    VerificationTypes, RunnerTypes, ObligationTypes

\* Creating and repairing a verification (create_verification, repair_object).
LEMMA VerificationStepTypes ==
  ASSUME ChainTypes, NEW v \in Vers,
         \/ \E k \in Claims : create_verification(v, k)
         \/ \E target \in VerRepairs : repair_verification(v, target)
  PROVE  ChainTypes'
<1>1. VerificationTypes'
  BY DEF ChainTypes, VerificationTypes, create_verification, repair_verification
<1>2. UNCHANGED <<action, report, evidence, claim, runner, obligation>>
  BY DEF create_verification, repair_verification
<1> QED
  BY <1>1, <1>2 DEF ChainTypes, ActionTypes, ReportTypes, EvidenceTypes, ClaimTypes,
                    RunnerTypes, ObligationTypes

\* The evaluator answers with one of three results (run_verification).
LEMMA OutcomesAreResults ==
  ASSUME NEW m, NEW a, NEW said
  PROVE  Outcomes(m, a, said) \subseteq {"PASS", "FAIL", "INCONCLUSIVE"}
BY DEF Outcomes

\* A step of a thread inside run_method_for_action.
LEMMA RunnerStepTypes ==
  ASSUME ChainTypes, NEW r \in Runners,
         \/ \E v \in Vers, a \in Actions : make_evaluator(r, v, a)
         \/ start_run(r) \/ finish_run(r) \/ run_rejected(r)
  PROVE  ChainTypes'
<1>1. RunnerTypes'
  BY DEF ChainTypes, RunnerTypes, ReportTypes, make_evaluator, start_run, finish_run,
         run_rejected, IdleRunner
<1>2. VerificationTypes'
  <2>1. CASE start_run(r)
    BY <2>1 DEF ChainTypes, VerificationTypes, start_run
  <2>2. CASE finish_run(r)
    <3> DEFINE results == Outcomes(Method[runner[r].ver], runner[r].action, runner[r].said)
    <3>1. results \subseteq {"PASS", "FAIL", "INCONCLUSIVE"}
      BY OutcomesAreResults
    <3>2. \E result \in results :
            verification' = [verification EXCEPT ![runner[r].ver].result = result]
      BY <2>2 DEF finish_run
    <3> HIDE DEF results
    <3>3. PICK result \in {"PASS", "FAIL", "INCONCLUSIVE"} :
            verification' = [verification EXCEPT ![runner[r].ver].result = result]
      BY <3>1, <3>2
    <3> DEFINE w == runner[r].ver
    <3>4. verification' = [verification EXCEPT ![w].result = result]
      BY <3>3
    <3> HIDE DEF w
    <3> QED
      BY <3>4 DEF ChainTypes, VerificationTypes
  <2>3. CASE UNCHANGED verification
    BY <2>3 DEF ChainTypes, VerificationTypes
  <2> QED
    BY <2>1, <2>2, <2>3 DEF make_evaluator, run_rejected, chainVars
<1>3. UNCHANGED <<action, report, evidence, claim, obligation>>
  BY DEF make_evaluator, start_run, finish_run, run_rejected, chainVars
<1> QED
  BY <1>1, <1>2, <1>3 DEF ChainTypes, ActionTypes, ReportTypes, EvidenceTypes,
                          ClaimTypes, ObligationTypes

\* An obligation is opened or resolved (create_obligation, resolve_obligation).
LEMMA ObligationStepTypes ==
  ASSUME ChainTypes, NEW o \in Obls,
         \/ \E a \in Actions, owner \in Owners : open_obligation(o, a, owner)
         \/ \E v \in Vers : resolve(o, v)
  PROVE  ChainTypes'
<1>1. ObligationTypes'
  BY DEF ChainTypes, ObligationTypes, OblRow, Disposition, open_obligation,
         create_obligation, Mint, resolve
<1>2. UNCHANGED <<action, report, evidence, claim, verification, runner>>
  BY DEF open_obligation, resolve
<1> QED
  BY <1>1, <1>2 DEF ChainTypes, ActionTypes, ReportTypes, EvidenceTypes, ClaimTypes,
                    VerificationTypes, RunnerTypes

\* Whoever moves, the rows keep their types.
LEMMA StepTypes ==
  ASSUME ChainTypes, Next
  PROVE  ChainTypes'
<1>1. CASE \E f \in Files : world_changes(f)
  BY <1>1 DEF ChainTypes, ActionTypes, ReportTypes, EvidenceTypes, ClaimTypes,
              VerificationTypes, RunnerTypes, ObligationTypes, world_changes, chainVars
<1>2. CASE crash
  <2>1. RunnerTypes'
    BY <1>2 DEF RunnerTypes, crash, IdleRunner
  <2> QED
    BY <1>2, <2>1 DEF ChainTypes, ActionTypes, ReportTypes, EvidenceTypes, ClaimTypes,
                      VerificationTypes, ObligationTypes, crash, chainVars
<1>3. CASE \E k \in Claims, based_on \in SUBSET Evs, confidence \in {"HIGH", "LOWER"} :
             create_claim(k, based_on, confidence) \/ revise_claim(k, based_on, confidence)
  BY <1>3, ClaimStepAdds, ClaimStepTypes
<1> QED
  BY <1>1, <1>2, <1>3, ActionStepTypes, EvidenceStepTypes, VerificationStepTypes,
     RunnerStepTypes, ObligationStepTypes DEF Next

-----------------------------------------------------------------------------
(* The links.                                                              *)

\* What a version cites are evidence ids (create_claim, revise_claim).
LEMMA CitedAreEvidence ==
  ASSUME ClaimTypes, NEW k \in Claims, NEW i \in DOMAIN claim[k]
  PROVE  claim[k][i] \in Version /\ claim[k][i].based_on \subseteq Evs
<1>1. claim[k] \in Seq(Version)
  BY DEF ClaimTypes
<1>2. claim[k][i] \in Version
  BY <1>1
<1> QED
  BY <1>2 DEF Version

\* So is what the latest version cites (load_claim).
LEMMA LatestIsCited ==
  ASSUME ChainTypes, NEW k \in Claims
  PROVE  Cited(k) \subseteq Evs
<1>1. CASE claim[k] # <<>>
  <2>1. claim[k] \in Seq(Version) /\ Len(claim[k]) \in DOMAIN claim[k]
    BY <1>1 DEF ChainTypes, ClaimTypes
  <2> QED
    BY <1>1, <2>1, CitedAreEvidence DEF ChainTypes, Cited
<1>2. CASE claim[k] = <<>>
  BY <1>2 DEF Cited
<1> QED
  BY <1>1, <1>2

\* No status OBSERVED without an Observation: it is written with one, or by a repair
\* that looked for it (mark_observed, repair_object).
LEMMA ObservedKept ==
  ASSUME ChainTypes, ObservedHasReport, Monotone, Next
  PROVE  ObservedHasReport'
<1>1. CASE \E a \in Actions : settle(a)
  <2>1. PICK a \in Actions : settle(a)
    BY <1>1
  <2>2. CASE action'[a] = "OBSERVED"
    <3>1. PICK said \in Contents :
            report' = [report EXCEPT ![a] = IF @ = NoReport THEN said ELSE @]
      BY <2>1, <2>2 DEF settle, ChainTypes, ActionTypes
    <3>2. a \in Observed'
      BY <3>1, EvidenceConstants DEF ChainTypes, ReportTypes, Observed
    <3>3. \A b \in Actions \ {a} : action'[b] = action[b]
      BY <2>1 DEF settle, ChainTypes, ActionTypes
    <3> QED
      BY <3>2, <3>3 DEF ObservedHasReport, Monotone
  <2>3. CASE action'[a] # "OBSERVED"
    BY <2>1, <2>3 DEF settle, ChainTypes, ActionTypes, ObservedHasReport, Monotone
  <2> QED
    BY <2>2, <2>3
<1>2. CASE \E a \in Actions, target \in ActionRepairs : repair_action(a, target)
  BY <1>2 DEF repair_action, ChainTypes, ActionTypes, ObservedHasReport, Observed
<1>3. CASE UNCHANGED action
  BY <1>3 DEF ObservedHasReport, Monotone
<1> QED
  BY <1>1, <1>2, <1>3
  DEF Next, record_runtime_evidence, record_other_evidence, Record, open_obligation,
      world_changes, create_claim, revise_claim, AddVersion, create_verification,
      repair_verification, resolve, make_evaluator, start_run, finish_run,
      run_rejected, crash, chainVars

\* Runtime evidence is recorded of an Observation (record_runtime_evidence).
LEMMA ConfirmedKept ==
  ASSUME ChainTypes, ConfirmedIsObserved, Monotone, Next
  PROVE  ConfirmedIsObserved'
<1>1. CASE \E e \in Evs, a \in Actions : record_runtime_evidence(e, a)
  BY <1>1 DEF record_runtime_evidence, Record, ChainTypes, EvidenceTypes,
              ConfirmedIsObserved, Monotone
<1>2. CASE \E e \in Evs : record_other_evidence(e)
  BY <1>2 DEF record_other_evidence, Record, ChainTypes, EvidenceTypes,
              ConfirmedIsObserved, Monotone
<1>3. CASE UNCHANGED evidence
  BY <1>3 DEF ConfirmedIsObserved, Monotone
<1> QED
  BY <1>1, <1>2, <1>3
  DEF Next, settle, repair_action, open_obligation, world_changes, create_claim,
      revise_claim, AddVersion, create_verification, repair_verification, resolve,
      make_evaluator, start_run, finish_run, run_rejected, crash, chainVars

\* A version cites what exists and says HIGH only of what is confirmed, when it is
\* written and ever after (_confidence_justified).
LEMMA VersionsKept ==
  ASSUME ChainTypes, ChainTypes', CitedExists, HighIsConfirmed, Monotone, Next
  PROVE  CitedExists' /\ HighIsConfirmed'
<1>0. \A k \in Claims : \A i \in DOMAIN claim[k] : claim[k][i].based_on \subseteq Evs
  BY CitedAreEvidence DEF ChainTypes
<1>1. ASSUME NEW k \in Claims, NEW based_on \in SUBSET Evs,
             NEW confidence \in {"HIGH", "LOWER"}, AddVersion(k, based_on, confidence)
      PROVE  CitedExists' /\ HighIsConfirmed'
  <2> DEFINE last == Len(claim[k]) + 1
             new  == [based_on |-> based_on, confidence |-> confidence]
  <2>1. /\ DOMAIN claim[k]' = 1 .. last
        /\ DOMAIN claim[k] = 1 .. Len(claim[k])
        /\ Len(claim[k]) \in Nat
        /\ \A i \in DOMAIN claim[k] : claim[k]'[i] = claim[k][i]
        /\ claim[k]'[last] = new
        /\ \A j \in Claims \ {k} : claim[j]' = claim[j]
    BY <1>1, VersionAppended DEF ChainTypes
  <2>2. /\ \A e \in based_on : evidence[e].status # "ABSENT"
        /\ confidence = "HIGH" =>
             \E e \in based_on : evidence[e].status = "CONFIRMED_RUNTIME"
        /\ evidence' = evidence
    BY <1>1 DEF AddVersion, ConfidenceJustified
  <2>3. \A i \in DOMAIN claim[k]' : i = last \/ i \in DOMAIN claim[k]
    BY <2>1
  <2>4. /\ \A e \in new.based_on : evidence[e].status # "ABSENT"
        /\ new.confidence = "HIGH" =>
             \E e \in new.based_on : evidence[e].status = "CONFIRMED_RUNTIME"
    BY <2>2
  <2> HIDE DEF last, new
  <2>5. ASSUME NEW j \in Claims, NEW i \in DOMAIN claim[j]'
        PROVE  \/ claim[j]'[i] = new
               \/ i \in DOMAIN claim[j] /\ claim[j]'[i] = claim[j][i]
    BY <2>1, <2>3, <2>5
  <2>6. CitedExists'
    BY <2>2, <2>4, <2>5 DEF CitedExists
  <2>7. HighIsConfirmed'
    BY <2>2, <2>4, <2>5 DEF HighIsConfirmed
  <2> QED
    BY <2>6, <2>7
<1>2. CASE UNCHANGED claim
  <2>1. CitedExists'
    BY <1>0, <1>2 DEF CitedExists, Monotone
  <2>2. ASSUME NEW k \in Claims, NEW i \in DOMAIN claim[k], claim[k][i].confidence = "HIGH"
        PROVE  \E e \in claim[k][i].based_on : evidence'[e].status = "CONFIRMED_RUNTIME"
    <3>1. PICK e \in claim[k][i].based_on : evidence[e].status = "CONFIRMED_RUNTIME"
      BY <2>2 DEF HighIsConfirmed
    <3>2. evidence'[e] = evidence[e]
      BY <1>0, <3>1 DEF Monotone
    <3> QED
      BY <3>1, <3>2
  <2> QED
    BY <1>2, <2>1, <2>2 DEF HighIsConfirmed
<1> QED
  BY <1>1, <1>2, ClaimStepAdds
  DEF Next, settle, repair_action, record_runtime_evidence, record_other_evidence,
      Record, open_obligation, world_changes, create_verification,
      repair_verification, resolve, make_evaluator, start_run, finish_run,
      run_rejected, crash, chainVars

\* Only what a thread has just read does it remember, and reports do not change
\* (run_method_for_action).
LEMMA SaidKept ==
  ASSUME ChainTypes, SaidIsReport, Monotone, Next
  PROVE  SaidIsReport'
<1>1. CASE \E r \in Runners, v \in Vers, a \in Actions : make_evaluator(r, v, a)
  BY <1>1 DEF make_evaluator, ChainTypes, RunnerTypes, SaidIsReport
<1>2. CASE \E r \in Runners : start_run(r) \/ finish_run(r) \/ run_rejected(r)
  <2>1. PICK r \in Runners : start_run(r) \/ finish_run(r) \/ run_rejected(r)
    BY <1>2
  <2>2. /\ report' = report
        /\ \A q \in Runners \ {r} : runner'[q] = runner[q]
    BY <2>1 DEF start_run, finish_run, run_rejected, ChainTypes, RunnerTypes
  <2>3. CASE start_run(r)
    BY <2>2, <2>3 DEF start_run, ChainTypes, RunnerTypes, SaidIsReport
  <2>4. CASE finish_run(r) \/ run_rejected(r)
    <3>1. runner'[r].pc = "idle"
      BY <2>4 DEF finish_run, run_rejected, ChainTypes, RunnerTypes, IdleRunner
    <3> QED
      BY <2>2, <3>1 DEF SaidIsReport
  <2> QED
    BY <2>1, <2>3, <2>4
<1>3. CASE crash
  BY <1>3 DEF crash, SaidIsReport, IdleRunner
<1>4. CASE UNCHANGED runner
  BY <1>4 DEF SaidIsReport, Monotone, Observed
<1> QED
  BY <1>1, <1>2, <1>3, <1>4
  DEF Next, settle, repair_action, record_runtime_evidence, record_other_evidence,
      Record, open_obligation, world_changes, create_claim, revise_claim, AddVersion,
      create_verification, repair_verification, resolve, chainVars

\* What the provenance walk finds is an Observation of the obligation's origin
\* (_verification_concerns_obligation_locked).
LEMMA ConcernsIsWitness ==
  ASSUME ChainTypes, ConfirmedIsObserved, NEW v \in Vers, NEW o \in Obls, Concerns(v, o)
  PROVE  obligation[o].origin \in Observed
<1>1. PICK e \in Cited(verification[v].verifies) :
        /\ evidence[e].status = "CONFIRMED_RUNTIME"
        /\ evidence[e].origin = obligation[o].origin
  BY DEF Concerns
<1>2. verification[v].verifies \in Claims
  BY DEF ChainTypes, VerificationTypes
<1>3. e \in Evs
  BY <1>1, <1>2, LatestIsCited
<1> QED
  BY <1>1, <1>3 DEF ConfirmedIsObserved

\* A resolution had its witness, and the witness does not go away
\* (resolve_obligation).
LEMMA ResolutionKept ==
  ASSUME ChainTypes, ConfirmedIsObserved, ResolutionIsWitnessed, Monotone, Next
  PROVE  ResolutionIsWitnessed'
<1>1. CASE \E o \in Obls, a \in Actions, owner \in Owners : open_obligation(o, a, owner)
  BY <1>1 DEF open_obligation, create_obligation, Mint, ChainTypes, ObligationTypes,
              ResolutionIsWitnessed, Monotone
<1>2. CASE \E v \in Vers, o \in Obls : resolve(o, v)
  BY <1>2, ConcernsIsWitness DEF resolve, ChainTypes, ObligationTypes, OblRow,
              ResolutionIsWitnessed, Monotone
<1>3. CASE UNCHANGED obligation
  BY <1>3 DEF ResolutionIsWitnessed, Monotone
<1> QED
  BY <1>1, <1>2, <1>3
  DEF Next, settle, repair_action, record_runtime_evidence, record_other_evidence,
      Record, world_changes, create_claim, revise_claim, AddVersion,
      create_verification, repair_verification, make_evaluator, start_run, finish_run,
      run_rejected, crash, chainVars

-----------------------------------------------------------------------------
(* The theorems.                                                           *)

\* A step keeps every link of the chain.
LEMMA ChainStep ==
  ASSUME ChainInv, [Next]_vars
  PROVE  ChainInv'
<1>1. CASE Next
  <2>1. Monotone /\ ChainTypes'
    BY <1>1, StepIsMonotone, StepTypes DEF ChainInv
  <2>2. ObservedHasReport' /\ ConfirmedIsObserved' /\ SaidIsReport' /\ ResolutionIsWitnessed'
    BY <1>1, <2>1, ObservedKept, ConfirmedKept, SaidKept, ResolutionKept DEF ChainInv
  <2>3. CitedExists' /\ HighIsConfirmed'
    BY <1>1, <2>1, VersionsKept DEF ChainInv
  <2> QED
    BY <2>1, <2>2, <2>3 DEF ChainInv
<1>2. CASE UNCHANGED vars
  BY <1>2 DEF ChainInv, ChainTypes, ActionTypes, ReportTypes, EvidenceTypes, ClaimTypes,
              VerificationTypes, RunnerTypes, ObligationTypes, ObservedHasReport,
              ConfirmedIsObserved, CitedExists, HighIsConfirmed, SaidIsReport,
              ResolutionIsWitnessed, Observed, vars, chainVars
<1> QED
  BY <1>1, <1>2

\* The provenance chain holds link by link, in every state.
THEOREM ChainInvariance == Spec => []ChainInv
<1>1. Init => ChainInv
  BY ChainInit
<1>2. ChainInv /\ [Next]_vars => ChainInv'
  BY ChainStep
<1> QED
  BY <1>1, <1>2, PTL DEF Spec

\* Laws 25 and 27 (_confidence_justified): behind every version of a claim that says
\* HIGH there is a real Observation, whatever is repaired or revised later.
THEOREM HighAlwaysRests == Spec => []HighRestsOnObservation
<1>1. ASSUME ChainInv
      PROVE  HighRestsOnObservation
  <2>1. SUFFICES ASSUME NEW k \in Claims, NEW i \in DOMAIN claim[k],
                        claim[k][i].confidence = "HIGH"
                 PROVE  \E e \in claim[k][i].based_on : evidence[e].origin \in Observed
    BY DEF HighRestsOnObservation
  <2>2. PICK e \in claim[k][i].based_on : evidence[e].status = "CONFIRMED_RUNTIME"
    BY <1>1, <2>1 DEF ChainInv, HighIsConfirmed
  <2>3. e \in Evs
    BY <1>1, CitedAreEvidence DEF ChainInv, ChainTypes
  <2> QED
    BY <1>1, <2>2, <2>3 DEF ChainInv, ConfirmedIsObserved
<1> QED
  BY <1>1, ChainInvariance, PTL

\* Laws 23 and 29 (resolve_obligation): no obligation is resolved unless its origin
\* action was observed.
THEOREM ResolutionsAreWitnessed == Spec => []ResolutionIsWitnessed
<1>1. ChainInv => ResolutionIsWitnessed
  BY DEF ChainInv
<1> QED
  BY <1>1, ChainInvariance, PTL

\* The execution core takes the witness as the guard of resolve_obligation; here it
\* is what the walk through claims and evidence amounts to (resolve_obligation).
CoreResolves ==
  [][\A o \in Obls :
       obligation[o].disposition # "RESOLVED" /\ obligation'[o].disposition = "RESOLVED"
         => resolve_obligation(o, Observed)]_vars

\* Every resolution of this module is one the core allows.
THEOREM ResolutionsAreTheCores == Spec => CoreResolves
<1>1. ASSUME ChainInv, [Next]_vars, NEW o \in Obls,
             obligation[o].disposition # "RESOLVED", obligation'[o].disposition = "RESOLVED"
      PROVE  resolve_obligation(o, Observed)
  <2>1. CASE \E v \in Vers, q \in Obls : resolve(q, v)
    <3>1. PICK v \in Vers, q \in Obls : resolve(q, v)
      BY <2>1
    <3>2. q = o
      BY <1>1, <3>1 DEF resolve, ChainInv, ChainTypes, ObligationTypes
    <3>3. obligation[o].origin \in Observed
      BY <1>1, <3>1, <3>2, ConcernsIsWitness DEF resolve, ChainInv
    <3> QED
      BY <3>1, <3>2, <3>3 DEF resolve, resolve_obligation
  <2>2. CASE \E q \in Obls, a \in Actions, owner \in Owners : open_obligation(q, a, owner)
    BY <1>1, <2>2 DEF open_obligation, create_obligation, Mint, ChainInv, ChainTypes,
                      ObligationTypes
  <2>3. CASE UNCHANGED obligation
    BY <1>1, <2>3
  <2> QED
    BY <1>1, <2>1, <2>2, <2>3
    DEF Next, vars, chainVars, settle, repair_action, record_runtime_evidence,
        record_other_evidence, Record, world_changes, create_claim, revise_claim,
        AddVersion, create_verification, repair_verification, make_evaluator, start_run,
        finish_run, run_rejected, crash
<1>2. ChainInv /\ [Next]_vars =>
        [\A o \in Obls :
           obligation[o].disposition # "RESOLVED" /\ obligation'[o].disposition = "RESOLVED"
             => resolve_obligation(o, Observed)]_vars
  BY <1>1
<1> QED
  BY <1>2, ChainInvariance, PTL DEF Spec, CoreResolves

\* A verification comes to PASS in one way only: a run ends, its action is OBSERVED
\* and of the requirement's step, and the evaluator says so (run_verification).
LEMMA PassMeans ==
  ASSUME ChainInv, [Next]_vars, NEW v \in Vers, Passes(v)
  PROVE  \E r \in Runners :
           LET a == runner[r].action IN
           /\ runner[r].pc = "running"
           /\ runner[r].ver = v
           /\ Grounds(a, v)
           /\ "PASS" \in Outcomes(Method[v], a, runner[r].said)
<1>1. CASE \E r \in Runners : finish_run(r)
  <2>1. PICK r \in Runners : finish_run(r)
    BY <1>1
  <2> DEFINE w == runner[r].ver
             results == Outcomes(Method[w], runner[r].action, runner[r].said)
  <2>2. PICK result \in results : verification' = [verification EXCEPT ![w].result = result]
    BY <2>1 DEF finish_run
  <2>3. runner[r].pc = "running" /\ Grounds(runner[r].action, w)
    BY <2>1 DEF finish_run
  <2>4. w = v /\ result = "PASS"
    <3> HIDE DEF results, w
    <3> QED
      BY <2>2 DEF Passes, ChainInv, ChainTypes, VerificationTypes
  <2> QED
    BY <2>2, <2>3, <2>4
<1>2. CASE \E w \in Vers : \/ \E k \in Claims : create_verification(w, k)
                           \/ \E target \in VerRepairs : repair_verification(w, target)
  BY <1>2 DEF Passes, create_verification, repair_verification, ChainInv, ChainTypes,
              VerificationTypes
<1>3. CASE \E r \in Runners : start_run(r)
  BY <1>3 DEF Passes, start_run, ChainInv, ChainTypes, VerificationTypes
<1>4. CASE UNCHANGED verification
  BY <1>4 DEF Passes
<1> QED
  BY <1>1, <1>2, <1>3, <1>4
  DEF Next, vars, chainVars, settle, repair_action, record_runtime_evidence,
      record_other_evidence, Record, open_obligation, world_changes, create_claim,
      revise_claim, AddVersion, resolve, make_evaluator, run_rejected, crash

\* Emission Is Not Occurrence (run_verification): at the moment a requirement's
\* verification passes, an action of its own step is OBSERVED.
THEOREM PassesNeedOccurrence == Spec => PassNeedsOccurrence
<1>1. ASSUME ChainInv, [Next]_vars, NEW v \in Vers, Passes(v)
      PROVE  \E a \in Actions : action[a] = "OBSERVED"
                                /\ (VerStep[v] # NoStep => StepOf[a] = VerStep[v])
  <2>1. PICK r \in Runners : runner[r].pc = "running" /\ Grounds(runner[r].action, v)
    BY <1>1, PassMeans
  <2>2. runner[r].action \in Actions
    BY <1>1, <2>1 DEF ChainInv, SaidIsReport
  <2> QED
    BY <2>1, <2>2 DEF Grounds
<1>2. ChainInv /\ [Next]_vars =>
        [\A v \in Vers : Passes(v) =>
           \E a \in Actions : action[a] = "OBSERVED"
                              /\ (VerStep[v] # NoStep => StepOf[a] = VerStep[v])]_vars
  BY <1>1
<1> QED
  BY <1>2, ChainInvariance, PTL DEF Spec, PassNeedsOccurrence

\* DECISIONS 27 (the evaluators): a PASS was true of the file system, for an observed
\* action and for what its Observation says, in the very step that recorded it.
THEOREM PassesAreTrue == Spec => PassIsTrueWhenWritten
<1>1. ASSUME ChainInv, [Next]_vars, NEW v \in Vers, Passes(v)
      PROVE  \E a \in Observed : Holds(Method[v], a, report[a])
  <2>1. PICK r \in Runners : /\ runner[r].pc = "running"
                             /\ Grounds(runner[r].action, v)
                             /\ "PASS" \in Outcomes(Method[v], runner[r].action, runner[r].said)
    BY <1>1, PassMeans
  <2> DEFINE a == runner[r].action
             said == runner[r].said
  <2>2. a \in Actions /\ (said # NoReport => said = report[a])
    BY <1>1, <2>1 DEF ChainInv, SaidIsReport
  <2>3. a \in Observed
    BY <1>1, <2>1, <2>2 DEF Grounds, ChainInv, ObservedHasReport
  <2>4. Holds(Method[v], a, said) /\ (Method[v] = "verify_file_read" => said # NoReport)
    BY <2>1 DEF Outcomes
  <2>5. Method[v] \in Methods
    BY EvidenceConstants
  <2>6. Holds(Method[v], a, report[a])
    <3>1. CASE Method[v] = "verify_file_read"
      BY <2>2, <2>4, <3>1
    <3>2. CASE Method[v] \in {"verify_file_write", "verify_file_delete"}
      BY <2>4, <3>2 DEF Holds
    <3> QED
      BY <2>5, <3>1, <3>2 DEF Methods
  <2> QED
    BY <2>3, <2>6
<1>2. ChainInv /\ [Next]_vars =>
        [\A v \in Vers : Passes(v) =>
           \E a \in Observed : Holds(Method[v], a, report[a])]_vars
  BY <1>1
<1> QED
  BY <1>2, ChainInvariance, PTL DEF Spec, PassIsTrueWhenWritten
=============================================================================
