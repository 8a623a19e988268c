-------------------------- MODULE Terminal_proofs --------------------------
(***************************************************************************)
(* For any number of lines, actions and changes by others: a gated action  *)
(* starts only if a human said yes to it, and the exit status says why the *)
(* process ended.                                                          *)
(***************************************************************************)
EXTENDS Terminal, TLAPS

\* The rows have the fields the actions update.
Shapes ==
  /\ approval \in [Actions -> [state : {"none", "staged", "confirmed"}, rev : Nat]]
  /\ held \in [action : Actions \cup {NoAction}, rev : Nat, asked : BOOLEAN]

\* Between the answer and the second attempt the yes is in pc; before and after in
\* the confirmation row.
YesIsOnRecord ==
  /\ pc \in {"attempt", "confirm", "stage", "sign"} => held.action \in Actions
  /\ pc \in {"stage", "sign"} => <<held.action, held.rev>> \in agreed
  /\ pc = "sign" => approval[held.action].state # "none"
  /\ \A a \in Actions : approval[a].state # "none" => <<a, approval[a].rev>> \in agreed

ApprovalInv == Shapes /\ YesIsOnRecord /\ ApprovalIsHeard

USE DEF input, store, Goto, Exit, Reads

\* The steps that leave approvals, answers and starts alone.
LEMMA OtherStepsKeepApproval ==
  ASSUME ApprovalInv,
         UNCHANGED <<approval, held, agreed, ran>>,
         pc' \in {"attempt", "confirm", "stage", "sign"} => pc' = pc \/ (pc = "attempt" /\ pc' = "confirm")
  PROVE  ApprovalInv'
BY DEF ApprovalInv, Shapes, YesIsOnRecord, ApprovalIsHeard

\* Every step of the process keeps the record of what was agreed to.
LEMMA ApprovalStep == ApprovalInv /\ [Next]_vars => ApprovalInv'
<1> SUFFICES ASSUME ApprovalInv, [Next]_vars PROVE ApprovalInv'
  OBVIOUS
<1>1. CASE UNCHANGED vars
  BY <1>1, OtherStepsKeepApproval DEF vars
<1>2. CASE main \/ terminate_session \/ interrupt
  BY <1>2, OtherStepsKeepApproval DEF main, terminate_session, interrupt
<1>3. CASE run_line \/ run_end \/ read_body \/ body_end
  <2>1. UNCHANGED <<approval, held, agreed, ran>>
    BY <1>3 DEF run_line, run_end, read_body, body_end
  <2>2. pc' \in {"prompt", "body", "submit", "closing"}
    BY <1>3 DEF run_line, run_end, read_body, body_end
  <2> QED
    BY <2>1, <2>2, OtherStepsKeepApproval
<1>4. CASE submit \/ classify_request \/ conversation_reply \/ loop_over
  BY <1>4, OtherStepsKeepApproval DEF submit, classify_request, conversation_reply, loop_over
<1>5. ASSUME NEW a \in Actions, accept_action(a) PROVE ApprovalInv'
  BY <1>5 DEF accept_action, ApprovalInv, Shapes, YesIsOnRecord, ApprovalIsHeard
<1>6. CASE attempt
  <2> DEFINE a == held.action
  <2>1. CASE ran' = ran
    <3>1. /\ UNCHANGED <<approval, agreed>>
          /\ held' \in [action : {held.action}, rev : {held.rev, held.rev + 1}, asked : {held.asked}]
          /\ pc' \in {"execute", "confirm", "prompt"}
          /\ pc' = "confirm" => held' = held /\ pc = "attempt"
      BY <1>6 DEF attempt, ApprovalInv, Shapes
    <3> QED
      BY <2>1, <3>1 DEF ApprovalInv, Shapes, YesIsOnRecord, ApprovalIsHeard
  <2>2. CASE ran' # ran
    <3>1. /\ action[a].rev = held.rev /\ Gate(a)
          /\ held' = [held EXCEPT !.rev = @ + 1]
          /\ ran' = ran \cup {<<a, held.rev>>}
          /\ pc' = "execute"
          /\ UNCHANGED <<approval, agreed>>
          /\ a \in Actions
      BY <1>6, <2>2 DEF attempt, ApprovalInv, YesIsOnRecord
    <3>2. a \in Gated => <<a, held.rev>> \in agreed
      BY <3>1 DEF Gate, ApprovalInv, Shapes, YesIsOnRecord
    <3>3. Shapes' /\ YesIsOnRecord'
      BY <3>1 DEF ApprovalInv, Shapes, YesIsOnRecord
    <3>4. ASSUME NEW r \in ran', r[1] \in Gated PROVE r \in agreed
      <4>1. CASE r \in ran
        BY <3>4, <4>1 DEF ApprovalInv, ApprovalIsHeard
      <4>2. CASE r = <<a, held.rev>>
        BY <3>2, <3>4, <4>2
      <4> QED
        BY <3>1, <4>1, <4>2
    <3> QED
      BY <3>1, <3>3, <3>4 DEF ApprovalInv, ApprovalIsHeard
  <2> QED
    BY <2>1, <2>2
<1>7. CASE answer
  <2>1. /\ UNCHANGED <<approval, held, ran>>
        /\ pc = "confirm"
        /\ agreed \subseteq agreed'
        /\ pc' \in {"stage", "prompt"}
        /\ pc' = "stage" => <<held.action, held.rev>> \in agreed'
    BY <1>7 DEF answer, Yes, Declined
  <2> QED
    BY <2>1 DEF ApprovalInv, Shapes, YesIsOnRecord, ApprovalIsHeard
<1>8. CASE answer_end \/ execute
  BY <1>8, OtherStepsKeepApproval DEF answer_end, execute
<1>9. CASE create_confirmation
  BY <1>9 DEF create_confirmation, ApprovalInv, Shapes, YesIsOnRecord, ApprovalIsHeard
<1>10. CASE confirm
  BY <1>10 DEF confirm, ApprovalInv, Shapes, YesIsOnRecord, ApprovalIsHeard
<1>11. CASE \/ \E line \in Lines : type_line(line)
            \/ end_input
            \/ \E a \in Actions : change_action(a)
  BY <1>11, OtherStepsKeepApproval DEF type_line, end_input, change_action
<1> QED
  BY <1>1, <1>2, <1>3, <1>4, <1>5, <1>6, <1>7, <1>8, <1>9, <1>10, <1>11 DEF Next, Process

\* Laws 21 and 32 (confirmation_policy, make_confirmation_gate), for any number of
\* actions, lines and changes: no gated action starts but at a revision at which a
\* human said yes to it.
THEOREM ApprovalAlwaysHeard == Spec => []ApprovalIsHeard
<1>1. Init => ApprovalInv
  <2> SUFFICES ASSUME Init PROVE ApprovalInv
    OBVIOUS
  <2>1. Shapes
    BY DEF Init, Shapes
  <2>2. YesIsOnRecord /\ ApprovalIsHeard
    BY DEF Init, YesIsOnRecord, ApprovalIsHeard
  <2> QED
    BY <2>1, <2>2 DEF ApprovalInv
<1>2. ApprovalInv => ApprovalIsHeard
  BY DEF ApprovalInv
<1> QED
  BY <1>1, <1>2, ApprovalStep, PTL DEF Spec

-----------------------------------------------------------------------------
\* While the process runs nothing has failed and no status is set; afterwards the
\* status has its reason, which no later line takes away.
EndHasReason ==
  /\ Running => code = 0 /\ ~fault
  /\ ~Running =>
       \/ code = 1 /\ fault
       \/ code = 0 /\ ~fault /\ \/ last = [line |-> "/quit", channel |-> "prompt"]
                                \/ AtEnd

USE DEF Running, AtEnd

\* The reason of the end is not lost.
LEMMA EndStep == EndHasReason /\ [Next]_vars => EndHasReason'
<1> SUFFICES ASSUME EndHasReason, [Next]_vars PROVE EndHasReason'
  OBVIOUS
<1> USE DEF EndHasReason
<1>1. CASE UNCHANGED vars
  BY <1>1 DEF vars
<1>2. CASE main \/ terminate_session \/ interrupt
  BY <1>2 DEF main, terminate_session, interrupt
<1>3. CASE run_line \/ read_body
  <2>1. /\ Running /\ UNCHANGED fault
        /\ \/ UNCHANGED code /\ pc' \in {"prompt", "body", "submit"}
           \/ /\ pc = "prompt" /\ Head(typed) = "/quit" /\ Exit(0)
              /\ last' = [line |-> Head(typed), channel |-> "prompt"]
    BY <1>3 DEF run_line, read_body
  <2> QED
    BY <2>1
<1>4. CASE run_end \/ body_end \/ answer_end
  BY <1>4 DEF run_end, body_end, answer_end
<1>5. CASE submit \/ classify_request \/ conversation_reply \/ loop_over
  BY <1>5 DEF submit, classify_request, conversation_reply, loop_over
<1>6. CASE attempt \/ answer \/ create_confirmation \/ confirm \/ execute
  BY <1>6 DEF attempt, answer, Declined, create_confirmation, confirm, execute
<1>7. ASSUME NEW a \in Actions, accept_action(a) \/ change_action(a) PROVE EndHasReason'
  BY <1>7 DEF accept_action, change_action
<1>8. CASE (\E line \in Lines : type_line(line)) \/ end_input
  BY <1>8 DEF type_line, end_input
<1> QED
  BY <1>1, <1>2, <1>3, <1>4, <1>5, <1>6, <1>7, <1>8 DEF Next, Process

\* The exit statuses of the terminal contract (InteractiveTerminal.run, main), for
\* any number of lines, requests and confirmations.
THEOREM ExitsAlwaysAsPromised == Spec => []ExitsAsPromised
<1>1. Init => EndHasReason
  BY DEF Init, EndHasReason
<1>2. EndHasReason => ExitsAsPromised
  BY DEF EndHasReason, ExitsAsPromised
<1> QED
  BY <1>1, <1>2, EndStep, PTL DEF Spec
=============================================================================
