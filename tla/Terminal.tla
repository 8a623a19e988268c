------------------------------ MODULE Terminal ------------------------------
(***************************************************************************)
(* The interactive process (scripts/run_interactive.py, v5/terminal.py):   *)
(* one thread reads lines, obeys local commands, asks the classifier       *)
(* (v5/conversation.py) and hands a directive to the live loop, which      *)
(* comes back for a confirmation when an action needs one (v5/safety.py).  *)
(*                                                                         *)
(* The human types ahead, ends the input or interrupts at any time; other  *)
(* threads change the actions.  Of the live loop only the driving of its   *)
(* gated actions is here (LiveLoop has the rest).  Texts, rendering and    *)
(* the /debug switch are left out.                                         *)
(***************************************************************************)
EXTENDS Naturals, Sequences

CONSTANTS Actions,
          NoAction,
          Gated,     \* actions whose capability requires confirmation
          Lines,     \* what the human may type
          MaxLines,  \* bound: lines typed
          MaxRev     \* bound: changes of an action by others

ASSUME TerminalConstants ==
  /\ Gated \subseteq Actions
  /\ NoAction \notin Actions
  /\ Lines \subseteq {"", "/quit", "/help", "<<EOF", "END", "y", "text"}
  /\ MaxLines \in Nat /\ MaxRev \in Nat

VARIABLES typed,     \* the lines typed and not yet read
          left,      \* how many more the human may type
          closed,    \* the input ends after them
          pc,        \* where the process is
          body,      \* the multiline body so far: none, one empty line, or text
          provider,  \* _provider
          session,   \* the session's state
          held,      \* the action the loop drives: id, revision, whether it asked
          action,    \* id -> status and revision
          approval,  \* id -> its confirmation row
          code,      \* the exit status
          last,      \* the line read last and the channel it was read on
          agreed,    \* the <<action, revision>> pairs the human said yes to
          ran,       \* the <<action, revision>> pairs that were started
          fault      \* something other than a request failed

input == <<typed, left, closed>>
store == <<session, action, approval>>
vars  == <<input, store, pc, body, provider, held, code, last, agreed, ran, fault>>

Running == pc \notin {"closing", "exited"}

Exit(c) == pc' = "closing" /\ code' = c
Goto(p) == pc' = p /\ UNCHANGED code

-----------------------------------------------------------------------------
(* The process.                                                            *)

\* main: the store, the workspace and the session; a store that cannot be opened
\* is the end.
main ==
  /\ pc = "start"
  /\ \/ session' = "LIVE" /\ Goto("prompt") /\ UNCHANGED fault
     \/ Exit(1) /\ fault' = TRUE /\ UNCHANGED session
  /\ UNCHANGED <<input, action, approval, body, provider, held, last, agreed, ran>>

\* KeyboardInterrupt, or output that fails: from the loop, too, because what the
\* loop's handler says goes to the same output.
interrupt ==
  /\ pc # "start" /\ Running
  /\ Exit(1) /\ fault' = TRUE
  /\ UNCHANGED <<input, store, body, provider, held, last, agreed, ran>>

\* The finally clause; an error of the store is swallowed.
terminate_session ==
  /\ pc = "closing"
  /\ pc' = "exited"
  /\ \/ session = "LIVE" /\ session' = "TERMINATED"
     \/ UNCHANGED session
  /\ UNCHANGED <<input, action, approval, body, provider, held, code, last, agreed, ran, fault>>

-----------------------------------------------------------------------------
(* Reading.                                                                *)

\* One line, on the channel of the one who asked.
Reads(channel) ==
  /\ typed # <<>>
  /\ typed' = Tail(typed)
  /\ last' = [line |-> Head(typed), channel |-> channel]
  /\ UNCHANGED <<left, closed>>

AtEnd == typed = <<>> /\ closed

run_line ==
  /\ pc = "prompt"
  /\ Reads("prompt")
  /\ CASE Head(typed) = "/quit" -> Exit(0) /\ UNCHANGED body
       [] Head(typed) \in {"", "/help"} -> UNCHANGED <<pc, code, body>>
       [] Head(typed) = "<<EOF" -> Goto("body") /\ body' = "none"
       [] OTHER -> Goto("submit") /\ UNCHANGED body
  /\ UNCHANGED <<store, provider, held, agreed, ran, fault>>

run_end ==
  /\ pc = "prompt" /\ AtEnd
  /\ Exit(0)
  /\ UNCHANGED <<input, store, body, provider, held, last, agreed, ran, fault>>

\* Everything but END is content, commands too.  A body of no line or of one empty
\* line is the empty string.
Grown(b, line) == IF b = "none" /\ line = "" THEN "empty" ELSE "text"

read_body ==
  /\ pc = "body"
  /\ Reads("body")
  /\ \/ /\ Head(typed) = "END"
        /\ Goto(IF body = "text" THEN "submit" ELSE "prompt")
        /\ UNCHANGED body
     \/ /\ Head(typed) # "END"
        /\ body' = Grown(body, Head(typed))
        /\ UNCHANGED <<pc, code>>
  /\ UNCHANGED <<store, provider, held, agreed, ran, fault>>

\* Mutant: the end of the input reads like an empty line.
body_end_EmptyLine ==
  /\ pc = "body" /\ AtEnd
  /\ body' = Grown(body, "")
  /\ UNCHANGED <<input, store, pc, code, provider, held, last, agreed, ran, fault>>

body_end ==
  /\ pc = "body" /\ AtEnd
  /\ Exit(0)
  /\ UNCHANGED <<input, store, body, provider, held, last, agreed, ran, fault>>

-----------------------------------------------------------------------------
(* A request.                                                              *)

\* _ensure_provider.
submit ==
  /\ pc = "submit"
  /\ \/ provider' = "built" /\ Goto("classify") /\ UNCHANGED fault
     \/ provider = "none" /\ Exit(1) /\ fault' = TRUE /\ UNCHANGED provider
  /\ UNCHANGED <<input, store, body, held, last, agreed, ran>>

\* classify_request: no call, an unknown kind and an exception mean work.
classify_request ==
  /\ pc = "classify"
  /\ \E answer \in {"work", "conversation", "unusable"} :
       Goto(IF answer = "conversation" THEN "reply" ELSE "loop")
  /\ UNCHANGED <<input, store, body, provider, held, last, agreed, ran, fault>>

\* conversation_reply: a reply, a guarded one, or the line for a failure.
conversation_reply ==
  /\ pc = "reply"
  /\ Goto("prompt")
  /\ UNCHANGED <<input, store, body, provider, held, last, agreed, ran, fault>>

\* run_live_slice returns or raises; either way the session goes on.
loop_over ==
  /\ pc = "loop"
  /\ Goto("prompt")
  /\ UNCHANGED <<input, store, body, provider, held, last, agreed, ran, fault>>

accept_action(a) ==
  /\ pc = "loop"
  /\ action[a].status = "ABSENT"
  /\ action' = [action EXCEPT ![a] = [status |-> "PENDING", rev |-> 1]]
  /\ held' = [action |-> a, rev |-> 1, asked |-> FALSE]
  /\ Goto("attempt")
  /\ UNCHANGED <<input, session, approval, body, provider, last, agreed, ran, fault>>

\* make_confirmation_gate.
Gate(a) == a \in Gated => approval[a] = [state |-> "confirmed", rev |-> action[a].rev]

\* begin_executing: the gate is asked last; what it refuses goes to the human, once.
attempt ==
  LET a == held.action
      able == action[a] = [status |-> "PENDING", rev |-> held.rev] IN
  /\ pc = "attempt"
  /\ \/ /\ able /\ Gate(a)
        /\ action' = [action EXCEPT ![a] = [status |-> "EXECUTING", rev |-> @.rev + 1]]
        /\ held' = [held EXCEPT !.rev = @ + 1]
        /\ ran' = ran \cup {<<a, held.rev>>}
        /\ Goto("execute")
     \/ /\ able /\ ~Gate(a) /\ ~held.asked
        /\ Goto("confirm")
        /\ UNCHANGED <<action, held, ran>>
     \/ /\ able => ~Gate(a) /\ held.asked
        /\ Goto("prompt")
        /\ UNCHANGED <<action, held, ran>>
  /\ UNCHANGED <<input, session, approval, body, provider, last, agreed, fault>>

\* Mutant: the return key says yes.
Yes_Default(line) == line \in {"y", ""}

Yes(line) == line = "y"

\* Mutant: a refusal is the end, like the end of the input.
Declined_Leaves == Exit(0)

Declined == Goto("prompt")

\* confirmation_policy: whatever was typed next is the answer.
answer ==
  /\ pc = "confirm"
  /\ Reads("confirm")
  /\ agreed' = IF Head(typed) = "y" THEN agreed \cup {<<held.action, held.rev>>} ELSE agreed
  /\ IF Yes(Head(typed)) THEN Goto("stage") ELSE Declined
  /\ UNCHANGED <<store, body, provider, held, ran, fault>>

\* CONFIRMATION_EOF goes through the loop to submit.
answer_end ==
  /\ pc = "confirm" /\ AtEnd
  /\ Exit(0)
  /\ UNCHANGED <<input, store, body, provider, held, last, agreed, ran, fault>>

\* create_confirmation and confirm, a transaction each.
create_confirmation ==
  /\ pc = "stage"
  /\ approval' = [approval EXCEPT ![held.action] = [state |-> "staged", rev |-> held.rev]]
  /\ Goto("sign")
  /\ UNCHANGED <<input, session, action, body, provider, held, last, agreed, ran, fault>>

confirm ==
  /\ pc = "sign"
  /\ approval' = [approval EXCEPT ![held.action].state = "confirmed"]
  /\ held' = [held EXCEPT !.asked = TRUE]
  /\ Goto("attempt")
  /\ UNCHANGED <<input, session, action, body, provider, last, agreed, ran, fault>>

\* The capability and the report; only an observation lets the loop go on.
execute ==
  LET a == held.action IN
  /\ pc = "execute"
  /\ \/ /\ action[a] = [status |-> "EXECUTING", rev |-> held.rev]
        /\ \E outcome \in {"OBSERVED", "FAILED", "UNKNOWN_OUTCOME"} :
             /\ action' = [action EXCEPT ![a] = [status |-> outcome, rev |-> @.rev + 1]]
             /\ Goto(IF outcome = "OBSERVED" THEN "loop" ELSE "prompt")
     \/ /\ action[a] # [status |-> "EXECUTING", rev |-> held.rev]
        /\ Goto("prompt")
        /\ UNCHANGED action
  /\ UNCHANGED <<input, session, approval, body, provider, held, last, agreed, ran, fault>>

-----------------------------------------------------------------------------
(* The human and the other threads.                                        *)

type_line(line) ==
  /\ left > 0 /\ ~closed /\ pc # "exited"
  /\ typed' = Append(typed, line)
  /\ left' = left - 1
  /\ UNCHANGED <<store, closed, pc, body, provider, held, code, last, agreed, ran, fault>>

end_input ==
  /\ ~closed /\ pc # "exited"
  /\ closed' = TRUE
  /\ UNCHANGED <<typed, left, store, pc, body, provider, held, code, last, agreed, ran, fault>>

\* cancel_action, or a freeze that a repair took back: the revision has moved on.
change_action(a) ==
  /\ action[a].status \in {"PENDING", "EXECUTING"} /\ action[a].rev < MaxRev
  /\ \E status \in {"CANCELLED", action[a].status} :
       action' = [action EXCEPT ![a] = [status |-> status, rev |-> @.rev + 1]]
  /\ UNCHANGED <<input, session, approval, pc, body, provider, held, code, last, agreed, ran, fault>>

-----------------------------------------------------------------------------
Init ==
  /\ typed = <<>> /\ left = MaxLines /\ closed = FALSE
  /\ pc = "start" /\ body = "none" /\ provider = "none" /\ session = "none"
  /\ held = [action |-> NoAction, rev |-> 0, asked |-> FALSE]
  /\ action = [a \in Actions |-> [status |-> "ABSENT", rev |-> 0]]
  /\ approval = [a \in Actions |-> [state |-> "none", rev |-> 0]]
  /\ code = 0 /\ last = [line |-> "", channel |-> "none"]
  /\ agreed = {} /\ ran = {} /\ fault = FALSE

Process ==
  \/ main \/ terminate_session
  \/ run_line \/ run_end \/ read_body \/ body_end
  \/ submit \/ classify_request \/ conversation_reply
  \/ loop_over \/ (\E a \in Actions : accept_action(a))
  \/ attempt \/ answer \/ answer_end \/ create_confirmation \/ confirm \/ execute

Next ==
  \/ Process \/ interrupt
  \/ \E line \in Lines : type_line(line)
  \/ end_input
  \/ \E a \in Actions : change_action(a)

\* One thread that waits for nothing but a line; provider and capability answer.
Spec == Init /\ [][Next]_vars /\ WF_vars(Process)

-----------------------------------------------------------------------------
(* Safety.                                                                 *)

\* Laws 21 and 32 (confirmation_policy, make_confirmation_gate): a gated action
\* starts only at the revision at which a human who was asked about it, and about
\* nothing else, said yes: not by a command, a default, an answer to another
\* question, or after the action has changed.
ApprovalIsHeard ==
  \A r \in ran : r[1] \in Gated => r \in agreed

\* The exit statuses of the terminal contract: 0 after /quit at the prompt, or after
\* the end of the input with every line read; 1 only if something failed that is
\* no request.  A refused, failed or rejected request ends nothing.
ExitsAsPromised ==
  pc = "exited" =>
    \/ code = 1 /\ fault
    \/ code = 0 /\ ~fault /\ \/ last = [line |-> "/quit", channel |-> "prompt"]
                             \/ AtEnd

(* Liveness.                                                               *)

\* Wherever the input ends, at the prompt, in a body, at a confirmation, while the
\* loop runs, the process comes to its end.
ClosedInputEnds == closed ~> pc = "exited"
=============================================================================
