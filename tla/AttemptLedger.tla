---------------------------- MODULE AttemptLedger ----------------------------
(***************************************************************************)
(* What the execution core promises about external attempts, with no       *)
(* store, thread, plan or revision in sight: an attempt is intended, then  *)
(* started, and only then may it act on the world, once.  A settled        *)
(* attempt never acts again, and what it settles as is what happened.  An  *)
(* attempt revoked while it runs may still act; one withdrawn has not and  *)
(* never will.                                                             *)
(***************************************************************************)
EXTENDS Naturals

CONSTANT Attempts

VARIABLES stage,   \* how far each attempt has come
          done     \* how often it has acted on the world

ledgerVars == <<stage, done>>

Stage == {"unborn", "intended", "started", "succeeded", "no_effect",
          "uncertain", "revoked", "withdrawn"}

LedgerInit ==
  /\ stage = [a \in Attempts |-> "unborn"]
  /\ done = [a \in Attempts |-> 0]

Move(a, from, to) ==
  /\ stage[a] = from
  /\ stage' = [stage EXCEPT ![a] = to]
  /\ UNCHANGED done

Intend(a)   == Move(a, "unborn", "intended")
Withdraw(a) == Move(a, "intended", "withdrawn")
Start(a)    == Move(a, "intended", "started")
Revoke(a)   == Move(a, "started", "revoked")

Act(a) ==
  /\ stage[a] \in {"started", "revoked"}
  /\ done[a] = 0
  /\ done' = [done EXCEPT ![a] = 1]
  /\ UNCHANGED stage

Succeed(a) == done[a] = 1 /\ Move(a, "started", "succeeded")
Fail(a)    == done[a] = 0 /\ Move(a, "started", "no_effect")
Doubt(a)   == Move(a, "started", "uncertain")

\* Nothing can act for these any more, and nothing has: a process death
\* withdraws them all at once.
WithdrawAll(S) ==
  /\ \A a \in S : stage[a] \in {"started", "revoked"} /\ done[a] = 0
  /\ stage' = [a \in Attempts |-> IF a \in S THEN "withdrawn" ELSE stage[a]]
  /\ UNCHANGED done

LedgerStep(a) ==
  \/ Intend(a)
  \/ Withdraw(a)
  \/ Start(a)
  \/ Revoke(a)
  \/ Act(a)
  \/ Succeed(a)
  \/ Fail(a)
  \/ Doubt(a)

LedgerNext ==
  \/ \E a \in Attempts : LedgerStep(a)
  \/ \E S \in SUBSET Attempts : WithdrawAll(S)

LedgerSpec == LedgerInit /\ [][LedgerNext]_ledgerVars
=============================================================================
