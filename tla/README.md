# A verification development of the JARVIS V5 state foundation

The repository is the state foundation of an assistant: a SQLite store of goals,
tasks, plans, steps, actions, observations, evidence, claims, verifications and
obligations, the services that change it, an executor that runs capabilities
(file operations) around it, startup recovery, and a loop that lets a language
model propose the work. Its Constitution (a list of numbered laws) and Implementation Contract
say what must hold of the state when threads race, plans change under a running
action and the process dies. This directory models that, checks it with TLC on
small instances and proves the core, integrity repair, the provenance chain, the
live loop, the terminal and part of the investigation with TLAPS.

## 1. Inventory

| Part | Code | State it keeps | Operations that change it |
|---|---|---|---|
| Lifecycle tables | `v5/enums.py` | none | none: statuses, transition tables, terminal sets |
| Store | `v5/store.py` | the database file | `write` (BEGIN IMMEDIATE under a process lock, COMMIT or ROLLBACK), `read` |
| Work service | `v5/work.py` | goals, tasks, plans, steps, dependencies | create, activate/supersede plan, complete, cancel, archive, transition, complete_step, freeze, add_dependency |
| Execution service | `v5/execution.py` | actions, observations, the retry budget of tasks | create, begin, observed, unknown outcome, failed, cancel, retry, freeze |
| Obligations service | `v5/obligations.py` | obligations | create, transfer, abandon, resolve, hand-over of a subtree |
| Executor and capabilities | `v5/capabilities` | the outside world | `execute_action`: begin, run the capability, report |
| Recovery | `v5/recovery.py` | none of its own | `recover` marks what a dead process left EXECUTING |
| Evidence and claims | `v5/evidence.py` | evidence, claim versions, verifications | create evidence, create/revise claim, run verification |
| Verification methods | `v5/verification.py` | none | evaluators of one evidence item |
| Repair | `v5/repair.py` | any row | `repair_object`, `abandon_unrepairable` |
| Sessions, confirmation gate | `v5/sessions.py`, `v5/safety.py` | sessions, confirmation outcomes | start, terminate, record a human's decision, the check before an execution |
| Cognition | `v5/cognition.py` | sessions, event log | reads a context for the model, dispatches its emissions to the services |
| Live loop | `v5/live_loop.py` | a run's stage in memory | the stages goal, task, plan, action of one model-driven run |
| Investigation | `codebase_query` in `v5/capabilities`, its method in `v5/verification.py`, the digest in `v5/live_loop.py` | the source tree, which anybody may edit | search, read, measure again, digest |
| Conversation | `v5/conversation.py` | none | classify a request, reply to one that is no work |
| Terminal | `v5/terminal.py`, `scripts/run_interactive.py` | the lines typed, the provider, the session | read a line, a body or an answer, submit, exit |

How they interact: every operation of a service is one call of `Store.write`, so
one transaction; a service that needs another's row change inside its own
transaction calls a `_locked` helper of it (a terminal transition hands over
obligations; an unknown outcome mints one). Everything between two transactions
is in the caller's local variables: a row it read, and that row's revision. The
executor is the one place where an external effect happens between two
transactions.

What is hard: two threads hold the same PENDING action; a plan is superseded, an
action cancelled or frozen, or its task closed, between the two transactions of
`execute_action`; a process death anywhere, also during recovery; retries decided
on a task revision that is out of date; an obligation disposed of from several
sides; terminal operations that must move a whole subtree's obligations in their
own commit; a human's repair, outside all transition tables, in the middle of any
of this; two measurements of a tree that is edited between and during them; lines
typed ahead of the question they will answer. PROJECT.json lists these as hazards, each at its line.

## 2. Modules

* **Lifecycle**: the transition tables as functions, the terminal sets.
* **Obligations**: one row per obligation; every operation of the service.
* **Work** (extends Obligations): goals, tasks and plans; activation,
  supersession, completion, cancellation, archiving, generic transition, freeze.
* **Execution** (extends Work): actions and observations, the threads inside
  `execute_action`, retry triggers, the outside world (`effect`), process death,
  restart and recovery.
* **Core**: `Init`, `Next`, `Spec`, `FairSpec` and the properties.
* **AttemptLedger**: an abstract specification of what the core promises about
  external attempts, without store, threads, plans or revisions.
  **AttemptRefinement** reads the ledger off the core's state.
* **Repair** (extends Core): humans look at rows and repair or abandon them, in
  any state of the core.
* **MCCore, MCRepair**: instances for TLC.
* **Core_proofs** (facts about the tables, types, attempts and the refinement of the
  ledger; then endings, obligations, plans and the budget) and **Repair_proofs**
  (extends Repair and Core_proofs): theorems.

### Correspondence of the core to the code

* A row is a record per id; an id not used yet has status or disposition
  `ABSENT`. A transaction is one action. A transaction that returns `Rejected`
  changes nothing and is a stuttering step, except where the caller's own state
  changes with the answer (`begin_rejected`, `report_rejected`,
  `retry_rejected`).
* A revision is kept where somebody remembers it from one transaction to another:
  tasks (retry triggers) and actions (executor threads). Elsewhere the caller
  passes a revision it has just read and the comparison holds for every accepted
  call.
* A step row is abstracted to the plan it belongs to: the core asks a step only
  for its plan, and the executor names the plan it drives, which is the plan of
  the action's step. `PlanCurrent` is what remains of `_plan_mismatch_locked`.
* `effect[a]` counts how often the capability's external effect took place for
  the attempt. It is the outside world: no operation of the code reads it.
* The guards of `complete_object` about children and verifications, and of
  `resolve_obligation` about the cited evidence, are free choices or reduced to
  what the core can see (`observed`): all histories of the code are included.
* `HostActions` are the attempts a host may create by hand; the others can only
  become retries. `MovedGoals` are the goals the work service touches.
* `recover()` is run by a restart when `RunRecovery` is TRUE. No program in the
  repository calls it (section 5), so the runs state what holds for an
  entry point that does.

### The other modules

* **Evidence** (extends Obligations): evidence rows, claim versions,
  verifications and the threads inside `run_method_for_action`, together with
  what they rest on: actions that settle, human repairs of actions and
  verifications, obligations, and a file system that anybody may change at any
  time. `run_verification` is two transactions with the evaluation in the second
  one, so it is three actions (`make_evaluator`, `start_run`, `finish_run`) and a
  rejection in either transaction (`run_rejected`). **MCEvidence** has its
  instances, **Evidence_proofs** its theorems.
* **PlanOrder**: the walk of `_dependency_order` as a fold of passes. **Order_proofs** has
  the theorem about it, and the lemmas about induction and folds it needs.
* **Dependencies** (extends PlanOrder): the dependency graph of one plan, its
  edits and repairs by callers with snapshots of any age, and the colouring
  search `_has_cycle`. The code's nested `visit` calls itself; the model follows the
  calls along their stack (`path`, which is also the grey nodes), one call, return or
  look at an edge per step. It is checked against a definition of cycles that knows no
  colours. **MCDependencies** has its instance, **Dependencies_proofs** (extends
  Order_proofs for induction) its theorems.
* **Investigation**: one `codebase_query` step, from the capability's walk over
  the verifier's second walk to the digest the model is shown, while others edit
  the tree. Capability and verifier run the same actions, as the code has them
  call the same functions; `phase` says for whom. **MCInvestigation** has its
  instance, **Investigation_proofs** (extends Order_proofs for induction) its theorems.
* **Terminal**: the interactive process, its one thread and its input.
  **MCTerminal** has its instance, **Terminal_proofs** its theorems.
* **LiveLoop** (extends PlanOrder, Lifecycle): one run of `run_live_slice`, from
  the first provider call to the completed task, with the gate of `safety.py` and
  the session check of `cognition.py`, while others cancel, supersede, write the
  steps and terminate. **MCLiveLoop** has its instances, **LiveLoop_proofs** (extends Order_proofs)
  its theorems.

How their state corresponds to the code:

* `Evidence!claim[k]` is the list of versions of a claim id; everybody who asks
  for a claim gets its last version, as `load_claim` does. The cited evidence, the
  confidence (HIGH or not) and the origin of an item matter; statement texts,
  timestamps and independence levels are left out. INFERENCE and UNKNOWN evidence
  is treated alike by every operation, so it has one status, UNCONFIRMED.
* `Evidence!settle` stands for the execution core: an attempt ends OBSERVED with a
  report, which may be wrong, or UNKNOWN_OUTCOME. It keeps the first Observation: an
  action repaired to another status may be observed again, but its report stays the one
  the provenance of earlier evidence names. `world` is the file system.
* The evaluator of `verify_file_read` compares the file with the report that was
  read before the first transaction. Made too early it has no report and answers
  INCONCLUSIVE, which is final. That case is in `Outcomes`.
* `Dependencies` numbers the steps of a plan in the order they are minted; 0 is
  the id of a step of another plan. `add_dependency` does not ask for the plan's
  status and `create_step` not for the existence of the dependencies, so neither
  does the model. A repair is taken to name every step of the plan as a key: that
  is what a repair of the committed row starts from. `depends_on` is the copy kept
  in the steps' rows: `add_dependency` keeps it in step and a repair does not,
  which contradicts the comment at `repair.py:289-291`; no decision reads it.
* `LiveLoop!run` is the record of `run_live_slice`'s and `_drive_step`'s local
  variables, `pc` included. The model behind the provider may do anything the
  dispatcher lets through; a rejection for reasons the module does not see (a
  wrong id, a stale revision, an invalid field) is always possible.
* `LiveLoop!step` has the status and the revision of a step's row. Anybody may call
  `transition_object`, `complete_step` or, as a human, `repair_object` on a step:
  `write_step` writes any status of `OtherStatuses` to a step of `OtherSteps`, at any
  moment, and takes the next revision. The run moves a step in three transactions that
  compare the revision it remembers: `transition_step` twice, where `.value` of a
  rejection raises, and `complete_step`, whose answer the code does not look at.
  `others` counts the writes by others and is read by the properties only: no
  operation of the run depends on it.
* In the loop the gate's binding to a revision and to the arguments is reduced to
  a binding to the action: the loop stages the confirmation from the row it holds,
  and `begin_executing` compares that row's revision with the store before it asks
  the gate.
* `Repair!sight[h]` is what a human remembers: the object, its revision, and
  whether the row is still the one it read. repair.py compares revisions. For
  tasks and actions, whose revisions the core keeps, so does the model, and
  `fresh` is there for the properties only; that an equal revision means a fresh
  row is the theorem `RepairsAreInformed`. For goals, plans and obligations
  `fresh` stands for the comparison. An authorization is used once: after the
  answer the human has to look again.
* A repair patches the fields it names, takes the next revision and unfreezes; a
  terminal status, or the abandonment, hands over the subtree's obligations.
  `RecoveringAfterRepair` is `recover()` with its first branch, which freezes an
  EXECUTING attempt that has an Observation: only a repair makes one.
* `Investigation!tree` maps a name to what stands there: text with its lines, or
  something the instrument leaves aside (wrong glob, too large, not UTF-8, outside
  the root), or nothing. A line is whether the pattern matches it. Each directory
  is listed in one step and each file read in one step; between any two the tree
  may change. In a read a line stands for a character, of one or two bytes, for
  the cap is measured in bytes and applied to characters.
* `Terminal!typed` holds the lines the human typed before anybody asked for them.
  `last` and `agreed` record which question a line answered; no operation reads
  them. The live loop appears as what comes back to the terminal: an action
  accepted, an attempt blocked by the gate, the outcome of a run. An action's
  revision may move at any time, by a cancellation or a freeze and its repair.
* Goal rows, texts and the call for findings after the run, which writes nothing,
  are left out. A freeze acts on the loop like a cancellation. A verification is one
  action of the loop: its two transactions are Evidence's subject. The process does not die in this module:
  the code has no way to resume a run.

## 3. Runs, bounds and fairness

A run that passes holds several questions about one instance. Every property has
a mutant in PROJECT.json, a plausible bug of the code for which TLC finds the
property violated under the same configuration.

| Run | Instance | What it shows |
|---|---|---|
| `core_attempts` | 1 task, 1 plan, 2 attempts, 2 threads, 2 process deaths, no moves of the goal | intent before effect, at most one effect, true outcomes, no started attempt without a thread or a recovery, the refinement of AttemptLedger, and that every started attempt settles |
| `core_plans` | 1 task, 2 plans, 3 attempts of which 2 can only be retries, 1 thread, 2 racing triggers, budget 1 | no start under a closed task, a replaced plan stays replaced, the budget counts exactly the retries that exist |
| `core_obligations` | 1 goal, 2 tasks, 1 attempt, a runtime and a host obligation, 1 death | what is uncertain stays owed, closing hands over, dispositions and statuses are final |
| `repair` | 2 humans, 1 goal, task, plan, attempt, obligation and thread, 1 death, 1 repair | a repair replaces what its human saw, old authority ends with it, nothing observed is made up, endings hand over, what is frozen waits, recovery does not guess |
| `evidence_chain` | 2 actions, 1 item, 1 claim with 2 versions, 2 verifications, 1 obligation, 1 file with 2 contents | HIGH confidence and resolutions rest on an Observation; PASS needs the requirement's own occurrence and was true when written |
| `dependencies` | up to 3 steps, 2 callers, 2 changes of the plan row | no cycle is ever committed, the search is exact, the walk is topological |
| `investigation` | every tree of 2 directories with 2 files each, six kinds of file, 1 edit | a PASS is true, an honest answer passes, no cap hides a match unnoticed |
| `live_loop` | 2 tasks, 2 plans (2 steps and 1), 2 actions, 2 verifications, up to 2 calls a turn, 6 turns, 1 write of a step by others | order, approval, single attempts, what `ok` means, no proposals after termination, and that the run ends |
| `terminal` | 3 actions, 2 of them gated, 4 lines of 7 kinds, 1 change of each action by others | a gated action starts only after a yes to its own question, the exit status is the promised one, the process ends when its input does |

Three more runs each refute something a document or comment says (section 5).

Why the bounds are enough:

* A race needs two threads and one attempt; a second attempt shows that one does
  not disturb the other. Two deaths are needed to die during recovery.
* `MaxRev` stops `transition_object` from moving a task for ever, and
  `MaxActionRev` stops the repetition of freezes. Each allows every order of one
  such change with the other operations. In runs whose question is not about
  freezes `MaxActionRev` is 0.
* `core_plans` has no obligations, so no attempt can become uncertain there;
  retries of FAILED attempts and of uncertain ones take the same path through the
  budget, and `BudgetIsExact` is proved for both.
* In `repair` one committed repair (`MaxRepairs`) is enough: the second human's
  authorization is what goes stale, and the death and the recovery come after
  it. Each kind of object has a repair that undoes a final state, one that ends
  the object and one of the field other rows hang on (MCRepair). The theorems are
  about any number of repairs.
* In `investigation` the caps are 3 files, 2 matches, 3 bytes of a read and 1 match in the
  digest. Files of up to three lines in two directories reach every cap on the
  first, the last and a middle line and file. As in the code the digest's cap is
  smaller than the search's. One edit (`MaxEdits`) may fall in any phase.
* In `terminal` four lines (`MaxLines`) are a body with its markers, or a request,
  an answer and another request; `MaxRev` allows one change of an action between
  any two steps. The theorems are about any number of lines and actions.
* `TaskTargets`, `GoalTargets` and `PlanTargets` say where `transition_object` is
  called to. The runs use non-terminal targets for goals and tasks, which is what
  the docstring of the operation says it is for; section 5 says what happens with
  a terminal one.
* In `evidence_chain` one runner is enough for a verification to be overtaken by
  repairs, by the world and by deaths. Two overlapping runs are the subject of
  `claim_rewritten_outcome`. One file that both actions name is the hard case.
* In `dependencies` a cycle of three, a diamond of two ways, and a foreign
  dependency all fit in three steps; two changes after the creation of any graph
  of up to three steps leave room for two opposite edges. Deadlock is checked:
  reading never ends.
* In `live_loop` the first plan is listed in the wrong order and its second step
  needs approval; a second call in a turn can replace the plan or the action. A
  run of two steps takes five turns, so six leave room for one rejection or one
  reprompt. One write of the first step by others (`MaxOthers`), to CANCELLED, a
  move the table allows, or back to PENDING, a repair, may fall before, between and after
  the three transactions that move the step, and before the task is completed; the
  theorems are about any number of writes, steps and statuses. The code halts at the
  fifth rejection; here the second one halts, so that both answers to a rejection occur
  within the turns.

Deadlock is not checked where the instance may be used up: every attempt
settled, every id minted, the run over.

### Fairness

* **Core.** Weak fairness of every thread inside `execute_action`
  (`capabilities/__init__.py`: straight-line code around a capability that returns
  or raises, no wait for a condition), of the restart and of `recover()`. A thread
  that only holds an action is inside `Executing` too: the host calls
  `execute_action` right after reading the row. Users, triggers, the work service
  and death are under no obligation. That somebody restarts the process and calls
  `recover()` is an assumption about the entry point: no program under `scripts/`
  does (`RunRecovery`).
* **Live loop.** Weak fairness of the loop's own steps, `Turn \/ Drive`: one
  thread, which waits for the provider, the human and the capability and for
  nothing else. The runs take each of these to answer. Everybody else is under no
  obligation.
* **Terminal.** Weak fairness of the process: one thread that waits for a line
  and for nothing else. A provider, a capability and the loop are taken to answer
  (the provider's client has a timeout, the loop's end is `RunEnds`), and a loop
  drives each of the finitely many actions once. The human is under no obligation;
  the property starts from a closed input.
* **Evidence, Dependencies, Repair, Investigation.** No fairness; their properties are safety.

## 4. Proofs

Eight modules hold theorems, checked by TLAPS for every value of the constants:
any number of goals, tasks, plans, attempts, obligations, threads, triggers,
humans, repairs, claims, evidence items, verifications, steps, files, lines, edits and
deaths, under the assumptions the modules name (`ObligationConstants`, `WorkConstants`,
`ExecutionConstants`, `RepairConstants`, `RepairRequests`, `EvidenceConstants`,
`LoopConstants`, `InvestigationConstants`, `DigestIsShorter`, `DependencyConstants`,
`TerminalConstants`).
`DigestIsShorter` is that the digest's caps (12 and 25 matches) are below the search's (50):
the search may leave a directory full without calling itself truncated, and only the
smaller cap of the digest says so to the model. `LoopConstants` assumes of
the plans what `create_plan_with_steps` and `cognition.py` reject otherwise: a plan lists
at least one step, none twice, depends on its own steps only, and has no cycle. The last
column says what else a theorem assumes: *non-terminal targets* is that
`transition_object` is not called with a terminal status (section 5).

| Theorem | Module | What it says | Assumes |
|---|---|---|---|
| `TypesAlwaysOK` | Core_proofs | `TypeOK` | |
| `AttemptInvariance` | Core_proofs | the inductive invariant of attempts | |
| `EffectsFollowIntent`, `EffectsHappenOnce` | Core_proofs | `EffectAfterIntent`, `AtMostOneEffect` | |
| `OutcomesAreTruthful` | Core_proofs | `TruthfulOutcome` | |
| `ObservationsMatchStatus` | Core_proofs | `ObservationIffObserved` | |
| `CoreImplementsLedger` | Core_proofs | `ImplementsLedger`: the core refines AttemptLedger | |
| `EndingsAreFinal`, `DispositionsAreFinal` | Core_proofs | `TerminalIsFinal`, `DispositionIsFinal` | |
| `EndingsHandOver` | Core_proofs | `ClosingHandsOver` | non-terminal targets |
| `UncertaintyStaysOwed` | Core_proofs | `UncertainStaysOwed` | |
| `PlanInvariance` | Core_proofs | `ClosedTaskHasNoPlan`, and that stale is for good | non-terminal task targets |
| `NothingStartsUnderClosedTasks` | Core_proofs | `NoStartUnderClosedTask` | non-terminal task targets |
| `ReplacedPlansStayReplaced` | Core_proofs | `StaleStaysStale` | non-terminal task targets |
| `ExecutionsAreNotLost` | Core_proofs | `NoLostExecution` | the same, and `RunRecovery` |
| `BudgetIsExact` | Core_proofs | `RetryBudgetExact` | |
| `RepairInvariance` | Repair_proofs | the inductive invariant of repair | |
| `RepairsAreInformed`, `AuthorityStaysCurrent` | Repair_proofs | `RepairsWhatWasSeen`, `AuthorityIsCurrent` | |
| `ObservationsAreReal`, `RecoveryDoesNotGuess` | Repair_proofs | `ObservedIsReal`, `RecoveryNeverGuesses` | |
| `RepairedEndingsHandOver` | Repair_proofs | `EndingHandsOver` | non-terminal targets |
| `FreezesHold` | Repair_proofs | `FrozenWaitsForRepair` | |
| `ApprovalAlwaysHeard`, `ExitsAlwaysAsPromised` | Terminal_proofs | `ApprovalIsHeard`, `ExitsAsPromised` | |
| `ChainInvariance` | Evidence_proofs | the inductive invariant of the provenance chain | |
| `HighAlwaysRests`, `ResolutionsAreWitnessed` | Evidence_proofs | `HighRestsOnObservation`, `ResolutionIsWitnessed` | |
| `ResolutionsAreTheCores` | Evidence_proofs | a resolution by cited evidence is a `resolve_obligation` of the core | |
| `PassesNeedOccurrence`, `PassesAreTrue` | Evidence_proofs | `PassNeedsOccurrence`, `PassIsTrueWhenWritten` | |
| `WalkIsTopological` | Order_proofs | `dependency_order` is a topological order, complete if there is one | |
| `SearchFindsCycles` | Dependencies_proofs | `has_cycle` is right about every finite graph | |
| `GraphInvariance` | Dependencies_proofs | the inductive invariant of the plan's graph | |
| `GraphAlwaysAcyclic`, `SearchAlwaysExact` | Dependencies_proofs | `GraphIsAcyclic`, `SearchIsExact` | |
| `OrderAlwaysTopological` | Dependencies_proofs | `OrderIsTopological` | |
| `LoopInvariance` | LiveLoop_proofs | the inductive invariant of the loop | |
| `ConfirmationComesFirst`, `StepsAreTriedOnce` | LiveLoop_proofs | `NothingRunsUnapproved`, `OneAttemptPerStep` | |
| `DependenciesComeFirst` | LiveLoop_proofs | `NoActionBeforeDependencies` | |
| `SuccessMeansDone`, `TerminationIsFinal` | LiveLoop_proofs | `SuccessIsEarned`, `TerminationStopsProposals` | |
| `InvestigationInvariance` | Investigation_proofs | what the two measurements have seen of the tree | |
| `HonestAnswersPass` | Investigation_proofs | `HonestPasses` | |
| `PassInvariance` | Investigation_proofs | what passed is what the tree answers, the digest is of that | |
| `PassesAreTheTree`, `NothingIsHidden` | Investigation_proofs | `PassIsTrue`, `NothingHiddenQuietly` | |

*Types.* `TypeInv` adds to `TypeOK` that an existing attempt has a plan, and that a
busy thread and a pending retry name an attempt that exists. One lemma per group of
actions (work, obligations, actions, threads, retries, process), then the induction.

*The attempt invariant.* `AtMostOneEffect` is not inductive: two threads that
both hold EXECUTING would break it in two steps. What makes it hold is that a
thread in flight owns its attempt. `AttemptInv` says so: threads exist only while
the process is up; an attempt in flight is EXECUTING or was CANCELLED under its
thread; it has one thread; how far the thread has come says whether the effect
took place; what the row says bounds what took place; Observation rows belong to
OBSERVED attempts. `BeginStep` is the heart: the status check in
`begin_executing`'s transaction is what makes the new owner the only one.

*The refinement.* `AttemptRefinement` reads the stage of an attempt off its row
and its thread: a cancelled attempt is "revoked" while a thread may still act for
it and "withdrawn" afterwards. `StepMapsToLedger` shows every step of the core to
be a step of the ledger or a stutter, with `AttemptInv` in the hypotheses; a
process death is the one step that moves several attempts (`WithdrawAll`).

*Endings.* `UncertainStaysOwed` needs to know where obligations come from:
`OwedInv` says that an uncertain attempt is the origin of some obligation, that a
RESOLVED obligation has an observed origin, and that an id not yet used has none.

*Plans.* `NoStartUnderClosedTask` follows from `ClosedTaskHasNoPlan`: a start needs the
active plan. `StaleStaysStale` needs `StaleForGood`: the plan of a started attempt
can stop being the active one only by its own end or its task's, and neither is
undone. `NoLostExecution` needs `ThreadInv`: while recovery is at work every attempt
that can still be reported is on its list; while the process is up whatever else
moves a row (a freeze, a cancellation) takes it out of the property's scope. The retry budget needs `BudgetInv`: the count is
of a finite set, whatever the set of ids, and a retry and its charge are one transaction.

*Repair.* Everything rests on revisions: whatever changes a task's or an
attempt's row makes its revision grow (`WorkBumps`, `ExecutionBumps`,
`RetryAndProcessBumps` for the core, `Wrote` for repairs), so somebody who
remembers a revision that is still current remembers the row. `FreshInv` says it
for humans and `AuthInv` for threads. `RealInv` says where an Observation and an
effect come from; it is weaker than `AttemptInv`, which repairs break: a repair may
take an attempt back to PENDING, and it can then have its effect again.

*Terminal.* `ApprovalInv`: a yes is on record for every approval that was staged, with the
revision it was given for, and only the gate lets a gated action start. For the
exit status, `EndHasReason` follows the reason from where the process decided to
end to where it has ended.

*Evidence.* `ChainInv` follows the provenance link by link: an OBSERVED row has its
Observation, confirmed evidence an observed origin, a version cites only evidence that was
there when it was written, a HIGH version cites confirmed evidence, and what a running
verification remembers of a report is still what the report says. Each link is kept because
reports, evidence and versions are written once (`StepIsMonotone`), so a repair of an
action's status breaks none. `ResolutionsAreTheCores` ties the module to the core: where
Core leaves open which obligation the cited evidence resolves, the choice Evidence makes is
one of the core's.

*The walk.* `dependency_order` is a fold of passes, each a fold over the listing. The
provers cannot instantiate an induction principle whose parameter is a predicate, so
Order_proofs derives induction over sets from the least element of a set of numbers
(`InductionUpTo`), unrolls the community modules' fold by it (`FoldRuns`), and proves of a
placement and of a pass that they keep the order topological and leave nothing behind that
could be placed. That as many passes suffice as there are steps follows by counting: a pass
that places nothing leaves a set in which every step waits for another.

*The search.* `SearchInv` is what makes a colouring search right. The path is the grey nodes,
each once, and each waits for the one after it, so a grey dependency closes a cycle along the
path. No set of black nodes is one of which each waits for another, and whatever a black node
waits for is black. A white node has all its edges ahead, and of a grey node only the edge
to the next of the path has been looked at without its end being black. So when the search
is over without a cycle everything is black and there is none. That it is over follows from
a measure, `Todo`: what is left of the entries, the returns and the looks falls by one with each
step, and the fold makes as many steps as there are at the start. `GraphIsAcyclic` then
needs nothing of the callers' snapshots: each edit searches the graph it commits.

*Live loop.* `NoActionBeforeDependencies` is about rows, the loop works by index. `LoopInv`
ties them: the run holds its plan's order, each existing action is of a step the index has
come to, at most the current one is unfinished, and every step left behind is `Done`. The
properties follow from it and from `WalkIsTopological`. That a step was observed and verified
nobody else can undo. That it was completed they can, or prevent: `complete_step` is then
rejected and the run goes on (section 5). What remains true, and is what `Done` says, is that a
step is left behind uncompleted only when somebody else has written its row. The argument is
the revision: when the run is about to complete a step, either the row is EXECUTING at the
revision the run remembers, and `complete_step` is accepted, or the count of writes by others
is not zero (`DoneInv`, `DoneStep`).

*Investigation.* `Measurement` is what the instrument does with a tree nobody edits, as a
function of its local variables; `InstrumentSteps` shows the five actions to be that
function, and `OneAnswer` that a tree has one answer. The invariant says that capability and
verifier are each somewhere on that way unless their phase saw an edit.

What the answer is worth needs the walk itself. `WalkInv` says of a search under way that
the files it scanned before it was full are the first text files in walk order, its matches
are the first of theirs, and, while there is room, what it scanned and the rest of the
directory before it are the text files of the directories entered so far. Each step keeps
that, and at the end, at the cap on files and when full it gives `RightSearch`
(`SearchStepIsRight`, `EndsRight`). The filters and `FlattenSeq` are followed along the
sequence (`KeepRuns`, `FlattenRuns`), which gives that both distribute over concatenation.
`PassInvariance` then carries the answer from the verifier's measurement to the report that
passed and to its digest.

Core_proofs starts with the facts about the transition tables that the others cite: only
PENDING starts, only EXECUTING settles, terminal statuses have no moves.

Only model-checked: liveness (`InFlightSettles`, `RunEnds`, `ClosedInputEnds`), which TLAPS
does not do under fairness.

## 5. Where code and documents disagree

Shown by runs:

* `claim_cancelled_effect`: `cancel_action` moves EXECUTING to CANCELLED while the
  capability runs. The report is then rejected; the effect has no Observation, no
  UNKNOWN_OUTCOME and no obligation, and the attempt classifies as
  KNOWN_NOT_STARTED. The ledger has "revoked" for this.
* `claim_rewritten_outcome`: of two overlapping runs of one verification the later
  rewrites the outcome of the earlier, because the second transaction does not
  ask for RUNNING (`evidence.py:396`).

* `claim_step_left_behind`: `_drive_step` does not look at the answer of `complete_step`
  (`live_loop.py:666`). When somebody else has written the step since its revision was
  read, for instance cancelled it, `complete_step` is rejected; the step is reported
  COMPLETED all the same, and the model may propose the action of the dependent step. The
  run may then answer ok, for the completion policy leaves CANCELLED steps out
  (`work.py:594`). The docstrings say that no rejection is papered over (559-560, 680-681)
  and that a step completes before the next dependent one is proposed (683-686), the
  comment at 997 that all steps are COMPLETED then. The two rejections before it (664-665)
  raise out of the run instead of halting it. What does hold is
  `NoActionBeforeDependencies` and `SuccessIsEarned`.

Met while modelling, and in the models as the code has them:

* A task may close while its attempt runs. If the attempt then becomes uncertain,
  its obligation is charged to the closed task, after the hand-over, and does not
  reach the registry (`execution.py:274`), though `obligations.py:315-318` says
  the task is still live.
* A step whose proposal names no verification is completed unverified
  (`live_loop.py:647`), against the docstring of `run_live_slice`.
* `transition_object` accepts terminal targets and then writes the status only:
  plan pointer and obligations stay (`work.py:806`), though Law 20 wants every
  terminal transition to hand over and the docstring (`work.py:774`) says
  non-terminal. FAILED has no other way in. `TaskTargets` with a terminal status
  makes `ClosingHandsOver` fail and leaves a closed task its plan; the theorems that
  assume non-terminal targets say so.
* `supersede_plan` does not ask whether the two plans differ (`work.py:520`), nor
  whether the old one is alive (`work.py:532`).
* `complete_object` asks for an entry in the transition table, not for COMPLETED
  in it (`work.py:672`): BLOCKED and PENDING tasks can be completed.
* `cancel_action`, `mark_failed`, `activate_plan`, `supersede_plan`, `retry_action` and
  `add_dependency` do not consult the FROZEN mark that others respect, though
  freezing means "no autonomous mutation until repair" (`work.py:838`).
  `FrozenWaitsForRepair` says what does hold.
* `freeze_object` writes FROZEN over ABANDONED_UNREPAIRABLE.
* `begin_executing` turns away FROZEN attempts only (`execution.py:162`): an attempt that was
  abandoned as unrepairable, which `repair.py:200-203` calls terminal, can start.
* `repair_object` with `{"integrity": "ABANDONED_UNREPAIRABLE"}` abandons an
  object without the hand-over `abandon_unrepairable` makes (`repair.py:156`).
* A repair from EXECUTING to UNKNOWN_OUTCOME creates no obligation; one that ends a
  task leaves it its active plan; one from EXECUTING to PENDING allows a second
  effect. The schema has no CHECK, so a repair may store any text as a status.
* `recover()` looks at EXECUTING attempts only, though its docstring speaks of any
  Observation row whose action is not OBSERVED (`recovery.py:24`).
* A search that fills its match cap with the last line of a file leaves the
  directory without calling itself truncated (`capabilities/__init__.py:416`). The
  digests' caps (12 and 25 matches) are below the search's (50), so the model is
  told all the same; `NothingHiddenQuietly` rests on that. `truncated` may also be set
  although nothing was left out.
* "Bounded 64 KiB" (DECISIONS.md:1055) is measured in bytes and cut in characters,
  so a read of multi-byte text may return more.
* The digest of a read cuts the content by a cap of its own (3000 and 8000
  characters) and repeats the capability's `truncated`.
* A file that vanishes between `exists` and `stat` makes a pure read raise: the
  attempt ends UNKNOWN_OUTCOME, with an obligation.
* A multiline body of one blank line is dropped like an empty one.
* An interrupt while a capability runs leaves its attempt EXECUTING; nothing in
  `run_interactive.py` calls `recover()` at the next start. An error while the session
  is terminated is swallowed and the session stays LIVE.
* No program calls `recover()`; `resolve_obligation`, `revise_claim` and
  `repair_object` are called by tests only.
* A PASS about any action resolves an obligation if the verified claim's latest
  version cites runtime evidence of the obligation's origin
  (`obligations.py:210-276`).
* The verifications of a superseded plan stay required of the task. Nothing runs
  them any more, so such a task cannot be completed unless they had passed.
* The branch INTEGRITY_VIOLATION of `classify_action_state` cannot be reached
  without a repair: that is `ObservationIffObserved`.
* Steps' `required` flag is not read by the completion policy; N_OF_M without `n`
  is satisfied by any children (`work.py:575-577`).

## 6. Not modelled

* `store.py` beyond atomicity: schema, audit rows, the crash points used by
  tests. One `write` is one action; two never overlap (`BEGIN IMMEDIATE`). `read`
  hands out the writer's connection, so a reader in another thread may see rows
  that are rolled back; every guard that decides a write is evaluated inside the
  writing transaction.
* `paths.py`: a computation on strings and links without state. The recorded
  slices under `scripts/` and the scratch driver are records of runs.
* Wording: rendering, redaction, the claim guard of `conversation.py`, the findings
  call of `live_loop.py` and its citation guard. They write nothing.
* The file capabilities' own handling of files.
* A second process on the same store: its `recover()` would settle the attempts of
  the first one. The programs start one.
* Completion policies other than ALL_REQUIRED, and `bind_required_verification` by
  hand.
* Repairs of a step's flags, of retry budgets, completion policies and origins.

## 7. Plan

Done: Lifecycle, Obligations, Work, Execution, Core, Repair, Evidence, LiveLoop, Terminal,
Dependencies and Investigation with their theorems; AttemptLedger and the refinement;
PlanOrder and its theorem.

Next, in this order:

1. The completion policies as operators, against a reference definition.
2. An abstract specification of the terminal's contract (lines in, questions and
   exits out) and the refinement that shows Terminal to implement it.
