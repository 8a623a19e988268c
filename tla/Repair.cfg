SPECIFICATION RepairSpec
SYMMETRY Symmetry
CHECK_DEADLOCK FALSE
CONSTANTS
  g1 = g1  t1 = t1  p1 = p1  p2 = p2  a1 = a1  o1 = o1  o2 = o2
  h1 = h1  h2 = h2
  Goals = {g1}
  Tasks = {t1}
  TaskGoal <- TheGoal
  Actions = {a1}
  HostActions = {a1}
  Obls = {o1}
  HostObls = {}
  UOR = uor
  NoAction = noaction
  Plans = {p1}
  PlanTask <- TheTask
  NoPlan = noplan
  MaxAttempts = 0
  MaxRev = 1
  MovedGoals = {}
  GoalTargets = {}
  TaskTargets = {"ACTIVE"}
  PlanTargets = {"FAILED"}
  Workers = {w1}
  Triggers = {}
  MaxCrashes = 1
  MaxActionRev = 2
  RunRecovery = TRUE
  Humans = {h1, h2}
  Nothing = nothing
  GoalRepairs <- RepairGoal
  TaskRepairs <- RepairTask
  PlanRepairs <- RepairPlan
  ActionRepairs <- RepairAction
  OblRepairs <- RepairObl
  MaxRepairs = 1
INVARIANTS AuthorityIsCurrent ObservedIsReal
PROPERTIES RepairsWhatWasSeen EndingHandsOver FrozenWaitsForRepair RecoveryNeverGuesses
