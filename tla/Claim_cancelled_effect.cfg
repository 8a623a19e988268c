SPECIFICATION Spec
CHECK_DEADLOCK FALSE
CONSTANTS
  g1 = g1  t1 = t1  t2 = t2  p1 = p1  p2 = p2
  a1 = a1  a2 = a2  a3 = a3
  o1 = o1  o2 = o2  o3 = o3  w1 = w1  w2 = w2  c1 = c1  c2 = c2
  Goals = {g1}
  Tasks = {t1}
  TaskGoal <- SameGoal
  Actions = {a1}
  HostActions = {a1}
  Obls = {o2}
  HostObls = {}
  UOR = uor
  NoAction = noaction
  Plans = {p1}
  PlanTask <- FirstTask
  NoPlan = noplan
  MaxAttempts = 1
  MaxRev = 1
  MovedGoals = {g1}
  GoalTargets = {}
  TaskTargets = {"ACTIVE"}
  PlanTargets = {}
  Workers = {w1}
  Triggers = {}
  MaxCrashes = 0
  MaxActionRev = 0
  RunRecovery = TRUE
INVARIANTS NotStartedHadNoEffect
