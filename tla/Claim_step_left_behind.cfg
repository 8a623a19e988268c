SPECIFICATION Spec
CHECK_DEADLOCK FALSE
CONSTANTS
  p1 = p1  p2 = p2  s1 = s1  s2 = s2  s3 = s3  v1 = v1  v2 = v2
  Tasks = {t1}
  Plans = {p1, p2}
  Steps = {s1, s2, s3}
  Actions = {a1, a2}
  Vers = {v1, v2}
  Listed <- TwoPlans
  Graph <- WaitFirst
  VerStep <- Both
  NeedsApproval = {}
  NoTask = notask
  NoPlan = noplan
  NoAction = noaction
  OtherPlan = otherplan
  OtherSteps = {s2}
  OtherStatuses = {"CANCELLED"}
  MaxOthers = 1
  MaxTurns = 6
  MaxCalls = 2
  MaxReprompts = 1
  MaxRejections = 1
PROPERTIES LeavesOnlyCompleted
