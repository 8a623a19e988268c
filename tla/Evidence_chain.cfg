SPECIFICATION Spec
CHECK_DEADLOCK FALSE
CONSTANTS
  g1 = g1  t1 = t1  a1 = a1  a2 = a2  s1 = s1  s2 = s2
  f1 = f1  x = x  y = y  v1 = v1  v2 = v2
  Goals = {g1}
  Tasks = {t1}
  TaskGoal <- TheGoal
  Actions = {a1, a2}
  Obls = {o1}
  HostObls = {o1}
  UOR = uor
  NoAction = noaction
  Steps = {s1, s2}
  NoStep = nostep
  StepOf <- Own
  Files = {f1}
  Contents = {x, y}
  Absent = absent
  File <- OneFile
  Wanted <- AskForX
  Evs = {e1}
  Claims = {k1}
  Vers = {v1, v2}
  VerStep <- FirstBound
  Method <- WriteRead
  Runners = {r1}
  NoReport = noreport
  NoVer = nover
  MaxVersions = 2
  ActionRepairs = {"UNKNOWN_OUTCOME"}
  VerRepairs = {"PENDING"}
INVARIANTS HighRestsOnObservation ResolutionIsWitnessed
PROPERTIES PassNeedsOccurrence PassIsTrueWhenWritten
