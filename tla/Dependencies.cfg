SPECIFICATION Spec
CONSTANTS
  c1 = c1
  c2 = c2
  Callers = {c1, c2}
  MaxSteps = 3
  MaxRevision = 2
SYMMETRY CallerSymmetry
INVARIANTS GraphIsAcyclic SearchIsExact OrderIsTopological
