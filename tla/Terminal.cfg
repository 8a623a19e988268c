SPECIFICATION Spec
CHECK_DEADLOCK FALSE
CONSTANTS
  Actions = {a1, a2, a3}
  NoAction = noaction
  Gated = {a1, a2}
  Lines <- MCLines
  MaxLines = 4
  MaxRev = 2
INVARIANTS ApprovalIsHeard ExitsAsPromised
PROPERTIES ClosedInputEnds
