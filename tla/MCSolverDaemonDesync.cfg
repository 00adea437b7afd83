SPECIFICATION Spec
CONSTANTS
  Callers = {c1}
  Nobody = nobody
  Shapes = {s1, s2}
  NoShape = noshape
  MaxCalls = 3
  MaxFaults = 0
  MaxCancels = 1
CHECK_DEADLOCK FALSE
INVARIANTS
  AnswerIsOwn
SYMMETRY CallerSymmetry
