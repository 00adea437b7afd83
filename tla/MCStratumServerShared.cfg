SPECIFICATION Spec
CONSTANTS
  Sessions = {s1, s2}
  f = f
  padded = padded
  noise = noise
  Texts = {f}
  Number <- MCNumber
  MaxTemplates = 1
  MaxConnects = 2
  MaxSubmits = 2
  MaxFaults = 0
CHECK_DEADLOCK FALSE
SYMMETRY SessionSymmetry
INVARIANTS
  WorkDiffers
