SPECIFICATION Spec
CONSTANTS
  None = None
  Corrections = {c1}
  Sessions = {s1}
  Workers = {w1, w2}
  Fenced = FALSE
INVARIANT
  ClosedNeverMoved
