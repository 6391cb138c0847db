SPECIFICATION Spec
CONSTANTS
  None = None
  Corrections = {c1, c2}
  Sessions = {s1}
  Workers = {w1, w2}
  Fenced = FALSE
SYMMETRY Interchangeable
INVARIANTS
  TypeOK
  AppliedMeansWritten
  GateFailsClosed
PROPERTY
  ImplementsTrail
