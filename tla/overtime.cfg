SPECIFICATION Spec
CONSTANTS
  None = None
  Requests = {q1, q2}
  Workers = {w1, w2, w3}
SYMMETRY Interchangeable
INVARIANTS
  TypeOK
  StatusMirrorsVerdict
PROPERTY
  NoUntracked
