SPECIFICATION Spec
CONSTANTS
  Requests = {q1, q2, q3, q4, q5}
  Secrets = {s1, s2}
  Slots = {c1}
  None = None
  MaxNow = 2
SYMMETRY Symmetry
INVARIANT CodeUsedOnce
INVARIANT OneSessionPerFlow
INVARIANT FactorInv
PROPERTY FactorOnlyAdvances
CHECK_DEADLOCK FALSE
