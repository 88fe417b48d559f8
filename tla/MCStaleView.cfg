SPECIFICATION Spec
CONSTANTS
  Runs = {r1}
  Requests = {q1, q2, q3, q4}
  None = None
  Production = TRUE
SYMMETRY Symmetry
PROPERTY ViewIsAlwaysCurrent
CHECK_DEADLOCK FALSE
