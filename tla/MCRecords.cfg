SPECIFICATION Spec
CONSTANTS
  Runs = {r1, r2}
  Requests = {q1, q2, q3}
  None = None
  Production = FALSE
SYMMETRY Symmetry
INVARIANT AcceptedKept
INVARIANT RecordsInv
PROPERTY ViewIsCurrent
PROPERTY RevisionGrows
CHECK_DEADLOCK FALSE
