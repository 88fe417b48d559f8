SPECIFICATION Spec
CONSTANTS
  Jobs = {j1}
  Tokens = {t1, t2}
  None = None
  MaxAttempts = 3
  Deployment = "production"
SYMMETRY Symmetry
PROPERTY LeaseHandoverAlways
CHECK_DEADLOCK FALSE
