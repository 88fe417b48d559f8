SPECIFICATION Spec
CONSTANTS
  Jobs = {j1, j2}
  Tokens = {t1, t2, t3}
  None = None
  MaxAttempts = 2
  Deployment = "inline"
SYMMETRY Symmetry
INVARIANT PublishOnceAlways
PROPERTY LeaseHandoverAlways
