SPECIFICATION Spec
CONSTANTS
  Jobs = {j1, j2}
  Tokens = {t1, t2}
  None = None
  MaxAttempts = 2
  Deployment = "worker"
SYMMETRY Symmetry
PROPERTY ImplementsLifecycle
CHECK_DEADLOCK FALSE
