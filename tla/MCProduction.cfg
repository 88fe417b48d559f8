SPECIFICATION Spec
CONSTANTS
  Jobs = {j1}
  Tokens = {t1, t2, t3}
  None = None
  MaxAttempts = 3
  Deployment = "production"
SYMMETRY Symmetry
INVARIANT PublishOnce
INVARIANT RunHasFiles
INVARIANT InputsKept
INVARIANT IInv
PROPERTY FencedPublication
PROPERTY TerminalIsFinal
PROPERTY LeaseHandover
CHECK_DEADLOCK FALSE
