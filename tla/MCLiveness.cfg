SPECIFICATION FairSpec
CONSTANTS
  Jobs = {j1}
  Tokens = {t1, t2, t3}
  None = None
  MaxAttempts = 2
  Deployment = "production"
PROPERTY ImplementsLifecycle
PROPERTY EventuallySettled
CHECK_DEADLOCK FALSE
