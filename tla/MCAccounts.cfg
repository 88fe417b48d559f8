SPECIFICATION Spec
CONSTANTS
  Requests = {q1, q2, q3}
  None = None
  Passwords = {p1, p2}
  Links = {x1, x2}
  Cap = 1
  MaxEpoch = 1
  Workspaces = {z1, z2}
  Names = {y1, y2}
  Invites = {x1, x2}
  Tokens = {x1, x2}
  Scopes = {{"run:read"}, {"token:manage", "run:review"}}
  Addresses = {a1}
  Social = {g1}
  Enterprise = {e1}
  Challenges = {x1, x2}
  Flows = {f1}
  Accounts = {y1, y2}
  MaxAttempts = 1
  SendLimit = 1
  Skew = 1
  Now = 5
  IdTokens <- MCIdTokens
  KeySets <- MCKeySets
  DirectorySettings <- MCDirectorySettings
  Logins <- MCLogins
  Parts = {"credentials", "members", "signin", "federated"}
INVARIANT CredentialsHold
INVARIANT RightsAreGranted
INVARIANT ProofsHold
INVARIANT AcceptedIsProved
PROPERTY SignInSteps
PROPERTY CapRestored
SYMMETRY Symmetry
CHECK_DEADLOCK FALSE
