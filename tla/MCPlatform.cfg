SPECIFICATION Spec
CONSTANTS
  Parts = {"schema", "engine", "audit", "limits", "feedback", "workbench", "backup", "http"}
  None = None
  MaxCrashes = 2
  Threads = {t1, t2, t3}
  Events = {v1, v2, v3}
  NoEvent = NoEvent
  Writers = {1, 2, 3}
  Types = {"a"}
  AuditTime = 3
  Clients = {p1, p2}
  MaxHits = 3
  Window = 2
  CleanupAge = 2
  LimitTime = 5
  MaxTurns = 2
  Reviewers = {p1, p2}
  Detections <- MCDetections
  Misses = {"m1"}
  Categories = {"fatal", "score"}
  MinSample = 2
  MaxLabels = 3
  Handlers = {p1, p2}
  Statuses = {"OPEN", "DONE"}
  Notes = {"n"}
  Runs = {r1}
  Backups = {p1, p2}
  MaxBytes = 3
  ReadSize = 2
  MaxReads = 2
INVARIANT UpgradeEnds
INVARIANT SchemaInv
INVARIANT ChainTells
INVARIANT LimitHeld
INVARIANT SoleReviewerCovers
INVARIANT RestoredWhole
INVARIANT RequestHeld
PROPERTY WorkKept
SYMMETRY Symmetry
CHECK_DEADLOCK FALSE
