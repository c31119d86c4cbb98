CONSTANTS
  Groups = {g1}
  Claims = {c1, c2}
  Null = Null
  Publications = {1}
  AutoPause = TRUE
  Commands = {"plan", "confirm", "reject", "preflight", "preflightFailed", "authorize", "expire", "revoke", "cancel", "archive", "release", "delivered", "notDelivered", "keepUncertain", "retry", "expireStale", "repair", "dryRun"}
  MaxAuth = 2
  MaxEdits = 0
  MaxReads = 0
SPECIFICATION QueueSpec
SYMMETRY Symmetry
INVARIANT MarkedIsSpent
PROPERTIES AuthorizationsAreSingleUse MarkerIsPermanent
CHECK_DEADLOCK FALSE
