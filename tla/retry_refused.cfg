CONSTANTS
  Groups = {g1}
  Claims = {d1}
  Null = Null
  Publications = {1}
  AutoPause = TRUE
  Commands = {"plan", "confirm", "preflight", "authorize", "release", "delivered", "notDelivered", "retry", "dryRun"}
  MaxAuth = 1
  MaxEdits = 0
  MaxReads = 0
  MaxFaults = 0
SPECIFICATION Spec
SYMMETRY Symmetry
INVARIANTS RetryCanBeAuthorized
CHECK_DEADLOCK FALSE
