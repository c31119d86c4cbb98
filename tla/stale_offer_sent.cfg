CONSTANTS
  Groups = {g1}
  Claims = {d1}
  Null = Null
  Publications = {1}
  AutoPause = TRUE
  Commands = {"plan", "confirm", "preflight", "authorize", "dryRun", "expireStale"}
  MaxAuth = 1
  MaxEdits = 0
  MaxReads = 0
  MaxFaults = 0
SPECIFICATION LiveSpec
PROPERTIES CancelledIsNeverSent
CHECK_DEADLOCK FALSE
