CONSTANTS
  Groups = {g1}
  Claims = {d1, d2}
  Null = Null
  Publications = {1, 2}
  AutoPause = TRUE
  Commands = {"plan", "confirm", "preflight", "authorize", "notDelivered", "retry", "dryRun", "expireStale"}
  MaxAuth = 2
  MaxEdits = 0
  MaxReads = 0
  MaxFaults = 0
SPECIFICATION LiveSpec
INVARIANTS OneUnresolved
PROPERTIES SendsOnce ClaimIsGivenBack
CHECK_DEADLOCK FALSE
