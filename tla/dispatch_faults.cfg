CONSTANTS
  Groups = {g1}
  Claims = {d1, d2}
  Null = Null
  Publications = {1}
  AutoPause = TRUE
  Commands = {"plan", "confirm", "preflight", "authorize", "expire", "revoke", "cancel", "release", "delivered", "notDelivered", "keepUncertain", "retry", "expireStale", "repair", "dryRun"}
  MaxAuth = 2
  MaxEdits = 0
  MaxReads = 0
  MaxFaults = 1
SPECIFICATION Spec
SYMMETRY Symmetry
INVARIANTS AtMostOneSend SentIsAccountedFor StatusTellsWhatWasSent
CHECK_DEADLOCK FALSE
