CONSTANTS
  Groups = {g1, g2}
  Claims = {d1}
  Null = Null
  Publications = {1}
  AutoPause = TRUE
  Commands = {"plan", "confirm", "preflight", "authorize", "dryRun", "regroup"}
  MaxAuth = 2
  MaxEdits = 1
  MaxReads = 0
  MaxFaults = 0
SPECIFICATION Spec
SYMMETRY Symmetry
PROPERTIES SentToAuthorizedGroup
CHECK_DEADLOCK FALSE
