CONSTANTS
  Groups = {g1}
  Claims = {c1}
  Null = Null
  Publications = {1}
  AutoPause = TRUE
  Commands = {"plan", "confirm", "preflight", "authorize", "dryRun"}
  MaxAuth = 1
  MaxEdits = 0
  MaxReads = 1
SPECIFICATION QueueSpec
SYMMETRY Symmetry
PROPERTIES AuthorizationsAreSingleUse
CHECK_DEADLOCK FALSE
