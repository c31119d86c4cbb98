CONSTANTS
  Groups = {g1}
  Claims = {d1}
  Null = Null
  Publications = {1}
  AutoPause = TRUE
  Commands = {"plan", "confirm", "preflight", "authorize", "dryRun"}
  MaxAuth = 1
  MaxEdits = 0
  MaxReads = 0
  MaxFaults = 1
SPECIFICATION Spec
SYMMETRY Symmetry
PROPERTIES PublishedIsFinal
CHECK_DEADLOCK FALSE
