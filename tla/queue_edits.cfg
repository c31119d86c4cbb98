CONSTANTS
  Groups = {g1, g2}
  Claims = {c1}
  Null = Null
  Publications = {1}
  AutoPause = TRUE
  Commands = {"plan", "confirm", "preflight", "authorize", "revoke", "switch", "pause", "regroup"}
  MaxAuth = 2
  MaxEdits = 2
  MaxReads = 1
SPECIFICATION QueueSpec
SYMMETRY Symmetry
PROPERTIES ClaimsOnlyWhileOpen
CHECK_DEADLOCK FALSE
