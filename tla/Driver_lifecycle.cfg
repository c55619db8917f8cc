SPECIFICATION DriverSpec
CONSTANTS
  n1 = n1  n2 = n2  n3 = n3
  Node = {n1, n2, n3}
  Dag <- Changing
  Options <- AllOptions
  Invocations = 4
  SourceEdits = 1
  Kills = {"dag", "compile", "loaded", "stale", "prepare", "clean", "build", "save"}
  WritesFail = TRUE
INVARIANTS
  
  
  NoOrphans

  
CHECK_DEADLOCK FALSE
