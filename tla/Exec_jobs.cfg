SPECIFICATION ExecFairSpec
CONSTANTS
  j1 = j1  j2 = j2  j3 = j3
  Job = {j1, j2, j3}
  NoJob = NoJob
  LineBufCount = 1
  KeyWidth = 5
  Plan <- Plans
  Statuses <- Ends
  Annotated = {j2}
  Echo = FALSE
  PipeSize = 1
  Faulty = {j1}
  Late = {j3}
INVARIANTS
  NothingLost
  OutputTogether
  
  
PROPERTIES
  EveryJobReturns
