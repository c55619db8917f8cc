SPECIFICATION ExecSpec
CONSTANTS
  j1 = j1  j2 = j2  j3 = j3
  Job = {j1, j2}
  NoJob = NoJob
  LineBufCount = 3
  KeyWidth = 5
  Plan <- FailingPlans
  Statuses <- FailingEnds
  Annotated = {j1, j2}
  Echo = FALSE
  PipeSize = 1
  Faulty = {}
  Late = {}
INVARIANTS
  OutputInOrder
