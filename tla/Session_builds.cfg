SPECIFICATION SessionSpec
CONSTANTS
  a = a  b = b  c = c  w1 = w1
  Node = {a, b}
  NoNode = NoNode
  Deps <- ChainDeps
  PassOf <- OnePass
  PassCount = 1
  Expensive = {}
  NoAction = {}
  Main = Main
  Worker = {w1}
  NoThread = NoThread
  MaxExpensiveCount = 2
  ContinueOnError = FALSE
  Precious = {a}
  Overwrite = {b}
  MaxEdits = 1
  MaxSessions = 3
  Regimes <- Usual
INVARIANTS
  UpToDateIsBuilt
  NothingToDo
  SuccessMeansCurrent
