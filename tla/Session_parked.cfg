SPECIFICATION SessionSpec
CONSTANTS
  a = a  b = b  c = c  w1 = w1
  Node = {a, b}
  NoNode = NoNode
  Deps <- FlatDeps
  PassOf <- OnePass
  PassCount = 1
  Expensive = {a, b}
  NoAction = {}
  Main = Main
  Worker = {w1}
  NoThread = NoThread
  MaxExpensiveCount = 1
  ContinueOnError = FALSE
  Precious = {}
  Overwrite = {}
  MaxEdits = 1
  MaxSessions = 3
  Regimes <- Calm
INVARIANTS
  UpToDateIsBuilt
