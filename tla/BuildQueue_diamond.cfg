SPECIFICATION FairSpec
CONSTANTS
  a = a  b = b  c = c  d = d  e = e
  w1 = w1  w2 = w2
  Node = {a, b, c, d}
  NoNode = NoNode
  Deps <- DiamondDeps
  PassOf <- OnePass
  PassCount = 1
  Expensive = {b, c}
  NoAction = {}
  Main = Main
  Worker = {w1, w2}
  NoThread = NoThread
  MaxExpensiveCount = 0
  ContinueOnError = FALSE
INVARIANTS
  DependenciesFirst
  ExclusiveOwnership
  NoLostNode
  AssertionsHold
PROPERTIES
  ImplementsBuildOrder
  Terminates
