SPECIFICATION Spec
CONSTANTS
  a = a  b = b  c = c  d = d  e = e
  w1 = w1  w2 = w2
  Node = {a, b, c, d}
  NoNode = NoNode
  Deps <- FlatDeps
  PassOf <- OnePass
  PassCount = 1
  Expensive = {a, b}
  NoAction = {a}
  Main = Main
  Worker = {w1, w2}
  NoThread = NoThread
  MaxExpensiveCount = 1
  ContinueOnError = FALSE
SYMMETRY Workers
INVARIANTS
  ExpensiveCountNotNegative
