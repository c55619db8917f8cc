SPECIFICATION Spec
CONSTANTS
  a = a  b = b  c = c  d = d  e = e
  w1 = w1  w2 = w2
  Node = {a, b, c, d, e}
  NoNode = NoNode
  Deps <- LayeredDeps
  PassOf <- TwoPasses
  PassCount = 2
  Expensive = {a, b, c, d}
  NoAction = {e}
  Main = Main
  Worker = {w1, w2}
  NoThread = NoThread
  MaxExpensiveCount = 2
  ContinueOnError = TRUE
SYMMETRY Workers
INVARIANTS
  PassBarrier
  ResultSound
  KeepGoing
  ExpensiveLimit
  ParkedHasWaker
