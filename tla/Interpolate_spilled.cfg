SPECIFICATION SpilledSpec
CONSTANTS
  Subjects = {"spilled"}
  NoNode = NoNode
  Thread = {"t1"}
  NoThread = "none"
  Cond = {"read", "write"}
  Rounds = 1
  InternalSize = 2
  MaxOptions = 2
INVARIANTS
  LongTextsRight
CHECK_DEADLOCK FALSE
